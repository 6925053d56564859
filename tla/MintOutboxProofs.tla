-------------------------- MODULE MintOutboxProofs --------------------------
(***************************************************************************)
(* Proofs about MintOutbox, for every set of fields and every bound.       *)
(***************************************************************************)
EXTENDS MintOutbox, FiniteSetTheorems, TLAPS

USE ConstantsAssumption
USE DEF aggVars, redisVars, chainVars, sinkVars, drainVars, attVars, histVars

\* The ways Next can be taken, in one list.
LEMMA NextCases ==
    ASSUME Next
    PROVE  \/ \E f \in Field :
                \/ HandleReading(f) \/ BinWrite(f)
                \/ PlanSurplus(f) \/ PlanNoSurplus(f) \/ PlanUnattributed(f)
                \/ SinkEnqueueOk(f) \/ SinkEnqueueErr(f)
                \/ SinkRetryOk(f) \/ SinkRetryErr(f)
                \/ InlineGiveUp(f) \/ InlinePublish(f)
                \/ InlineConfirmed(f) \/ InlineFailed(f) \/ SinkEvict(f)
                \/ ParkSetOk(f) \/ ParkSetErr(f)
                \/ ParkDelOk(f) \/ ParkDelErr(f)
                \/ Land(f) \/ Reject(f)
           \/ \E s \in Slot, f \in Field :
                \/ SpawnedGiveUp(s, f) \/ SpawnedPublish(s, f)
                \/ SpawnedConfirmed(s, f) \/ SpawnedFailed(s, f)
           \/ \E w \in Who, f \in Field :
                \/ RemoveOutboxOk(w, f) \/ RemoveOutboxErr(w, f)
                \/ RemoveParked(w, f)
           \/ \E b \in chunks :
                \/ BatchAcquire(b) \/ BatchPublishOk(b) \/ BatchPublishErr(b)
                \/ BatchReply(b) \/ BatchDone(b)
                \/ \E f \in b : BatchClaim(b, f) \/ BatchSkip(b, f)
           \/ Sweep \/ SweepDone \/ DrainLoad \/ DrainSpawn \/ DrainJoin
           \/ Tick \/ Crash
BY DEF Next, Sink, Spawned, Remove, Drain, Batch

\* slice::chunks neither drops nor invents a field.
LEMMA ChunksCover ==
    ASSUME NEW fs, NEW cs \in Chunks(fs)
    PROVE  cs \subseteq SUBSET fs /\ UNION cs = fs
BY DEF Chunks

\* The type invariant of MintOutbox holds whatever the number of fields, permits
\* and the size of a batch.
THEOREM TypeCorrect == Spec => []TypeOK
<1>1. Init => TypeOK
  BY SMTT(30) DEF Init, ProcessInit, TypeOK, Age, Absent, SinkState, DrainState,
         Handoff, RowState, AttemptState
<1>2. TypeOK /\ [Next]_vars => TypeOK'
  <2> SUFFICES ASSUME TypeOK, [Next]_vars PROVE TypeOK'
    OBVIOUS
  <2> USE DEF TypeOK
  <2>1. CASE UNCHANGED vars
    BY <2>1 DEF vars
  <2>2. ASSUME NEW f \in Field, HandleReading(f) \/ BinWrite(f)
        PROVE  TypeOK'
    BY <2>2 DEF HandleReading, BinWrite
  <2>3. ASSUME NEW f \in Field,
               PlanSurplus(f) \/ PlanNoSurplus(f) \/ PlanUnattributed(f)
        PROVE  TypeOK'
    BY <2>3 DEF PlanSurplus, PlanNoSurplus, PlanUnattributed, SinkState,
                mark_no_surplus, RowState, Handoff
  <2>4. ASSUME NEW f \in Field,
               \/ SinkEnqueueOk(f) \/ SinkEnqueueErr(f)
               \/ SinkRetryOk(f) \/ SinkRetryErr(f)
        PROVE  TypeOK'
    BY <2>4 DEF SinkEnqueueOk, SinkEnqueueErr, SinkRetryOk, SinkRetryErr,
                Enqueued, EnqueueErr, SinkState, Handoff, AttemptState, Who, Age
  <2>5. ASSUME NEW f \in Field,
               InlineGiveUp(f) \/ InlinePublish(f) \/ InlineFailed(f)
        PROVE  TypeOK'
    BY <2>5 DEF InlineGiveUp, InlinePublish, InlineFailed, try_begin, drop,
                SinkState, Handoff
  <2>6. ASSUME NEW f \in Field, InlineConfirmed(f) PROVE TypeOK'
    BY <2>6 DEF InlineConfirmed, mark_minted, drop, SinkState, Handoff, RowState
  <2>7. ASSUME NEW f \in Field, SinkEvict(f) PROVE TypeOK'
    BY <2>7 DEF SinkEvict, SinkState
  <2>8. ASSUME NEW s \in Slot, NEW f \in Field,
               SpawnedGiveUp(s, f) \/ SpawnedPublish(s, f) \/ SpawnedFailed(s, f)
        PROVE  TypeOK'
    BY <2>8 DEF SpawnedGiveUp, SpawnedPublish, SpawnedFailed, try_begin, drop,
                AttemptState, Who
  <2>9. ASSUME NEW s \in Slot, NEW f \in Field, SpawnedConfirmed(s, f)
        PROVE  TypeOK'
    BY <2>9 DEF SpawnedConfirmed, mark_minted, drop, AttemptState, Who, RowState
  <2>10. ASSUME NEW w \in Who, NEW f \in Field,
                \/ RemoveOutboxOk(w, f) \/ RemoveOutboxErr(w, f)
                \/ RemoveParked(w, f)
         PROVE  TypeOK'
    BY <2>10 DEF RemoveOutboxOk, RemoveOutboxErr, RemoveParked, Dequeued, Ended,
                 AttemptState, Absent
  <2>11. ASSUME NEW f \in Field,
                \/ ParkSetOk(f) \/ ParkSetErr(f)
                \/ ParkDelOk(f) \/ ParkDelErr(f)
         PROVE  TypeOK'
    BY <2>11 DEF ParkSetOk, ParkSetErr, ParkDelOk, ParkDelErr, Dequeued,
                 DrainState, Absent
  <2>12. ASSUME NEW f \in Field, Land(f) \/ Reject(f) PROVE TypeOK'
    BY <2>12 DEF Land, Reject
  <2>13. ASSUME NEW b \in chunks, BatchAcquire(b) \/ BatchDone(b)
         PROVE  TypeOK'
    BY <2>13 DEF BatchAcquire, BatchDone
  <2>14. ASSUME NEW b \in chunks, NEW f \in b,
                BatchClaim(b, f) \/ BatchSkip(b, f)
         PROVE  TypeOK'
    BY <2>14 DEF BatchClaim, BatchSkip, try_begin, DrainMove, AttemptState, Who
  <2>15. ASSUME NEW b \in chunks, BatchPublishOk(b) \/ BatchPublishErr(b)
         PROVE  TypeOK'
    BY <2>15 DEF BatchPublishOk, BatchPublishErr, drop, DrainMove, InState,
                 AttemptState, Who
  <2>16. ASSUME NEW b \in chunks, BatchReply(b) PROVE TypeOK'
    BY <2>16 DEF BatchReply, mark_minted, drop, InState, AttemptState, Who,
                 RowState
  <2>17. CASE Sweep \/ SweepDone
    BY <2>17 DEF Sweep, SweepDone, SinkState
  <2>18. CASE DrainLoad \/ DrainJoin
    BY <2>18 DEF DrainLoad, DrainJoin, Queued, DrainState
  <2>19. CASE DrainSpawn
    BY <2>19, ChunksCover DEF DrainSpawn, AttemptState, Who, DrainState
  <2>20. CASE Tick
    BY <2>20 DEF Tick, Age, Absent
  <2>21. CASE Crash
    BY <2>21 DEF Crash, SinkState, DrainState, Handoff, AttemptState
  <2> HIDE DEF TypeOK
  <2> QED
    BY <2>1, <2>2, <2>3, <2>4, <2>5, <2>6, <2>7, <2>8, <2>9, <2>10, <2>11,
       <2>12, <2>13, <2>14, <2>15, <2>16, <2>17, <2>18, <2>19, <2>20, <2>21,
       NextCases, SMTT(30)
<1> QED
  BY <1>1, <1>2, PTL DEF Spec

-----------------------------------------------------------------------------
(***************************************************************************)
(* Each part of IndInv is preserved by every step.  In each lemma the      *)
(* first case covers the actions that leave the part's variables alone.    *)
(***************************************************************************)

\* Only remove and park delete outbox and parked entries: remove for a mint that
\* is on the chain, park after it has written the parked copy.
LEMMA NoSilentLossStep ==
    ASSUME TypeOK, NoSilentLoss, ConfirmedIsMinted, ParkedBeforeDel,
           [Next]_vars
    PROVE  NoSilentLoss'
<1>t. outbox \in [Field -> Int] /\ promised \subseteq Field
  BY DEF TypeOK, Age, Absent
<1> USE <1>t DEF NoSilentLoss, ConfirmedIsMinted, ParkedBeforeDel, Queued,
            Absent
<1>1. CASE UNCHANGED <<outbox, parked, minted, promised>>
  BY <1>1
<1>2. ASSUME NEW f \in Field,
             \/ SinkEnqueueOk(f) \/ SinkEnqueueErr(f) \/ SinkRetryOk(f)
             \/ SinkRetryErr(f)
      PROVE  NoSilentLoss'
  BY <1>2 DEF SinkEnqueueOk, Enqueued, SinkEnqueueErr, EnqueueErr,
     SinkRetryOk, SinkRetryErr
<1>3. ASSUME NEW w \in Who, NEW f \in Field,
             \/ RemoveOutboxOk(w, f) \/ RemoveOutboxErr(w, f)
             \/ RemoveParked(w, f)
      PROVE  NoSilentLoss'
  BY <1>3 DEF RemoveOutboxOk, Dequeued, RemoveOutboxErr, Ended, RemoveParked
<1>4. ASSUME NEW f \in Field,
             ParkSetOk(f) \/ ParkSetErr(f) \/ ParkDelOk(f) \/ ParkDelErr(f)
      PROVE  NoSilentLoss'
  BY <1>4 DEF ParkSetOk, ParkSetErr, ParkDelOk, Dequeued, ParkDelErr
<1>5. ASSUME NEW f \in Field,
             Land(f)
      PROVE  NoSilentLoss'
  BY <1>5 DEF Land
<1>6. CASE Tick
  BY <1>6 DEF Tick
<1> HIDE <1>t DEF NoSilentLoss, ConfirmedIsMinted, ParkedBeforeDel, Queued,
             Absent
<1>7. ASSUME NEW f \in Field,
             \/ HandleReading(f) \/ BinWrite(f) \/ PlanSurplus(f)
             \/ PlanNoSurplus(f) \/ PlanUnattributed(f) \/ InlineGiveUp(f)
             \/ InlinePublish(f) \/ InlineConfirmed(f) \/ InlineFailed(f)
             \/ SinkEvict(f) \/ Reject(f)
      PROVE  UNCHANGED <<outbox, parked, minted, promised>>
  BY <1>7, ZenonT(30) DEF HandleReading, BinWrite, PlanSurplus, PlanNoSurplus,
     PlanUnattributed, InlineGiveUp, InlinePublish, InlineConfirmed,
     InlineFailed, SinkEvict, Reject
<1>8. ASSUME NEW s \in Slot, NEW f \in Field,
             \/ SpawnedGiveUp(s, f) \/ SpawnedPublish(s, f)
             \/ SpawnedConfirmed(s, f) \/ SpawnedFailed(s, f)
      PROVE  UNCHANGED <<outbox, parked, minted, promised>>
  BY <1>8, ZenonT(30) DEF SpawnedGiveUp, SpawnedPublish, SpawnedConfirmed, SpawnedFailed
<1>9. ASSUME NEW b \in chunks,
             \/ BatchAcquire(b) \/ BatchPublishOk(b) \/ BatchPublishErr(b)
             \/ BatchReply(b) \/ BatchDone(b)
      PROVE  UNCHANGED <<outbox, parked, minted, promised>>
  BY <1>9, ZenonT(30) DEF BatchAcquire, BatchPublishOk, BatchPublishErr, BatchReply,
     BatchDone
<1>10. ASSUME NEW b \in chunks, NEW f \in b,
             BatchClaim(b, f) \/ BatchSkip(b, f)
      PROVE  UNCHANGED <<outbox, parked, minted, promised>>
  BY <1>10, ZenonT(30) DEF BatchClaim, BatchSkip
<1>11. ASSUME \/ Sweep \/ SweepDone \/ DrainLoad \/ DrainSpawn \/ DrainJoin
              \/ Crash
      PROVE  UNCHANGED <<outbox, parked, minted, promised>>
  BY <1>11, ZenonT(30) DEF Sweep, SweepDone, DrainLoad, DrainSpawn, DrainJoin, Crash
<1>12. CASE UNCHANGED vars
  BY <1>1, <1>12 DEF vars
<1> QED BY <1>1, <1>2, <1>3, <1>4, <1>5, <1>6, <1>7, <1>8, <1>9, <1>10, <1>11,
           <1>12, NextCases

\* A reply that confirms is about a mint on the chain, and mints are final.
LEMMA ConfirmedIsMintedStep ==
    ASSUME TypeOK, ConfirmedIsMinted, [Next]_vars
    PROVE  ConfirmedIsMinted'
<1>t. /\ att \in [Who -> [Field -> AttemptState]]
      /\ chunks \subseteq SUBSET Field
  BY DEF TypeOK
<1> USE <1>t DEF ConfirmedIsMinted, Who
<1>1. CASE UNCHANGED <<att, minted>>
  BY <1>1
<1>2. ASSUME NEW f \in Field,
             SinkEnqueueOk(f) \/ Land(f)
      PROVE  ConfirmedIsMinted'
  BY <1>2 DEF SinkEnqueueOk, Enqueued, Land
<1>3. ASSUME NEW s \in Slot, NEW f \in Field,
             \/ SpawnedGiveUp(s, f) \/ SpawnedPublish(s, f)
             \/ SpawnedConfirmed(s, f) \/ SpawnedFailed(s, f)
      PROVE  ConfirmedIsMinted'
  BY <1>3 DEF SpawnedGiveUp, SpawnedPublish, try_begin, SpawnedConfirmed,
     drop, mark_minted, SpawnedFailed
<1>4. ASSUME NEW w \in Who, NEW f \in Field,
             \/ RemoveOutboxOk(w, f) \/ RemoveOutboxErr(w, f)
             \/ RemoveParked(w, f)
      PROVE  ConfirmedIsMinted'
  BY <1>4 DEF RemoveOutboxOk, Dequeued, RemoveOutboxErr, Ended, RemoveParked
<1>5. ASSUME NEW b \in chunks,
             BatchPublishOk(b) \/ BatchPublishErr(b) \/ BatchReply(b)
      PROVE  ConfirmedIsMinted'
  BY <1>5 DEF BatchPublishOk, DrainMove, InState, BatchPublishErr, drop,
     BatchReply, mark_minted
<1>6. ASSUME NEW b \in chunks, NEW f \in b,
             BatchClaim(b, f) \/ BatchSkip(b, f)
      PROVE  ConfirmedIsMinted'
  BY <1>6 DEF BatchClaim, try_begin, DrainMove, InState, BatchSkip
<1>7. CASE DrainSpawn \/ Crash
  BY <1>7, ChunksCover DEF DrainSpawn, Crash
<1> HIDE <1>t DEF ConfirmedIsMinted, Who
<1>8. ASSUME NEW f \in Field,
             \/ HandleReading(f) \/ BinWrite(f) \/ PlanSurplus(f)
             \/ PlanNoSurplus(f) \/ PlanUnattributed(f) \/ SinkEnqueueErr(f)
             \/ SinkRetryOk(f) \/ SinkRetryErr(f) \/ InlineGiveUp(f)
             \/ InlinePublish(f) \/ InlineConfirmed(f) \/ InlineFailed(f)
             \/ SinkEvict(f) \/ ParkSetOk(f) \/ ParkSetErr(f) \/ ParkDelOk(f)
             \/ ParkDelErr(f) \/ Reject(f)
      PROVE  UNCHANGED <<att, minted>>
  BY <1>8, ZenonT(30) DEF HandleReading, BinWrite, PlanSurplus, PlanNoSurplus,
     PlanUnattributed, SinkEnqueueErr, SinkRetryOk, SinkRetryErr,
     InlineGiveUp, InlinePublish, InlineConfirmed, InlineFailed, SinkEvict,
     ParkSetOk, ParkSetErr, ParkDelOk, ParkDelErr, Reject
<1>9. ASSUME NEW b \in chunks,
             BatchAcquire(b) \/ BatchDone(b)
      PROVE  UNCHANGED <<att, minted>>
  BY <1>9, ZenonT(30) DEF BatchAcquire, BatchDone
<1>10. ASSUME Sweep \/ SweepDone \/ DrainLoad \/ DrainJoin \/ Tick
      PROVE  UNCHANGED <<att, minted>>
  BY <1>10, ZenonT(30) DEF Sweep, SweepDone, DrainLoad, DrainJoin, Tick
<1>11. CASE UNCHANGED vars
  BY <1>1, <1>11, ZenonT(60) DEF vars
<1> QED BY <1>1, <1>2, <1>3, <1>4, <1>5, <1>6, <1>7, <1>8, <1>9, <1>10, <1>11,
           NextCases

\* park writes the parked copy first, and only a remove takes it away.
LEMMA ParkedBeforeDelStep ==
    ASSUME TypeOK, ParkedBeforeDel, ConfirmedIsMinted, [Next]_vars
    PROVE  ParkedBeforeDel'
<1> USE DEF ParkedBeforeDel, ConfirmedIsMinted
<1>1. CASE UNCHANGED <<dpc, dcur, parked, minted>>
  BY <1>1, ZenonT(60)
<1>2. ASSUME NEW f \in Field,
             \/ ParkSetOk(f) \/ ParkSetErr(f) \/ ParkDelOk(f) \/ ParkDelErr(f)
             \/ Land(f)
      PROVE  ParkedBeforeDel'
  BY <1>2 DEF ParkSetOk, ParkSetErr, ParkDelOk, Dequeued, ParkDelErr, Land
<1>3. ASSUME NEW w \in Who, NEW f \in Field,
             RemoveParked(w, f)
      PROVE  ParkedBeforeDel'
  BY <1>3 DEF RemoveParked, Ended
<1>4. CASE DrainLoad \/ DrainSpawn \/ DrainJoin \/ Crash
  BY <1>4, ChunksCover DEF DrainLoad, DrainSpawn, DrainJoin, Crash
<1> HIDE DEF ParkedBeforeDel, ConfirmedIsMinted
<1>5. ASSUME NEW f \in Field,
             \/ HandleReading(f) \/ BinWrite(f) \/ PlanSurplus(f)
             \/ PlanNoSurplus(f) \/ PlanUnattributed(f) \/ SinkEnqueueOk(f)
             \/ SinkEnqueueErr(f) \/ SinkRetryOk(f) \/ SinkRetryErr(f)
             \/ InlineGiveUp(f) \/ InlinePublish(f) \/ InlineConfirmed(f)
             \/ InlineFailed(f) \/ SinkEvict(f) \/ Reject(f)
      PROVE  UNCHANGED <<dpc, dcur, parked, minted>>
  BY <1>5, ZenonT(30) DEF HandleReading, BinWrite, PlanSurplus, PlanNoSurplus,
     PlanUnattributed, SinkEnqueueOk, SinkEnqueueErr, SinkRetryOk,
     SinkRetryErr, InlineGiveUp, InlinePublish, InlineConfirmed, InlineFailed,
     SinkEvict, Reject
<1>6. ASSUME NEW s \in Slot, NEW f \in Field,
             \/ SpawnedGiveUp(s, f) \/ SpawnedPublish(s, f)
             \/ SpawnedConfirmed(s, f) \/ SpawnedFailed(s, f)
      PROVE  UNCHANGED <<dpc, dcur, parked, minted>>
  BY <1>6, ZenonT(30) DEF SpawnedGiveUp, SpawnedPublish, SpawnedConfirmed, SpawnedFailed
<1>7. ASSUME NEW w \in Who, NEW f \in Field,
             RemoveOutboxOk(w, f) \/ RemoveOutboxErr(w, f)
      PROVE  UNCHANGED <<dpc, dcur, parked, minted>>
  BY <1>7, ZenonT(30) DEF RemoveOutboxOk, RemoveOutboxErr
<1>8. ASSUME NEW b \in chunks,
             \/ BatchAcquire(b) \/ BatchPublishOk(b) \/ BatchPublishErr(b)
             \/ BatchReply(b) \/ BatchDone(b)
      PROVE  UNCHANGED <<dpc, dcur, parked, minted>>
  BY <1>8, ZenonT(30) DEF BatchAcquire, BatchPublishOk, BatchPublishErr, BatchReply,
     BatchDone
<1>9. ASSUME NEW b \in chunks, NEW f \in b,
             BatchClaim(b, f) \/ BatchSkip(b, f)
      PROVE  UNCHANGED <<dpc, dcur, parked, minted>>
  BY <1>9, ZenonT(30) DEF BatchClaim, BatchSkip
<1>10. ASSUME Sweep \/ SweepDone \/ Tick
      PROVE  UNCHANGED <<dpc, dcur, parked, minted>>
  BY <1>10, ZenonT(30) DEF Sweep, SweepDone, Tick
<1>11. CASE UNCHANGED vars
  BY <1>1, <1>11, ZenonT(60) DEF vars
<1> QED BY <1>1, <1>2, <1>3, <1>4, <1>5, <1>6, <1>7, <1>8, <1>9, <1>10, <1>11,
           NextCases

\* The sink reports Enqueued after a successful HSET, and MintedDirectly after a
\* confirmation.
LEMMA HandoffIsBackedStep ==
    ASSUME TypeOK, HandoffIsBacked, OneBin, [Next]_vars
    PROVE  HandoffIsBacked'
<1> USE DEF HandoffIsBacked, OneBin
<1>1. CASE UNCHANGED <<spc, scur, handoff, promised, minted>>
  BY <1>1
<1>2. ASSUME NEW f \in Field,
             PlanSurplus(f) \/ PlanNoSurplus(f) \/ PlanUnattributed(f)
      PROVE  HandoffIsBacked'
  BY <1>2, ZenonT(60) DEF PlanSurplus, PlanNoSurplus, mark_no_surplus, PlanUnattributed
<1>3. ASSUME NEW f \in Field,
             \/ SinkEnqueueOk(f) \/ SinkEnqueueErr(f) \/ SinkRetryOk(f)
             \/ SinkRetryErr(f)
      PROVE  HandoffIsBacked'
  BY <1>3, ZenonT(60) DEF SinkEnqueueOk, Enqueued, SinkEnqueueErr, EnqueueErr,
     SinkRetryOk, SinkRetryErr
<1>4. ASSUME NEW f \in Field,
             \/ InlineGiveUp(f) \/ InlinePublish(f) \/ InlineConfirmed(f)
             \/ InlineFailed(f)
      PROVE  HandoffIsBacked'
  BY <1>4 DEF InlineGiveUp, InlinePublish, try_begin, InlineConfirmed, drop,
     mark_minted, InlineFailed
<1>5. ASSUME NEW f \in Field,
             SinkEvict(f) \/ Land(f)
      PROVE  HandoffIsBacked'
  BY <1>5 DEF SinkEvict, Land
<1>6. CASE Sweep \/ SweepDone \/ Crash
  BY <1>6 DEF Sweep, SweepDone, Crash
<1> HIDE DEF HandoffIsBacked, OneBin
<1>7. ASSUME NEW f \in Field,
             \/ HandleReading(f) \/ BinWrite(f) \/ ParkSetOk(f)
             \/ ParkSetErr(f) \/ ParkDelOk(f) \/ ParkDelErr(f) \/ Reject(f)
      PROVE  UNCHANGED <<spc, scur, handoff, promised, minted>>
  BY <1>7, ZenonT(30) DEF HandleReading, BinWrite, ParkSetOk, ParkSetErr, ParkDelOk,
     ParkDelErr, Reject
<1>8. ASSUME NEW s \in Slot, NEW f \in Field,
             \/ SpawnedGiveUp(s, f) \/ SpawnedPublish(s, f)
             \/ SpawnedConfirmed(s, f) \/ SpawnedFailed(s, f)
      PROVE  UNCHANGED <<spc, scur, handoff, promised, minted>>
  BY <1>8, ZenonT(30) DEF SpawnedGiveUp, SpawnedPublish, SpawnedConfirmed, SpawnedFailed
<1>9. ASSUME NEW w \in Who, NEW f \in Field,
             \/ RemoveOutboxOk(w, f) \/ RemoveOutboxErr(w, f)
             \/ RemoveParked(w, f)
      PROVE  UNCHANGED <<spc, scur, handoff, promised, minted>>
  BY <1>9, ZenonT(30) DEF RemoveOutboxOk, RemoveOutboxErr, RemoveParked
<1>10. ASSUME NEW b \in chunks,
             \/ BatchAcquire(b) \/ BatchPublishOk(b) \/ BatchPublishErr(b)
             \/ BatchReply(b) \/ BatchDone(b)
      PROVE  UNCHANGED <<spc, scur, handoff, promised, minted>>
  BY <1>10, ZenonT(30) DEF BatchAcquire, BatchPublishOk, BatchPublishErr, BatchReply,
     BatchDone
<1>11. ASSUME NEW b \in chunks, NEW f \in b,
             BatchClaim(b, f) \/ BatchSkip(b, f)
      PROVE  UNCHANGED <<spc, scur, handoff, promised, minted>>
  BY <1>11, ZenonT(30) DEF BatchClaim, BatchSkip
<1>12. ASSUME DrainLoad \/ DrainSpawn \/ DrainJoin \/ Tick
      PROVE  UNCHANGED <<spc, scur, handoff, promised, minted>>
  BY <1>12, ZenonT(30) DEF DrainLoad, DrainSpawn, DrainJoin, Tick
<1>13. CASE UNCHANGED vars
  BY <1>1, <1>13 DEF vars
<1> QED BY <1>1, <1>2, <1>3, <1>4, <1>5, <1>6, <1>7, <1>8, <1>9, <1>10, <1>11,
           <1>12, <1>13, NextCases

\* The sink's loop body takes one bin of the sweep.
LEMMA OneBinStep ==
    ASSUME TypeOK, OneBin, [Next]_vars
    PROVE  OneBin'
<1> USE DEF OneBin
<1>1. CASE UNCHANGED <<scur>>
  BY <1>1, ZenonT(60)
<1>2. ASSUME NEW f \in Field,
             \/ PlanSurplus(f) \/ PlanNoSurplus(f) \/ PlanUnattributed(f)
             \/ SinkEvict(f)
      PROVE  OneBin'
  BY <1>2 DEF PlanSurplus, PlanNoSurplus, mark_no_surplus, PlanUnattributed,
     SinkEvict
<1>3. CASE SweepDone \/ Crash
  BY <1>3 DEF SweepDone, Crash
<1> HIDE DEF OneBin
<1>4. ASSUME NEW f \in Field,
             \/ HandleReading(f) \/ BinWrite(f) \/ SinkEnqueueOk(f)
             \/ SinkEnqueueErr(f) \/ SinkRetryOk(f) \/ SinkRetryErr(f)
             \/ InlineGiveUp(f) \/ InlinePublish(f) \/ InlineConfirmed(f)
             \/ InlineFailed(f) \/ ParkSetOk(f) \/ ParkSetErr(f)
             \/ ParkDelOk(f) \/ ParkDelErr(f) \/ Land(f) \/ Reject(f)
      PROVE  UNCHANGED <<scur>>
  BY <1>4, ZenonT(30) DEF HandleReading, BinWrite, SinkEnqueueOk, SinkEnqueueErr,
     SinkRetryOk, SinkRetryErr, InlineGiveUp, InlinePublish, InlineConfirmed,
     InlineFailed, ParkSetOk, ParkSetErr, ParkDelOk, ParkDelErr, Land, Reject
<1>5. ASSUME NEW s \in Slot, NEW f \in Field,
             \/ SpawnedGiveUp(s, f) \/ SpawnedPublish(s, f)
             \/ SpawnedConfirmed(s, f) \/ SpawnedFailed(s, f)
      PROVE  UNCHANGED <<scur>>
  BY <1>5, ZenonT(30) DEF SpawnedGiveUp, SpawnedPublish, SpawnedConfirmed, SpawnedFailed
<1>6. ASSUME NEW w \in Who, NEW f \in Field,
             \/ RemoveOutboxOk(w, f) \/ RemoveOutboxErr(w, f)
             \/ RemoveParked(w, f)
      PROVE  UNCHANGED <<scur>>
  BY <1>6, ZenonT(30) DEF RemoveOutboxOk, RemoveOutboxErr, RemoveParked
<1>7. ASSUME NEW b \in chunks,
             \/ BatchAcquire(b) \/ BatchPublishOk(b) \/ BatchPublishErr(b)
             \/ BatchReply(b) \/ BatchDone(b)
      PROVE  UNCHANGED <<scur>>
  BY <1>7, ZenonT(30) DEF BatchAcquire, BatchPublishOk, BatchPublishErr, BatchReply,
     BatchDone
<1>8. ASSUME NEW b \in chunks, NEW f \in b,
             BatchClaim(b, f) \/ BatchSkip(b, f)
      PROVE  UNCHANGED <<scur>>
  BY <1>8, ZenonT(30) DEF BatchClaim, BatchSkip
<1>9. ASSUME Sweep \/ DrainLoad \/ DrainSpawn \/ DrainJoin \/ Tick
      PROVE  UNCHANGED <<scur>>
  BY <1>9, ZenonT(30) DEF Sweep, DrainLoad, DrainSpawn, DrainJoin, Tick
<1>10. CASE UNCHANGED vars
  BY <1>1, <1>10, ZenonT(60) DEF vars
<1> QED BY <1>1, <1>2, <1>3, <1>4, <1>5, <1>6, <1>7, <1>8, <1>9, <1>10,
           NextCases

\* The drain goes back to its ticker only when every batch has ended.
LEMMA DrainOrderStep ==
    ASSUME TypeOK, DrainOrder, [Next]_vars
    PROVE  DrainOrder'
<1>t. /\ att \in [Who -> [Field -> AttemptState]]
      /\ chunks \subseteq SUBSET Field
  BY DEF TypeOK
<1> USE <1>t DEF DrainOrder, Who
<1>1. CASE UNCHANGED <<att, dpc, chunks>>
  BY <1>1, ZenonT(60)
<1>2. ASSUME NEW f \in Field,
             SinkEnqueueOk(f) \/ ParkSetOk(f) \/ ParkDelOk(f) \/ ParkDelErr(f)
      PROVE  DrainOrder'
  BY <1>2, ZenonT(60) DEF SinkEnqueueOk, Enqueued, ParkSetOk, ParkDelOk, Dequeued,
     ParkDelErr
<1>3. ASSUME NEW s \in Slot, NEW f \in Field,
             \/ SpawnedGiveUp(s, f) \/ SpawnedPublish(s, f)
             \/ SpawnedConfirmed(s, f) \/ SpawnedFailed(s, f)
      PROVE  DrainOrder'
  BY <1>3, ZenonT(60) DEF SpawnedGiveUp, SpawnedPublish, try_begin, SpawnedConfirmed,
     drop, mark_minted, SpawnedFailed
<1>4. ASSUME NEW w \in Who, NEW f \in Field,
             \/ RemoveOutboxOk(w, f) \/ RemoveOutboxErr(w, f)
             \/ RemoveParked(w, f)
      PROVE  DrainOrder'
  BY <1>4 DEF RemoveOutboxOk, Dequeued, RemoveOutboxErr, Ended, RemoveParked
<1>5. ASSUME NEW b \in chunks,
             BatchPublishOk(b) \/ BatchPublishErr(b)
      PROVE  DrainOrder'
  BY <1>5 DEF BatchPublishOk, DrainMove, InState, BatchPublishErr, drop
<1>6. ASSUME NEW b \in chunks,
             BatchReply(b)
      PROVE  DrainOrder'
  BY <1>6 DEF BatchReply, mark_minted, drop, InState
<1>7. ASSUME NEW b \in chunks,
             BatchDone(b)
      PROVE  DrainOrder'
  BY <1>7 DEF BatchDone, InState
<1>8. ASSUME NEW b \in chunks, NEW f \in b,
             BatchClaim(b, f) \/ BatchSkip(b, f)
      PROVE  DrainOrder'
  BY <1>8 DEF BatchClaim, try_begin, DrainMove, InState, BatchSkip
<1>9. CASE DrainLoad \/ DrainJoin
  BY <1>9, SMTT(30), ZenonT(60) DEF DrainLoad, DrainJoin
<1>10. CASE DrainSpawn
  BY <1>10, ChunksCover DEF DrainSpawn
<1>11. CASE Crash
  BY <1>11 DEF Crash
<1> HIDE <1>t DEF DrainOrder, Who
<1>12. ASSUME NEW f \in Field,
             \/ HandleReading(f) \/ BinWrite(f) \/ PlanSurplus(f)
             \/ PlanNoSurplus(f) \/ PlanUnattributed(f) \/ SinkEnqueueErr(f)
             \/ SinkRetryOk(f) \/ SinkRetryErr(f) \/ InlineGiveUp(f)
             \/ InlinePublish(f) \/ InlineConfirmed(f) \/ InlineFailed(f)
             \/ SinkEvict(f) \/ ParkSetErr(f) \/ Land(f) \/ Reject(f)
      PROVE  UNCHANGED <<att, dpc, chunks>>
  BY <1>12, ZenonT(30) DEF HandleReading, BinWrite, PlanSurplus, PlanNoSurplus,
     PlanUnattributed, SinkEnqueueErr, SinkRetryOk, SinkRetryErr,
     InlineGiveUp, InlinePublish, InlineConfirmed, InlineFailed, SinkEvict,
     ParkSetErr, Land, Reject
<1>13. ASSUME NEW b \in chunks,
             BatchAcquire(b)
      PROVE  UNCHANGED <<att, dpc, chunks>>
  BY <1>13, ZenonT(30) DEF BatchAcquire
<1>14. ASSUME Sweep \/ SweepDone \/ Tick
      PROVE  UNCHANGED <<att, dpc, chunks>>
  BY <1>14, ZenonT(30) DEF Sweep, SweepDone, Tick
<1>15. CASE UNCHANGED vars
  BY <1>1, <1>15, ZenonT(60) DEF vars
<1> QED BY <1>1, <1>2, <1>3, <1>4, <1>5, <1>6, <1>7, <1>8, <1>9, <1>10, <1>11,
           <1>12, <1>13, <1>14, <1>15, NextCases, SMTT(60)

\* try_begin and the drop of a guard change the set and the holder together.
LEMMA KeysHeldStep ==
    ASSUME TypeOK, KeysHeld, OneRoundTrip, OneBin, DrainOrder, [Next]_vars
    PROVE  KeysHeld'
<1>t. /\ att \in [Who -> [Field -> AttemptState]]
      /\ chunks \subseteq SUBSET Field
      /\ scur \subseteq Field /\ inflight \subseteq Field
  BY DEF TypeOK
<1> USE <1>t DEF KeysHeld, OneRoundTrip, OneBin, DrainOrder, Holds,
            Attempts, Who
<1>1. CASE UNCHANGED <<att, spc, scur, inflight>>
  BY <1>1, ZenonT(60)
<1>2. ASSUME NEW f \in Field,
             \/ SinkEnqueueOk(f) \/ SinkEnqueueErr(f) \/ SinkRetryOk(f)
             \/ SinkRetryErr(f)
      PROVE  KeysHeld'
  BY <1>2 DEF SinkEnqueueOk, Enqueued, SinkEnqueueErr, EnqueueErr,
     SinkRetryOk, SinkRetryErr
<1>3. ASSUME NEW f \in Field,
             PlanSurplus(f) \/ PlanNoSurplus(f) \/ PlanUnattributed(f)
      PROVE  KeysHeld'
  BY <1>3 DEF PlanSurplus, PlanNoSurplus, mark_no_surplus, PlanUnattributed
<1>4. ASSUME NEW f \in Field,
             InlineGiveUp(f) \/ InlinePublish(f)
      PROVE  KeysHeld'
  BY <1>4 DEF InlineGiveUp, InlinePublish, try_begin
<1>5. ASSUME NEW f \in Field,
             InlineConfirmed(f) \/ InlineFailed(f)
      PROVE  KeysHeld'
  BY <1>5 DEF InlineConfirmed, drop, mark_minted, InlineFailed
<1>6. ASSUME NEW f \in Field,
             SinkEvict(f)
      PROVE  KeysHeld'
  BY <1>6, ZenonT(60) DEF SinkEvict
<1>7. ASSUME NEW s \in Slot, NEW f \in Field,
             SpawnedGiveUp(s, f) \/ SpawnedPublish(s, f)
      PROVE  KeysHeld'
  BY <1>7 DEF SpawnedGiveUp, SpawnedPublish, try_begin
<1>8. ASSUME NEW s \in Slot, NEW f \in Field,
             SpawnedConfirmed(s, f)
      PROVE  KeysHeld'
  BY <1>8 DEF SpawnedConfirmed, drop, mark_minted
<1>9. ASSUME NEW s \in Slot, NEW f \in Field,
             SpawnedFailed(s, f)
      PROVE  KeysHeld'
  BY <1>9 DEF SpawnedFailed, drop
<1>10. ASSUME NEW w \in Who, NEW f \in Field,
             RemoveOutboxOk(w, f)
      PROVE  KeysHeld'
  BY <1>10 DEF RemoveOutboxOk, Dequeued
<1>11. ASSUME NEW w \in Who, NEW f \in Field,
             RemoveOutboxErr(w, f)
      PROVE  KeysHeld'
  BY <1>11 DEF RemoveOutboxErr, Ended, Dequeued
<1>12. ASSUME NEW w \in Who, NEW f \in Field,
             RemoveParked(w, f)
      PROVE  KeysHeld'
  BY <1>12 DEF RemoveParked, Ended
<1>13. ASSUME NEW b \in chunks,
             BatchPublishOk(b)
      PROVE  KeysHeld'
  BY <1>13, ZenonT(60) DEF BatchPublishOk, DrainMove, InState
<1>14. ASSUME NEW b \in chunks,
             BatchPublishErr(b)
      PROVE  KeysHeld'
  BY <1>14, ZenonT(60) DEF BatchPublishErr, drop, DrainMove, InState
<1>15. ASSUME NEW b \in chunks,
             BatchReply(b)
      PROVE  KeysHeld'
  BY <1>15 DEF BatchReply, mark_minted, drop, InState
<1>16. ASSUME NEW b \in chunks, NEW f \in b,
             BatchClaim(b, f)
      PROVE  KeysHeld'
  BY <1>16, ZenonT(60) DEF BatchClaim, try_begin, DrainMove, InState
<1>17. ASSUME NEW b \in chunks, NEW f \in b,
             BatchSkip(b, f)
      PROVE  KeysHeld'
  BY <1>17, ZenonT(60) DEF BatchSkip, DrainMove, InState
<1>18. CASE Sweep \/ SweepDone
  BY <1>18, ZenonT(60) DEF Sweep, SweepDone
<1>19. CASE DrainSpawn
  BY <1>19, ChunksCover DEF DrainSpawn
<1>20. CASE Crash
  BY <1>20 DEF Crash
<1> HIDE <1>t DEF KeysHeld, OneRoundTrip, OneBin, DrainOrder, Holds, Attempts,
             Who
<1>21. ASSUME NEW f \in Field,
             \/ HandleReading(f) \/ BinWrite(f) \/ ParkSetOk(f)
             \/ ParkSetErr(f) \/ ParkDelOk(f) \/ ParkDelErr(f) \/ Land(f)
             \/ Reject(f)
      PROVE  UNCHANGED <<att, spc, scur, inflight>>
  BY <1>21, ZenonT(30) DEF HandleReading, BinWrite, ParkSetOk, ParkSetErr, ParkDelOk,
     ParkDelErr, Land, Reject
<1>22. ASSUME NEW b \in chunks,
             BatchAcquire(b) \/ BatchDone(b)
      PROVE  UNCHANGED <<att, spc, scur, inflight>>
  BY <1>22, ZenonT(30) DEF BatchAcquire, BatchDone
<1>23. ASSUME DrainLoad \/ DrainJoin \/ Tick
      PROVE  UNCHANGED <<att, spc, scur, inflight>>
  BY <1>23, ZenonT(30) DEF DrainLoad, DrainJoin, Tick
<1>24. CASE UNCHANGED vars
  BY <1>1, <1>24, ZenonT(60) DEF vars
<1> QED BY <1>1, <1>2, <1>3, <1>4, <1>5, <1>6, <1>7, <1>8, <1>9, <1>10, <1>11,
           <1>12, <1>13, <1>14, <1>15, <1>16, <1>17, <1>18, <1>19, <1>20,
           <1>21, <1>22, <1>23, <1>24, NextCases, SMTT(60)

\* A step gives a key to at most one attempt, and then no attempt had it:
\* try_begin refuses a key that is held.
LEMMA OneRoundTripStep ==
    ASSUME TypeOK, KeysHeld, OneRoundTrip, OneBin, DrainOrder, [Next]_vars
    PROVE  OneRoundTrip'
<1> DEFINE NoneAdded == \A v \in Attempts, g \in Field :
                            Holds(v, g)' => Holds(v, g)
           Added(w, f) == /\ f \notin inflight
                          /\ \A v \in Attempts, g \in Field :
                                Holds(v, g)' => Holds(v, g) \/ (v = w /\ g = f)
<1>a. ASSUME NoneAdded PROVE OneRoundTrip'
  BY <1>a DEF OneRoundTrip, Attempts, Who
<1>b. ASSUME NEW w \in Attempts, NEW f \in Field, Added(w, f)
      PROVE  OneRoundTrip'
  BY <1>b DEF OneRoundTrip, KeysHeld, Attempts, Who
<1>t. /\ att \in [Who -> [Field -> AttemptState]]
      /\ "drain" \in Who /\ Slot \subseteq Who
      /\ "inline" \in Attempts /\ Who \subseteq Attempts
      /\ \A b \in chunks : b \subseteq Field
  BY DEF TypeOK, Attempts, Who
<1>1. ASSUME UNCHANGED <<att, spc, scur>> PROVE NoneAdded
  BY <1>1 DEF Holds
<1>2. ASSUME NEW f \in Field, SinkEnqueueOk(f)
      PROVE  NoneAdded
  <2>1. PICK s \in Slot : att' = [att EXCEPT ![s][f] = "queued"]
    BY <1>2, ZenonT(30) DEF SinkEnqueueOk
  <2>2. spc' = "evict"
    BY <1>2 DEF SinkEnqueueOk
  <2> QED BY <1>t, <2>1, <2>2 DEF Holds, Attempts
<1>3. ASSUME NEW f \in Field,
             \/ SinkEnqueueErr(f) \/ SinkRetryOk(f) \/ SinkRetryErr(f)
             \/ PlanSurplus(f) \/ PlanNoSurplus(f) \/ PlanUnattributed(f)
             \/ InlineGiveUp(f) \/ InlineConfirmed(f) \/ InlineFailed(f)
             \/ SinkEvict(f)
      PROVE  NoneAdded
  <2>1. att' = att /\ spc' # "await"
    BY <1>3, ZenonT(30) DEF SinkEnqueueErr, SinkRetryOk, SinkRetryErr, PlanSurplus,
       PlanNoSurplus, PlanUnattributed, InlineGiveUp, InlineConfirmed,
       InlineFailed, SinkEvict
  <2> QED BY <2>1 DEF Holds
<1>4. ASSUME NEW f \in Field, InlinePublish(f)
      PROVE  Added("inline", f)
  <2>1. f \notin inflight /\ att' = att /\ scur' = scur /\ f \in scur
    BY <1>4 DEF InlinePublish, try_begin
  <2>2. ASSUME NEW v \in Attempts, NEW g \in Field, Holds(v, g)'
        PROVE  Holds(v, g) \/ (v = "inline" /\ g = f)
    <3>1. CASE v = "inline"
      BY <2>1, <2>2, <3>1, ZenonT(60) DEF Holds, OneBin
    <3>2. CASE v # "inline"
      BY <2>1, <2>2, <3>2 DEF Holds
    <3> QED BY <3>1, <3>2
  <2> QED BY <2>1, <2>2
<1>5. ASSUME NEW s \in Slot, NEW f \in Field,
             SpawnedGiveUp(s, f) \/ SpawnedConfirmed(s, f) \/ SpawnedFailed(s, f)
      PROVE  NoneAdded
  <2>1. PICK st \in {"none", "clear"} : att' = [att EXCEPT ![s][f] = st]
    BY <1>5, ZenonT(60) DEF SpawnedGiveUp, SpawnedConfirmed, SpawnedFailed
  <2>2. UNCHANGED <<spc, scur>>
    BY <1>5 DEF SpawnedGiveUp, SpawnedConfirmed, SpawnedFailed
  <2> QED BY <1>t, <2>1, <2>2, ZenonT(60) DEF Holds, Attempts
<1>6. ASSUME NEW s \in Slot, NEW f \in Field, SpawnedPublish(s, f)
      PROVE  Added(s, f)
  <2>1. /\ f \notin inflight /\ att' = [att EXCEPT ![s][f] = "wait"]
        /\ UNCHANGED <<spc, scur>>
    BY <1>6 DEF SpawnedPublish, try_begin
  <2>2. ASSUME NEW v \in Attempts, NEW g \in Field, Holds(v, g)'
        PROVE  Holds(v, g) \/ (v = s /\ g = f)
    <3>1. CASE v = "inline"
      BY <2>1, <2>2, <3>1, ZenonT(60) DEF Holds
    <3>2. CASE v # "inline"
      BY <1>t, <2>1, <2>2, <3>2 DEF Holds, Attempts
    <3> QED BY <3>1, <3>2
  <2> QED BY <2>1, <2>2
<1>7. ASSUME NEW w \in Who, NEW f \in Field,
             RemoveOutboxOk(w, f) \/ RemoveOutboxErr(w, f) \/ RemoveParked(w, f)
      PROVE  NoneAdded
  <2>1. PICK st \in {"none", "unpark"} : att' = [att EXCEPT ![w][f] = st]
    BY <1>7, ZenonT(60) DEF RemoveOutboxOk, RemoveOutboxErr, RemoveParked, Ended
  <2>2. UNCHANGED <<spc, scur>>
    BY <1>7, ZenonT(60) DEF RemoveOutboxOk, RemoveOutboxErr, RemoveParked
  <2> QED BY <1>t, <2>1, <2>2, ZenonT(60) DEF Holds, Attempts
<1>8. ASSUME NEW b \in chunks,
             BatchPublishOk(b) \/ BatchPublishErr(b)
      PROVE  NoneAdded
  <2>1. PICK st \in {"none", "wait"} : att' = DrainMove(InState(b, "claimed"), st)
    BY <1>8 DEF BatchPublishOk, BatchPublishErr
  <2>2. UNCHANGED <<spc, scur>>
    BY <1>8 DEF BatchPublishOk, BatchPublishErr
  <2> QED BY <1>t, <2>1, <2>2, ZenonT(60) DEF Holds, Attempts, DrainMove, InState
<1>9. ASSUME NEW b \in chunks, BatchReply(b)
      PROVE  NoneAdded
  <2>1. PICK ok \in SUBSET (InState(b, "wait") \cap minted) :
            att' = [att EXCEPT !["drain"] =
                      [f \in Field |-> IF f \in ok THEN "clear"
                                       ELSE IF f \in InState(b, "wait") THEN "none"
                                       ELSE @[f]]]
    BY <1>9, ZenonT(30) DEF BatchReply
  <2>2. UNCHANGED <<spc, scur>>
    BY <1>9 DEF BatchReply
  <2> QED BY <1>t, <2>1, <2>2 DEF Holds, Attempts
<1>10. ASSUME NEW b \in chunks, NEW f \in b, BatchClaim(b, f)
       PROVE  Added("drain", f)
  <2>1. /\ f \notin inflight /\ att' = DrainMove({f}, "claimed")
        /\ UNCHANGED <<spc, scur>>
    BY <1>10 DEF BatchClaim, try_begin
  <2>2. ASSUME NEW v \in Attempts, NEW g \in Field, Holds(v, g)'
        PROVE  Holds(v, g) \/ (v = "drain" /\ g = f)
    <3>1. CASE v = "inline"
      BY <2>1, <2>2, <3>1, ZenonT(60) DEF Holds
    <3>2. CASE v # "inline"
      BY <1>t, <2>1, <2>2, <3>2 DEF Holds, Attempts, DrainMove
    <3> QED BY <3>1, <3>2
  <2> QED BY <2>1, <2>2, ZenonT(60)
<1>11. ASSUME NEW b \in chunks, NEW f \in b, BatchSkip(b, f)
       PROVE  NoneAdded
  <2>1. att' = DrainMove({f}, "none") /\ UNCHANGED <<spc, scur>>
    BY <1>11 DEF BatchSkip
  <2> QED BY <1>t, <2>1 DEF Holds, Attempts, DrainMove
<1>12. ASSUME Sweep \/ SweepDone PROVE NoneAdded
  <2>1. att' = att /\ spc' # "await"
    BY <1>12, ZenonT(60) DEF Sweep, SweepDone
  <2> QED BY <2>1, ZenonT(60) DEF Holds
<1>13. ASSUME DrainSpawn PROVE NoneAdded
  <2>1. /\ att' = [att EXCEPT !["drain"] =
                    [f \in Field |-> IF f \in toMint THEN "queued" ELSE @[f]]]
        /\ UNCHANGED <<spc, scur>>
    BY <1>13, ZenonT(60) DEF DrainSpawn
  <2> QED BY <1>t, <2>1, ZenonT(60) DEF Holds, Attempts
<1>14. ASSUME Crash PROVE NoneAdded
  <2>1. att' = [w \in Who |-> [f \in Field |-> "none"]] /\ spc' = "idle"
    BY <1>14 DEF Crash
  <2> QED BY <2>1 DEF Holds, Attempts
<1>15. ASSUME NEW f \in Field,
              \/ HandleReading(f) \/ BinWrite(f) \/ ParkSetOk(f)
              \/ ParkSetErr(f) \/ ParkDelOk(f) \/ ParkDelErr(f) \/ Land(f)
              \/ Reject(f)
       PROVE  UNCHANGED <<att, spc, scur>>
  BY <1>15, ZenonT(30) DEF HandleReading, BinWrite, ParkSetOk, ParkSetErr, ParkDelOk,
     ParkDelErr, Land, Reject
<1>16. ASSUME NEW b \in chunks, BatchAcquire(b) \/ BatchDone(b)
       PROVE  UNCHANGED <<att, spc, scur>>
  BY <1>16, ZenonT(30) DEF BatchAcquire, BatchDone
<1>17. ASSUME DrainLoad \/ DrainJoin \/ Tick \/ UNCHANGED vars
       PROVE  UNCHANGED <<att, spc, scur>>
  BY <1>17, ZenonT(30) DEF DrainLoad, DrainJoin, Tick, vars
<1>18. ASSUME Next PROVE OneRoundTrip'
  <2> HIDE DEF NoneAdded, Added
  <2> QED BY <1>a, <1>b, <1>t, <1>1, <1>2, <1>3, <1>4, <1>5, <1>6, <1>7, <1>8,
             <1>9, <1>10, <1>11, <1>12, <1>13, <1>14, <1>15, <1>16, <1>17,
             <1>18, NextCases, SMTT(30)
<1> QED BY <1>a, <1>1, <1>17, <1>18, ZenonT(60)

\* mark_minted runs after a confirmation; mark_no_surplus writes no mint.
LEMMA RowsTellTheTruthStep ==
    ASSUME TypeOK, RowsTellTheTruth, [Next]_vars
    PROVE  RowsTellTheTruth'
<1>t. row \in [Field -> RowState]
  BY DEF TypeOK
<1> USE <1>t DEF RowsTellTheTruth
<1>1. CASE UNCHANGED <<row, minted>>
  BY <1>1, ZenonT(60)
<1>2. ASSUME NEW f \in Field,
             PlanNoSurplus(f) \/ InlineConfirmed(f) \/ Land(f)
      PROVE  RowsTellTheTruth'
  BY <1>2 DEF PlanNoSurplus, mark_no_surplus, InlineConfirmed, drop,
     mark_minted, Land
<1>3. ASSUME NEW s \in Slot, NEW f \in Field,
             SpawnedConfirmed(s, f)
      PROVE  RowsTellTheTruth'
  BY <1>3, ZenonT(60) DEF SpawnedConfirmed, drop, mark_minted
<1>4. ASSUME NEW b \in chunks,
             BatchReply(b)
      PROVE  RowsTellTheTruth'
  BY <1>4 DEF BatchReply, mark_minted, drop, InState
<1> HIDE <1>t DEF RowsTellTheTruth
<1>5. ASSUME NEW f \in Field,
             \/ HandleReading(f) \/ BinWrite(f) \/ PlanSurplus(f)
             \/ PlanUnattributed(f) \/ SinkEnqueueOk(f) \/ SinkEnqueueErr(f)
             \/ SinkRetryOk(f) \/ SinkRetryErr(f) \/ InlineGiveUp(f)
             \/ InlinePublish(f) \/ InlineFailed(f) \/ SinkEvict(f)
             \/ ParkSetOk(f) \/ ParkSetErr(f) \/ ParkDelOk(f) \/ ParkDelErr(f)
             \/ Reject(f)
      PROVE  UNCHANGED <<row, minted>>
  BY <1>5, ZenonT(30) DEF HandleReading, BinWrite, PlanSurplus, PlanUnattributed,
     SinkEnqueueOk, SinkEnqueueErr, SinkRetryOk, SinkRetryErr, InlineGiveUp,
     InlinePublish, InlineFailed, SinkEvict, ParkSetOk, ParkSetErr, ParkDelOk,
     ParkDelErr, Reject
<1>6. ASSUME NEW s \in Slot, NEW f \in Field,
             \/ SpawnedGiveUp(s, f) \/ SpawnedPublish(s, f)
             \/ SpawnedFailed(s, f)
      PROVE  UNCHANGED <<row, minted>>
  BY <1>6, ZenonT(30) DEF SpawnedGiveUp, SpawnedPublish, SpawnedFailed
<1>7. ASSUME NEW w \in Who, NEW f \in Field,
             \/ RemoveOutboxOk(w, f) \/ RemoveOutboxErr(w, f)
             \/ RemoveParked(w, f)
      PROVE  UNCHANGED <<row, minted>>
  BY <1>7, ZenonT(30) DEF RemoveOutboxOk, RemoveOutboxErr, RemoveParked
<1>8. ASSUME NEW b \in chunks,
             \/ BatchAcquire(b) \/ BatchPublishOk(b) \/ BatchPublishErr(b)
             \/ BatchDone(b)
      PROVE  UNCHANGED <<row, minted>>
  BY <1>8, ZenonT(30) DEF BatchAcquire, BatchPublishOk, BatchPublishErr, BatchDone
<1>9. ASSUME NEW b \in chunks, NEW f \in b,
             BatchClaim(b, f) \/ BatchSkip(b, f)
      PROVE  UNCHANGED <<row, minted>>
  BY <1>9, ZenonT(30) DEF BatchClaim, BatchSkip
<1>10. ASSUME \/ Sweep \/ SweepDone \/ DrainLoad \/ DrainSpawn \/ DrainJoin
              \/ Tick \/ Crash
      PROVE  UNCHANGED <<row, minted>>
  BY <1>10, ZenonT(30) DEF Sweep, SweepDone, DrainLoad, DrainSpawn, DrainJoin, Tick, Crash
<1>11. CASE UNCHANGED vars
  BY <1>1, <1>11 DEF vars
<1> QED BY <1>1, <1>2, <1>3, <1>4, <1>5, <1>6, <1>7, <1>8, <1>9, <1>10, <1>11,
           NextCases, SMTT(60)

-----------------------------------------------------------------------------
\* IndInv holds in every reachable state.
THEOREM Safety == Spec => []IndInv
<1>1. Init => IndInv
  BY DEF Init, ProcessInit, IndInv, NoSilentLoss, ConfirmedIsMinted,
         ParkedBeforeDel, HandoffIsBacked, OneBin, DrainOrder, KeysHeld,
         OneRoundTrip, RowsTellTheTruth, Holds, Attempts, Who
<1>2. TypeOK /\ IndInv /\ [Next]_vars => IndInv'
  BY NoSilentLossStep, ConfirmedIsMintedStep, ParkedBeforeDelStep,
     HandoffIsBackedStep, OneBinStep, DrainOrderStep, KeysHeldStep,
     OneRoundTripStep, RowsTellTheTruthStep DEF IndInv
<1> QED
  BY <1>1, <1>2, TypeCorrect, PTL DEF Spec

\* A surplus that reached the outbox is in the outbox, in the parked hash or on
\* the chain (mint_outbox.rs: "never lost").
THEOREM NeverLost == Spec => []NoSilentLoss
<1>1. IndInv => NoSilentLoss
  BY DEF IndInv
<1> QED
  BY <1>1, Safety, PTL

\* MintInFlight admits one round trip per field.
THEOREM MintInFlightExcludes == Spec => []OneRoundTrip
<1>1. IndInv => OneRoundTrip
  BY DEF IndInv
<1> QED
  BY <1>1, Safety, PTL

\* A row marked minted is minted on the chain.
THEOREM WriteBackIsSound == Spec => []RowsTellTheTruth
<1>1. IndInv => RowsTellTheTruth
  BY ZenonT(60) DEF IndInv
<1> QED
  BY <1>1, Safety, PTL

-----------------------------------------------------------------------------
\* Only the sink's eviction deletes a durable bin, and not after a lost handoff.
LEMMA EvictionDeletes ==
    ASSUME Next, NEW f \in store \ store'
    PROVE  /\ spc = "evict" /\ f \in scur
           /\ handoff # "Lost"
<1>1. ASSUME NEW g \in Field, SinkEvict(g)
      PROVE  spc = "evict" /\ f \in scur /\ handoff # "Lost"
  BY <1>1 DEF SinkEvict, bin_durably_settled
<1>2. ASSUME NEW g \in Field, BinWrite(g) PROVE FALSE
  BY <1>2 DEF BinWrite
<1>3. ASSUME NEW g \in Field,
             \/ HandleReading(g) \/ PlanSurplus(g) \/ PlanNoSurplus(g)
             \/ PlanUnattributed(g) \/ SinkEnqueueOk(g) \/ SinkEnqueueErr(g)
             \/ SinkRetryOk(g) \/ SinkRetryErr(g) \/ InlineGiveUp(g)
             \/ InlinePublish(g) \/ InlineConfirmed(g) \/ InlineFailed(g)
             \/ ParkSetOk(g) \/ ParkSetErr(g) \/ ParkDelOk(g) \/ ParkDelErr(g)
             \/ Land(g) \/ Reject(g)
      PROVE  UNCHANGED store
  BY <1>3, ZenonT(30) DEF HandleReading, PlanSurplus, PlanNoSurplus, PlanUnattributed,
     SinkEnqueueOk, SinkEnqueueErr, SinkRetryOk, SinkRetryErr, InlineGiveUp,
     InlinePublish, InlineConfirmed, InlineFailed, ParkSetOk, ParkSetErr,
     ParkDelOk, ParkDelErr, Land, Reject
<1>4. ASSUME NEW s \in Slot, NEW g \in Field,
             \/ SpawnedGiveUp(s, g) \/ SpawnedPublish(s, g)
             \/ SpawnedConfirmed(s, g) \/ SpawnedFailed(s, g)
      PROVE  UNCHANGED store
  BY <1>4, ZenonT(30) DEF SpawnedGiveUp, SpawnedPublish, SpawnedConfirmed, SpawnedFailed
<1>5. ASSUME NEW w \in Who, NEW g \in Field,
             \/ RemoveOutboxOk(w, g) \/ RemoveOutboxErr(w, g)
             \/ RemoveParked(w, g)
      PROVE  UNCHANGED store
  BY <1>5, ZenonT(30) DEF RemoveOutboxOk, RemoveOutboxErr, RemoveParked
<1>6. ASSUME NEW b \in chunks,
             \/ BatchAcquire(b) \/ BatchPublishOk(b) \/ BatchPublishErr(b)
             \/ BatchReply(b) \/ BatchDone(b)
      PROVE  UNCHANGED store
  BY <1>6, ZenonT(30) DEF BatchAcquire, BatchPublishOk, BatchPublishErr, BatchReply,
     BatchDone
<1>7. ASSUME NEW b \in chunks, NEW g \in b,
             BatchClaim(b, g) \/ BatchSkip(b, g)
      PROVE  UNCHANGED store
  BY <1>7, ZenonT(30) DEF BatchClaim, BatchSkip
<1>8. ASSUME \/ Sweep \/ SweepDone \/ DrainLoad \/ DrainSpawn \/ DrainJoin
             \/ Tick \/ Crash
      PROVE  UNCHANGED store
  BY <1>8, ZenonT(30) DEF Sweep, SweepDone, DrainLoad, DrainSpawn, DrainJoin, Tick, Crash
<1> QED BY <1>1, <1>2, <1>3, <1>4, <1>5, <1>6, <1>7, <1>8, NextCases, ZenonT(60)

\* The durable bin of a window is deleted only when its surplus has another
\* durable home, or when the sweep found nothing to mint for it
\* (bin_durably_settled): from NoSilentLoss and HandoffIsBacked.
THEOREM EvictionIsSafe == Spec => EvictedOnlyWhenSafe
<1>1. TypeOK /\ IndInv /\ [Next]_vars =>
        [\A f \in store \ store' :
            f \in Queued \cup parked \cup minted \/ handoff = "NotApplicable"]_vars
  <2> SUFFICES ASSUME TypeOK, IndInv, Next, NEW f \in store \ store'
               PROVE  \/ f \in Queued \cup parked \cup minted
                      \/ handoff = "NotApplicable"
    BY ZenonT(60)
  <2> QED
    BY EvictionDeletes
    DEF TypeOK, IndInv, NoSilentLoss, HandoffIsBacked, Handoff
<1> QED
  BY <1>1, TypeCorrect, Safety, PTL DEF Spec, EvictedOnlyWhenSafe

-----------------------------------------------------------------------------
\* Every step of MintOutbox is a step of the ledger, or changes nothing of it.
LEMMA LedgerStep ==
    ASSUME TypeOK, IndInv, [Next]_vars
    PROVE  [Ledger!LedgerNext]_(Ledger!ledgervars)
<1> DEFINE held == Queued \cup parked
<1>t. outbox \in [Field -> Int] /\ parked \subseteq Field /\ minted \subseteq Field
  BY DEF TypeOK, Age, Absent
<1>1. CASE UNCHANGED <<outbox, parked, minted>>
  BY <1>1 DEF Ledger!ledgervars, Queued
<1>u. ASSUME NEW f \in Field, held' \in {held, held \cup {f}}, UNCHANGED minted
      PROVE  [Ledger!LedgerNext]_(Ledger!ledgervars)
  BY <1>u DEF Ledger!LedgerNext, Ledger!Undertake, Ledger!ledgervars
<1>d. ASSUME NEW f \in Field, held' \in {held, held \ {f}}, f \in minted \/ held' = held, UNCHANGED minted
      PROVE  [Ledger!LedgerNext]_(Ledger!ledgervars)
  BY <1>d DEF Ledger!LedgerNext, Ledger!Discharge, Ledger!ledgervars
<1>2. ASSUME NEW f \in Field,
             \/ SinkEnqueueOk(f) \/ SinkEnqueueErr(f) \/ SinkRetryOk(f)
             \/ SinkRetryErr(f)
      PROVE  [Ledger!LedgerNext]_(Ledger!ledgervars)
  <2>1. UNCHANGED <<parked, minted>> /\ (outbox' = [outbox EXCEPT ![f] = 0] \/ outbox' = outbox)
    BY <1>2, ZenonT(30) DEF SinkEnqueueOk, Enqueued, SinkEnqueueErr, EnqueueErr,
       SinkRetryOk, SinkRetryErr, chainVars
  <2>2. held' \in {held, held \cup {f}}
    BY <1>t, <2>1 DEF Queued, Absent
  <2> QED
    BY <1>u, <2>1, <2>2
<1>3. ASSUME NEW w \in Who, NEW f \in Field,
             RemoveOutboxOk(w, f) \/ RemoveOutboxErr(w, f)
      PROVE  [Ledger!LedgerNext]_(Ledger!ledgervars)
  <2>1. f \in minted
    BY <1>3 DEF RemoveOutboxOk, RemoveOutboxErr, IndInv, ConfirmedIsMinted
  <2>2. UNCHANGED <<parked, minted>> /\ (outbox' = [outbox EXCEPT ![f] = Absent] \/ outbox' = outbox)
    BY <1>3, ZenonT(30) DEF RemoveOutboxOk, RemoveOutboxErr, Dequeued, chainVars
  <2>3. held' \in {held, held \ {f}}
    BY <1>t, <2>2 DEF Queued, Absent
  <2> QED
    BY <1>d, <2>1, <2>2, <2>3, ZenonT(60)
<1>4. ASSUME NEW w \in Who, NEW f \in Field, RemoveParked(w, f)
      PROVE  [Ledger!LedgerNext]_(Ledger!ledgervars)
  <2>1. f \in minted
    BY <1>4 DEF RemoveParked, IndInv, ConfirmedIsMinted
  <2>2. UNCHANGED <<outbox, minted>> /\ (parked' = parked \ {f} \/ parked' = parked)
    BY <1>4, ZenonT(30) DEF RemoveParked, chainVars
  <2>3. held' \in {held, held \ {f}}
    BY <2>2 DEF Queued
  <2> QED
    BY <1>d, <2>1, <2>2, <2>3, ZenonT(60)
<1>5. ASSUME NEW f \in Field, ParkSetOk(f) \/ ParkSetErr(f)
      PROVE  [Ledger!LedgerNext]_(Ledger!ledgervars)
  <2>1. UNCHANGED <<outbox, minted>> /\ parked' \in {parked, parked \cup {f}}
    BY <1>5 DEF ParkSetOk, ParkSetErr, chainVars
  <2>2. held' \in {held, held \cup {f}}
    BY <2>1 DEF Queued
  <2> QED
    BY <1>u, <2>1, <2>2, ZenonT(60)
<1>6. ASSUME NEW f \in Field, ParkDelOk(f) \/ ParkDelErr(f)
      PROVE  [Ledger!LedgerNext]_(Ledger!ledgervars)
  <2>1. f \in parked \/ f \in minted
    BY <1>6 DEF ParkDelOk, ParkDelErr, IndInv, ParkedBeforeDel
  <2>2. UNCHANGED <<parked, minted>> /\ (outbox' = [outbox EXCEPT ![f] = Absent] \/ outbox' = outbox)
    BY <1>6, ZenonT(30) DEF ParkDelOk, ParkDelErr, Dequeued, chainVars
  <2>3. held' \in {held, held \ {f}} /\ (f \in parked => held' = held)
    BY <1>t, <2>2 DEF Queued, Absent
  <2> QED
    BY <1>d, <2>1, <2>2, <2>3, ZenonT(60)
<1>7. ASSUME NEW f \in Field, Land(f)
      PROVE  [Ledger!LedgerNext]_(Ledger!ledgervars)
  <2>1. UNCHANGED <<outbox, parked>> /\ minted' = minted \cup {f}
    BY <1>7 DEF Land, redisVars
  <2> QED
    BY <2>1 DEF Ledger!LedgerNext, Ledger!Pay, Queued
<1>8. CASE Tick
  <2>1. UNCHANGED <<parked, minted>> /\ \A f \in Field : outbox'[f] # Absent <=> outbox[f] # Absent
    BY <1>t, <1>8, ConstantsAssumption DEF Tick, Absent, chainVars
  <2> QED
    BY <2>1, ZenonT(60) DEF Queued, Ledger!ledgervars
<1>9. ASSUME NEW f \in Field,
             \/ HandleReading(f) \/ BinWrite(f) \/ PlanSurplus(f)
             \/ PlanNoSurplus(f) \/ PlanUnattributed(f) \/ InlineGiveUp(f)
             \/ InlinePublish(f) \/ InlineConfirmed(f) \/ InlineFailed(f)
             \/ SinkEvict(f) \/ Reject(f)
      PROVE  UNCHANGED <<outbox, parked, minted>>
  BY <1>9, ZenonT(30) DEF HandleReading, BinWrite, PlanSurplus, PlanNoSurplus,
     PlanUnattributed, InlineGiveUp, InlinePublish, InlineConfirmed,
     InlineFailed, SinkEvict, Reject
<1>10. ASSUME NEW s \in Slot, NEW f \in Field,
             \/ SpawnedGiveUp(s, f) \/ SpawnedPublish(s, f)
             \/ SpawnedConfirmed(s, f) \/ SpawnedFailed(s, f)
      PROVE  UNCHANGED <<outbox, parked, minted>>
  BY <1>10, ZenonT(30) DEF SpawnedGiveUp, SpawnedPublish, SpawnedConfirmed, SpawnedFailed
<1>11. ASSUME NEW b \in chunks,
             \/ BatchAcquire(b) \/ BatchPublishOk(b) \/ BatchPublishErr(b)
             \/ BatchReply(b) \/ BatchDone(b)
      PROVE  UNCHANGED <<outbox, parked, minted>>
  BY <1>11, ZenonT(30) DEF BatchAcquire, BatchPublishOk, BatchPublishErr, BatchReply,
     BatchDone
<1>12. ASSUME NEW b \in chunks, NEW f \in b,
             BatchClaim(b, f) \/ BatchSkip(b, f)
      PROVE  UNCHANGED <<outbox, parked, minted>>
  BY <1>12, ZenonT(30) DEF BatchClaim, BatchSkip
<1>13. ASSUME \/ Sweep \/ SweepDone \/ DrainLoad \/ DrainSpawn \/ DrainJoin
              \/ Crash
      PROVE  UNCHANGED <<outbox, parked, minted>>
  BY <1>13, ZenonT(30) DEF Sweep, SweepDone, DrainLoad, DrainSpawn, DrainJoin, Crash
<1>14. CASE UNCHANGED vars
  BY <1>1, <1>14 DEF vars
<1> QED BY <1>1, <1>2, <1>3, <1>4, <1>5, <1>6, <1>7, <1>8, <1>9, <1>10, <1>11,
           <1>12, <1>13, <1>14, NextCases, SMTT(60)

\* MintOutbox implements SettlementLedger: an undertaking ends only after the
\* mint is on the chain.
THEOREM LedgerIsKept == Spec => KeepsTheLedger
<1>1. Init => Ledger!Opened
  BY DEF Init, Ledger!Opened, Queued, Absent
<1>2. TypeOK /\ IndInv /\ [Next]_vars => [Ledger!LedgerNext]_(Ledger!ledgervars)
  BY LedgerStep, ZenonT(60)
<1> QED
  BY <1>1, <1>2, TypeCorrect, Safety, PTL DEF Spec, KeepsTheLedger, Ledger!LedgerSpec
-----------------------------------------------------------------------------
\* The spawned attempts that hold a permit: one slot of one field each.
Holding == {a \in Slot \X Field : att[a[1]][a[2]] \in {"wait", "clear", "unpark"}}

\* The holders and the free permits add up to the size of the semaphore.
PermitInv ==
    /\ IsFiniteSet(Holding) /\ IsFiniteSet(running) /\ permits \in Nat
    /\ Cardinality(Holding) + Cardinality(running) + permits = Permits

\* One attempt moves on: it holds a permit or it does not.
LEMMA HoldingMoves ==
    ASSUME TypeOK, NEW s \in Slot, NEW f \in Field, NEW st, att' = [att EXCEPT ![s][f] = st]
    PROVE  Holding' = IF st \in {"wait", "clear", "unpark"} THEN Holding \cup {<<s, f>>}
                                                            ELSE Holding \ {<<s, f>>}
<1>1. \A r \in Slot, g \in Field : att'[r][g] = IF r = s /\ g = f THEN st ELSE att[r][g]
    BY DEF TypeOK, Who
<1>2. \A a \in Slot \X Field : a[1] \in Slot /\ a[2] \in Field /\ (a = <<s, f>> <=> a[1] = s /\ a[2] = f)
    OBVIOUS
<1> QED
    BY <1>1, <1>2, SMTT(60) DEF Holding

\* What the batches do is no matter of the spawned attempts.
LEMMA DrainHolds == ASSUME TypeOK, NEW m, att' = [att EXCEPT !["drain"] = m] PROVE Holding' = Holding
<1>1. \A r \in Slot : att'[r] = att[r]
    BY DEF TypeOK, Who
<1>2. \A a \in Slot \X Field : a[1] \in Slot
    OBVIOUS
<1> QED
    BY <1>1, <1>2, ZenonT(60) DEF Holding

LEMMA PermitTaken ==
    ASSUME PermitInv, NEW a, a \notin Holding, Holding' = Holding \cup {a}, running' = running,
           permits > 0, permits' = permits - 1
    PROVE  PermitInv'
<1>1. IsFiniteSet(Holding') /\ Cardinality(Holding') = Cardinality(Holding) + 1
    BY FS_AddElement DEF PermitInv
<1>2. Cardinality(Holding) \in Nat /\ Cardinality(running) \in Nat
    BY FS_CardinalityType DEF PermitInv
<1> QED
    BY <1>1, <1>2 DEF PermitInv

LEMMA PermitGiven ==
    ASSUME PermitInv, NEW a, a \in Holding, Holding' = Holding \ {a}, running' = running, permits' = permits + 1
    PROVE  PermitInv'
<1>1. IsFiniteSet(Holding') /\ Cardinality(Holding') = Cardinality(Holding) - 1
    BY FS_RemoveElement DEF PermitInv
<1>2. Cardinality(Holding) \in Nat /\ Cardinality(running) \in Nat
    BY FS_CardinalityType DEF PermitInv
<1> QED
    BY <1>1, <1>2 DEF PermitInv

LEMMA PermitStep == TypeOK /\ PermitInv /\ [Next]_vars => PermitInv'
<1> SUFFICES ASSUME TypeOK, PermitInv, [Next]_vars PROVE PermitInv'
    OBVIOUS
<1>1. ASSUME Holding' = Holding, UNCHANGED <<running, permits>> PROVE PermitInv'
    BY <1>1 DEF PermitInv
<1>2. ASSUME UNCHANGED <<att, running, permits>> PROVE PermitInv'
    BY <1>1, <1>2 DEF Holding
<1>3. ASSUME NEW m, att' = [att EXCEPT !["drain"] = m], UNCHANGED <<running, permits>> PROVE PermitInv'
    BY <1>1, <1>3, DrainHolds, ZenonT(60)
<1>4. CASE UNCHANGED vars
    BY <1>2, <1>4 DEF vars
<1>5. ASSUME NEW f \in Field,
             HandleReading(f) \/ BinWrite(f) \/ PlanSurplus(f) \/ PlanNoSurplus(f) \/ PlanUnattributed(f)
      PROVE  PermitInv'
    BY <1>2, <1>5, Zenon DEF HandleReading, BinWrite, PlanSurplus, PlanNoSurplus, PlanUnattributed
<1>6. ASSUME NEW f \in Field, SinkEnqueueErr(f) \/ SinkRetryOk(f) \/ SinkRetryErr(f) \/ InlineGiveUp(f)
                              \/ InlinePublish(f) \/ InlineConfirmed(f) \/ InlineFailed(f) \/ SinkEvict(f)
      PROVE  PermitInv'
    BY <1>2, <1>6, Zenon DEF SinkEnqueueErr, SinkRetryOk, SinkRetryErr, InlineGiveUp, InlinePublish,
                             InlineConfirmed, InlineFailed, SinkEvict
<1>7. ASSUME NEW f \in Field,
             ParkSetOk(f) \/ ParkSetErr(f) \/ ParkDelOk(f) \/ ParkDelErr(f) \/ Land(f) \/ Reject(f)
      PROVE  PermitInv'
    BY <1>2, <1>7, Zenon DEF ParkSetOk, ParkSetErr, ParkDelOk, ParkDelErr, Land, Reject
<1>8. ASSUME NEW f \in Field, SinkEnqueueOk(f) PROVE PermitInv'
    <2>1. PICK s \in Slot : att[s][f] = "none" /\ att' = [att EXCEPT ![s][f] = "queued"]
        BY <1>8, ZenonT(60) DEF SinkEnqueueOk
    <2>2. Holding' = Holding \ {<<s, f>>}
        BY <2>1, HoldingMoves, ZenonT(60)
    <2>3. <<s, f>> \notin Holding
        BY <2>1 DEF Holding
    <2> QED
        BY <1>1, <1>8, <2>2, <2>3 DEF SinkEnqueueOk
<1>9. ASSUME NEW s \in Slot, NEW f \in Field,
             SpawnedGiveUp(s, f) \/ SpawnedPublish(s, f) \/ SpawnedConfirmed(s, f) \/ SpawnedFailed(s, f)
      PROVE  PermitInv'
    <2>1. <<s, f>> \in Holding <=> att[s][f] \in {"wait", "clear", "unpark"}
        BY DEF Holding
    <2>2. CASE SpawnedGiveUp(s, f)
        <3>1. Holding' = Holding \ {<<s, f>>} /\ <<s, f>> \notin Holding
            BY <2>1, <2>2, HoldingMoves, ZenonT(60) DEF SpawnedGiveUp
        <3> QED
            BY <1>1, <2>2, <3>1 DEF SpawnedGiveUp
    <2>3. CASE SpawnedPublish(s, f)
        <3>1. Holding' = Holding \cup {<<s, f>>} /\ <<s, f>> \notin Holding
            BY <2>1, <2>3, HoldingMoves, ZenonT(60) DEF SpawnedPublish
        <3>2. permits > 0 /\ permits' = permits - 1 /\ running' = running
            BY <2>3, ZenonT(60) DEF SpawnedPublish
        <3> QED
            BY <3>1, <3>2, PermitTaken, Zenon
    <2>4. CASE SpawnedConfirmed(s, f)
        <3>1. Holding' = Holding \cup {<<s, f>>} /\ <<s, f>> \in Holding
            BY <2>1, <2>4, HoldingMoves, ZenonT(60) DEF SpawnedConfirmed
        <3> QED
            BY <1>1, <2>4, <3>1 DEF SpawnedConfirmed
    <2>5. CASE SpawnedFailed(s, f)
        <3>1. Holding' = Holding \ {<<s, f>>} /\ <<s, f>> \in Holding
            BY <2>1, <2>5, HoldingMoves, ZenonT(60) DEF SpawnedFailed
        <3>2. permits' = permits + 1 /\ running' = running
            BY <2>5 DEF SpawnedFailed
        <3> QED
            BY <3>1, <3>2, PermitGiven, Zenon
    <2> QED
        BY <1>9, <2>2, <2>3, <2>4, <2>5
<1>10. ASSUME NEW w \in Who, NEW f \in Field, RemoveOutboxOk(w, f) \/ RemoveOutboxErr(w, f) \/ RemoveParked(w, f)
       PROVE  PermitInv'
    <2>1. PICK st \in {"none", "unpark"} :
            /\ att[w][f] \in {"clear", "unpark"} /\ att' = [att EXCEPT ![w][f] = st] /\ running' = running
            /\ permits' = IF st = "none" /\ w # "drain" THEN permits + 1 ELSE permits
        <3>1. CASE RemoveOutboxOk(w, f)
            BY <3>1, ZenonT(60) DEF RemoveOutboxOk
        <3>2. CASE RemoveOutboxErr(w, f) \/ RemoveParked(w, f)
            BY <3>2 DEF RemoveOutboxErr, RemoveParked, Ended
        <3> QED
            BY <1>10, <3>1, <3>2, ZenonT(60)
    <2>2. CASE w = "drain"
        <3>1. att' = [att EXCEPT !["drain"] = [att["drain"] EXCEPT ![f] = st]]
            BY <2>1, <2>2
        <3> QED
            BY <1>3, <2>1, <2>2, <3>1, ZenonT(60)
    <2>3. CASE w \in Slot
        <3>1. w # "drain" /\ <<w, f>> \in Holding
            BY <2>1, <2>3 DEF Holding
        <3>2. CASE st = "unpark"
            <4>1. Holding' = Holding \cup {<<w, f>>}
                BY <2>1, <2>3, <3>2, HoldingMoves, ZenonT(60)
            <4> QED
                BY <1>1, <2>1, <3>1, <3>2, <4>1
        <3>3. CASE st = "none"
            <4>1. Holding' = Holding \ {<<w, f>>}
                BY <2>1, <2>3, <3>3, HoldingMoves, ZenonT(60)
            <4> QED
                BY <2>1, <3>1, <3>3, <4>1, PermitGiven
        <3> QED
            BY <2>1, <3>2, <3>3
    <2> QED
        BY <2>2, <2>3, ZenonT(60) DEF Who
<1>11. ASSUME NEW b \in chunks, BatchAcquire(b) \/ BatchDone(b) PROVE PermitInv'
    <2>1. Holding' = Holding
        BY <1>11 DEF BatchAcquire, BatchDone, Holding
    <2>2. Cardinality(Holding) \in Nat /\ Cardinality(running) \in Nat
        BY FS_CardinalityType DEF PermitInv
    <2>3. CASE BatchAcquire(b)
        <3>1. b \notin running /\ running' = running \cup {b} /\ permits > 0 /\ permits' = permits - 1
            BY <2>3, Zenon DEF BatchAcquire
        <3>2. IsFiniteSet(running') /\ Cardinality(running') = Cardinality(running) + 1
            BY <3>1, FS_AddElement, Zenon DEF PermitInv
        <3> QED
            BY <2>1, <2>2, <3>1, <3>2, SMTT(60) DEF PermitInv
    <2>4. CASE BatchDone(b)
        <3>1. b \in running /\ running' = running \ {b} /\ permits' = permits + 1
            BY <2>4, Zenon DEF BatchDone
        <3>2. IsFiniteSet(running') /\ Cardinality(running') = Cardinality(running) - 1
            BY <3>1, FS_RemoveElement, Zenon DEF PermitInv
        <3> QED
            BY <2>1, <2>2, <3>1, <3>2, SMTT(60) DEF PermitInv
    <2> QED
        BY <1>11, <2>3, <2>4, ZenonT(60)
<1>12. ASSUME NEW b \in chunks, BatchPublishOk(b) \/ BatchPublishErr(b) \/ BatchReply(b)
                                \/ \E f \in b : BatchClaim(b, f) \/ BatchSkip(b, f)
       PROVE  PermitInv'
    <2>1. PICK m : att' = [att EXCEPT !["drain"] = m]
        BY <1>12, ZenonT(60) DEF BatchPublishOk, BatchPublishErr, BatchReply, BatchClaim, BatchSkip, DrainMove
    <2>2. UNCHANGED <<running, permits>>
        BY <1>12, Zenon DEF BatchPublishOk, BatchPublishErr, BatchReply, BatchClaim, BatchSkip
    <2> QED
        BY <1>3, <2>1, <2>2, ZenonT(60)
<1>13. CASE Sweep \/ SweepDone \/ DrainLoad \/ DrainJoin \/ Tick
    BY <1>2, <1>13, Zenon DEF Sweep, SweepDone, DrainLoad, DrainJoin, Tick
<1>14. CASE DrainSpawn
    <2>1. PICK m : att' = [att EXCEPT !["drain"] = m]
        BY <1>14, Zenon DEF DrainSpawn
    <2> QED
        BY <1>3, <1>14, <2>1 DEF DrainSpawn
<1>15. CASE Crash
    <2>1. Holding' = {} /\ running' = {} /\ permits' = Permits
        <3>1. \A w \in Who, f \in Field : att'[w][f] = "none"
            BY <1>15 DEF Crash
        <3>2. \A a \in Slot \X Field : a[1] \in Who /\ a[2] \in Field
            BY DEF Who
        <3> QED
            BY <1>15, <3>1, <3>2, ZenonT(60) DEF Crash, Holding
    <2> QED
        BY <2>1, FS_EmptySet, SMTT(60) DEF PermitInv
<1> QED
    BY <1>4, <1>5, <1>6, <1>7, <1>8, <1>9, <1>10, <1>11, <1>12, <1>13, <1>14, <1>15, NextCases, Zenon

\* The semaphore of main.rs bounds the open round trips: on no path does a
\* spawned attempt or a batch give its permit back early, twice or never, for
\* any number of fields and attempts and any MINT_INFLIGHT_LIMIT.
THEOREM PermitsAreKept == Spec => []PermitBound
<1>1. Init => PermitInv
    <2> SUFFICES ASSUME Init PROVE PermitInv
        OBVIOUS
    <2>1. Holding = {} /\ running = {} /\ permits = Permits
        <3>1. \A a \in Slot \X Field : att[a[1]][a[2]] = "none"
            BY ZenonT(60) DEF Init, ProcessInit, Who
        <3> QED
            BY <3>1 DEF Holding, Init, ProcessInit
    <2> QED
        BY <2>1, FS_EmptySet DEF PermitInv
<1>2. PermitInv => PermitBound
    <2> SUFFICES ASSUME PermitInv PROVE PermitBound
        OBVIOUS
    <2>1. Cardinality(Holding) \in Nat /\ Cardinality(running) \in Nat
        BY FS_CardinalityType DEF PermitInv
    <2> QED
        BY <2>1, SMTT(60) DEF PermitInv, PermitBound, Holding
<1> QED
    BY <1>1, <1>2, TypeCorrect, PermitStep, PTL DEF Spec
====
