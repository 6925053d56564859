------------------------------- MODULE MCSinks -------------------------------
(***************************************************************************)
(* The edges where readings leave, checked as the sum of small instances:  *)
(* the three batchers, the Kafka producer, the owner feed's consumer, the  *)
(* RabbitMQ producer, the grid-status publisher, and store-and-forward.  A *)
(* behaviour keeps the part it starts in.                                  *)
(***************************************************************************)
EXTENDS BatchSinks, MessageClients, GridStatus, StoreForward, TLC

VARIABLE part

mcvars == <<part, sinkvars, clientvars, gridvars, storevars>>

MCInit ==
    /\ part \in {"batch", "kafka", "feed", "rabbit", "grid", "store"}
    /\ SinkInit /\ ClientInit /\ GridInit /\ StoreInit
    /\ part # "batch" => sink = "influx"

Batch(A) == part = "batch" /\ A /\ UNCHANGED <<part, clientvars, gridvars, storevars>>
Client(p, A) == part = p /\ A /\ UNCHANGED <<part, sinkvars, gridvars, storevars>>
Grid(A) == part = "grid" /\ A /\ UNCHANGED <<part, sinkvars, clientvars, storevars>>
Local(A) == part = "store" /\ A /\ UNCHANGED <<part, sinkvars, clientvars, gridvars>>

MCNext ==
    \/ \E c \in {"good", "bad"} : Batch(Record(c))
    \/ \E c \in {Flush, Shutdown} : Batch(Command(c))
    \/ Batch(Close) \/ Batch(RecvItem) \/ Batch(RecvCommand) \/ Batch(TickFlush)
    \/ Batch(RecvClosed) \/ Batch(Return)
    \/ \E o \in Outcome : Batch(Written(o)) \/ \E s \in {"good", "bad"} : Batch(Ack(s, o))
    \/ \E s \in Sender : \/ Client("kafka", Lock(s)) \/ Client("kafka", Clone(s))
                         \/ Client("kafka", Deliver(s)) \/ Client("kafka", Fail(s))
                         \/ Client("kafka", TryWrite(s)) \/ Client("kafka", Recheck(s))
                         \/ \E ok \in BOOLEAN : Client("kafka", Build(s, ok))
                         \/ Client("rabbit", Publish(s)) \/ Client("rabbit", Connect(s))
                         \/ Client("rabbit", Store(s))
    \/ Client("kafka", Wedge)
    \/ Client("feed", RecvOk) \/ Client("feed", Fence) \/ \E ok \in BOOLEAN : Client("feed", RecvErr(ok))
    \/ Client("rabbit", BrokerDown) \/ Client("rabbit", BrokerUp)
    \/ \E hz \in Hz : Grid(RecordHz(hz))
    \/ \E ok \in BOOLEAN : Grid(PublishStatus(ok))
    \/ Grid(GridPass)
    \/ Local(Push) \/ Local(Mark) \/ Local(DbError) \/ Local(StoreRestart)
    \/ \E i \in 1 .. MaxRecord : Local(Expire(i)) \/ Local(Send(i)) \/ \E got \in BOOLEAN : Local(SendFails(i, got))
    \/ \E b \in SUBSET unsynced : Local(Fetch(b))

\* The fairness of the parts (see ClientFairness, StoreFairness and SinkSpec).
MCFairness ==
    /\ WF_mcvars(Batch(WorkerStep))
    /\ \A s \in Sender : /\ WF_mcvars(Client("kafka", ProducerStep(s)))
                         /\ WF_mcvars(Client("rabbit", JobStep(s)))
                         /\ SF_mcvars(Client("kafka", Unlocked /\ TryWrite(s)))
                         /\ SF_mcvars(Client("kafka", Build(s, TRUE)))
    /\ WF_mcvars(Client("feed", FeedStep))
    /\ SF_mcvars(Client("feed", feed.errors + 1 >= RebuildAfter /\ RecvErr(TRUE)))
    /\ WF_mcvars(Client("rabbit", BrokerUp))
    /\ WF_mcvars(Local(StoreStep))
    /\ \A i \in 1 .. MaxRecord : SF_mcvars(Local(Send(i)))

MCSpec == MCInit /\ [][MCNext]_mcvars /\ MCFairness

\* The shapes of all parts.
TypeOK == SinkTypeOK /\ ClientTypeOK /\ StoreTypeOK
=============================================================================
