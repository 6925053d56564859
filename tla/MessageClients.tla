--------------------------- MODULE MessageClients ---------------------------
(***************************************************************************)
(* How the broker clients recover: AggregatorKafkaProducer                 *)
(* (persistence/infra/kafka.rs), which replaces a client whose sends keep  *)
(* failing; the consumer loop of the owner read model                      *)
(* (persistence/infra/owner_read_model.rs), which rebuilds a consumer that *)
(* keeps failing; and AggregatorRabbitMQProducer                           *)
(* (persistence/infra/rabbitmq.rs), which rebuilds its channel and retries *)
(* once.  Senders are the tasks spawned per reading and the grid-status    *)
(* publisher.  External: the brokers, and how their clients get stuck.     *)
(***************************************************************************)
EXTENDS Integers, FiniteSets, FiniteSetsExt

CONSTANTS
    Sender,         \* concurrent sends
    RebuildAfter,   \* REBUILD_AFTER_FAILURES, REBUILD_AFTER_CONSECUTIVE_ERRORS
    MaxCrash,       \* broker failures considered
    NoSender        \* the write lock is free

ASSUME ClientAssumption == RebuildAfter \in Nat \ {0} /\ MaxCrash \in Nat /\ NoSender \notin Sender

VARIABLES
    sender,     \* Sender -> [pc, of, dead]: of which client, and, if replaced, whether stuck
    wedged,     \* the current producer never delivers again
    failures,   \* consecutive_failures, up to RebuildAfter
    counted,    \* failures counted since the current producer was built
    writer,     \* holder of the producer's write lock
    feed,       \* [errors, stuck] of the owner consumer
    channel,    \* the RabbitMQ channel works
    job,        \* Sender -> [pc, fresh]: a validation job; whether its new channel works
    broker,     \* RabbitMQ is up
    crashes     \* times it went down

producervars == <<sender, wedged, failures, counted, writer>>
rabbitvars == <<channel, job, broker, crashes>>
clientvars == <<producervars, feed, rabbitvars>>

Resting == [pc |-> "idle", of |-> "current", dead |-> FALSE]
Counting(n) == Min({n + 1, RebuildAfter})

ClientInit ==
    /\ sender = [s \in Sender |-> Resting] /\ wedged = FALSE
    /\ failures = 0 /\ counted = 0 /\ writer = NoSender
    /\ feed = [errors |-> 0, stuck |-> FALSE]
    /\ channel = TRUE /\ job = [s \in Sender |-> [pc |-> "idle", fresh |-> FALSE]]
    /\ broker = TRUE /\ crashes = 0

-----------------------------------------------------------------------------
(* The Kafka producer. *)

\* The read lock is taken to clone the client, and let go before the send.
Lock(s) ==
    /\ sender[s].pc = "idle" /\ writer = NoSender
    /\ sender' = [sender EXCEPT ![s].pc = "clone"]
    /\ UNCHANGED <<wedged, failures, counted, writer, feed, rabbitvars>>

Clone(s) ==
    /\ sender[s].pc = "clone"
    /\ sender' = [sender EXCEPT ![s] = [pc |-> "sending", of |-> "current", dead |-> FALSE]]
    /\ UNCHANGED <<wedged, failures, counted, writer, feed, rabbitvars>>

\* Delivered: mark_success.
Deliver(s) ==
    /\ sender[s].pc = "sending"
    /\ IF sender[s].of = "current" THEN ~wedged ELSE ~sender[s].dead
    /\ sender' = [sender EXCEPT ![s] = Resting]
    /\ failures' = 0
    /\ UNCHANGED <<wedged, counted, writer, feed, rabbitvars>>

\* Fault: a failed send is not counted.
FailUncounted(s) ==
    /\ sender[s].pc = "sending"
    /\ sender' = [sender EXCEPT ![s] = Resting]
    /\ UNCHANGED <<wedged, failures, counted, writer, feed, rabbitvars>>

\* Timed out or refused: mark_failure_and_maybe_rebuild counts it.
Fail(s) ==
    LET n == Counting(failures)
    IN /\ sender[s].pc = "sending"
       /\ failures' = n /\ counted' = Counting(counted)
       /\ sender' = [sender EXCEPT ![s] =
            IF n < RebuildAfter THEN Resting ELSE [Resting EXCEPT !.pc = "try"]]
       /\ UNCHANGED <<wedged, writer, feed, rabbitvars>>

\* try_write: given up if anyone holds the lock.
Unlocked == writer = NoSender /\ \A s \in Sender : sender[s].pc # "clone"

TryWrite(s) ==
    /\ sender[s].pc = "try"
    /\ sender' = [sender EXCEPT ![s].pc = IF Unlocked THEN "recheck" ELSE "idle"]
    /\ writer' = IF Unlocked THEN s ELSE writer
    /\ UNCHANGED <<wedged, failures, counted, feed, rabbitvars>>

\* Fault: the counter is not read again under the lock.
RecheckNot(s) ==
    /\ sender[s].pc = "recheck"
    /\ sender' = [sender EXCEPT ![s].pc = "build"]
    /\ UNCHANGED <<wedged, failures, counted, writer, feed, rabbitvars>>

\* A rebuild by another sender may have reset the counter in the meantime.
Recheck(s) ==
    /\ sender[s].pc = "recheck"
    /\ sender' = [sender EXCEPT ![s].pc = IF failures < RebuildAfter THEN "idle" ELSE "build"]
    /\ writer' = IF failures < RebuildAfter THEN NoSender ELSE writer
    /\ UNCHANGED <<wedged, failures, counted, feed, rabbitvars>>

\* The client is replaced, sends in flight keep the old one; or it cannot be
\* built and the counter stays.
Build(s, ok) ==
    /\ sender[s].pc = "build"
    /\ writer' = NoSender
    /\ sender' = [t \in Sender |->
         IF t = s THEN Resting
         ELSE IF ok /\ sender[t].pc = "sending" /\ sender[t].of = "current"
         THEN [sender[t] EXCEPT !.of = "old", !.dead = wedged] ELSE sender[t]]
    /\ wedged' = (wedged /\ ~ok)
    /\ failures' = IF ok THEN 0 ELSE failures
    /\ counted' = IF ok THEN 0 ELSE counted
    /\ UNCHANGED <<feed, rabbitvars>>

\* External: the socket is black-holed; nothing is delivered on it any more.
Wedge ==
    /\ ~wedged
    /\ wedged' = TRUE
    /\ UNCHANGED <<sender, failures, counted, writer, feed, rabbitvars>>

-----------------------------------------------------------------------------
(* The owner read model's consumer. *)

RecvOk ==
    /\ ~feed.stuck
    /\ feed' = [feed EXCEPT !.errors = 0]
    /\ UNCHANGED <<producervars, rabbitvars>>

\* recv fails; after enough failures in a row the consumer is built again, and
\* the count starts anew whether or not that worked.
RecvErr(ok) ==
    LET n == feed.errors + 1
    IN /\ feed' = IF n < RebuildAfter THEN [feed EXCEPT !.errors = n]
                  ELSE [errors |-> 0, stuck |-> feed.stuck /\ ~ok]
       /\ UNCHANGED <<producervars, rabbitvars>>

\* External: fenced off the group, with no way back for this client.
Fence ==
    /\ ~feed.stuck
    /\ feed' = [feed EXCEPT !.stuck = TRUE]
    /\ UNCHANGED <<producervars, rabbitvars>>

-----------------------------------------------------------------------------
(* RabbitMQ. *)

\* publish, the first time or after the channel was rebuilt.
Publish(s) ==
    /\ job[s].pc \in {"idle", "again"}
    /\ job' = [job EXCEPT ![s].pc = IF channel \/ job[s].pc = "again" THEN "idle" ELSE "connect"]
    /\ UNCHANGED <<producervars, feed, channel, broker, crashes>>

\* connect: a new channel with its exchange, queue and binding, or an error.
Connect(s) ==
    /\ job[s].pc = "connect"
    /\ job' = [job EXCEPT ![s] = IF broker THEN [pc |-> "store", fresh |-> TRUE] ELSE [@ EXCEPT !.pc = "idle"]]
    /\ UNCHANGED <<producervars, feed, channel, broker, crashes>>

\* It replaces whatever is there, which another job may just have replaced.
Store(s) ==
    /\ job[s].pc = "store"
    /\ channel' = job[s].fresh
    /\ job' = [job EXCEPT ![s] = [pc |-> "again", fresh |-> FALSE]]
    /\ UNCHANGED <<producervars, feed, broker, crashes>>

\* External: the broker goes down, with every channel, and comes back.
BrokerDown ==
    /\ broker /\ crashes < MaxCrash
    /\ broker' = FALSE /\ crashes' = crashes + 1
    /\ channel' = FALSE
    /\ job' = [s \in Sender |-> [job[s] EXCEPT !.fresh = FALSE]]
    /\ UNCHANGED <<producervars, feed>>

BrokerUp ==
    /\ ~broker
    /\ broker' = TRUE
    /\ UNCHANGED <<producervars, feed, channel, job, crashes>>

-----------------------------------------------------------------------------
\* One publication after another: readings keep arriving, and the publisher's
\* timer keeps ticking.
ProducerStep(s) ==
    \/ Lock(s) \/ Clone(s) \/ Deliver(s) \/ Fail(s) \/ TryWrite(s) \/ Recheck(s)
    \/ \E ok \in BOOLEAN : Build(s, ok)
FeedStep == RecvOk \/ \E ok \in BOOLEAN : RecvErr(ok)
JobStep(s) == Publish(s) \/ Connect(s) \/ Store(s)

ClientNext ==
    \/ \E s \in Sender : ProducerStep(s) \/ JobStep(s)
    \/ FeedStep \/ Wedge \/ Fence \/ BrokerDown \/ BrokerUp

\* Tasks run; a lock found free again and again is sometimes taken, a build tried
\* again and again sometimes works.
ClientFairness ==
    /\ \A s \in Sender : /\ WF_clientvars(ProducerStep(s)) /\ WF_clientvars(JobStep(s))
                         /\ SF_clientvars(Unlocked /\ TryWrite(s)) /\ SF_clientvars(Build(s, TRUE))
    /\ WF_clientvars(FeedStep) /\ SF_clientvars(feed.errors + 1 >= RebuildAfter /\ RecvErr(TRUE))
    /\ WF_clientvars(BrokerUp)

ClientSpec == ClientInit /\ [][ClientNext]_clientvars /\ ClientFairness

-----------------------------------------------------------------------------
\* Senders, counters, the lock and jobs have their shapes, and the lock has one
\* holder.
ClientTypeOK ==
    /\ sender \in [Sender -> [pc : {"idle", "clone", "sending", "try", "recheck", "build"},
                              of : {"current", "old"}, dead : BOOLEAN]]
    /\ {failures, counted} \subseteq 0 .. RebuildAfter
    /\ writer \in Sender \cup {NoSender}
    /\ \A s \in Sender : sender[s].pc \in {"recheck", "build"} <=> writer = s
    /\ feed \in [errors : 0 .. RebuildAfter - 1, stuck : BOOLEAN]
    /\ job \in [Sender -> [pc : {"idle", "again", "connect", "store"}, fresh : BOOLEAN]]

\* A producer is replaced only after RebuildAfter failures counted since it was
\* built: senders that crossed the threshold together do not replace it one
\* after the other ("a concurrent rebuild may have just reset it").
RebuildIsEarned == \A s \in Sender : sender[s].pc = "build" => counted >= RebuildAfter

Trying == \E s \in Sender : sender[s].pc = "try"

\* A producer on a dead socket is replaced, whatever successes of older clients,
\* lock conflicts and failed builds fall in between; provided that of ever more
\* attempts to take the lock one meets no reader ("almost always succeeds").
WedgeHeals == ([]<>Trying => []<>(Trying /\ Unlocked)) => (wedged ~> ~wedged)

\* A consumer fenced off for good is rebuilt.
FeedHeals == feed.stuck ~> ~feed.stuck

\* Once the broker stays up the channel works and stays so: jobs that rebuild
\* it at the same time, some from before the last restart, do not leave it
\* broken ("must not wedge the producer permanently").
ChannelHeals == <>[]channel

\* None of the three clients stays broken.
ClientsHeal == WedgeHeals /\ FeedHeals /\ ChannelHeals
=============================================================================
