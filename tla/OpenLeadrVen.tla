---------------------------- MODULE OpenLeadrVen ----------------------------
(***************************************************************************)
(* The OpenADR 3 VEN listener (standards/openleadr_ven.rs): it polls a VTN *)
(* for events, executes each setpoint interval through the downstream      *)
(* adapter while its window is open, and remembers what it executed in a   *)
(* map mirrored, best effort, in a Redis hash.                             *)
(*                                                                         *)
(* External: the VTN, which publishes, updates and withdraws events and    *)
(* whose listing can hide one (pagination, a target filter); Redis; the    *)
(* adapter, whose call succeeds or fails.                                  *)
(***************************************************************************)
EXTENDS Integers, Sequences, FiniteSets, FiniteSetsExt

CONSTANTS
    Event,      \* event ids
    Content,    \* possible event bodies, see ContentType
    PruneAge,   \* seven days, in ticks
    Fallback,   \* 24 h, in ticks
    MaxTime,    \* the clock stops here
    MaxChange,  \* updates, withdrawals and listings that hide an event
    MaxCrash,   \* process crashes
    Nil

Time == 0 .. MaxTime
Whole == 0      \* the dedup key of an event as a whole; intervals count from 1

VARIABLES
    clock,
    vtn,              \* Event -> [modified, content], or Nil
    seen,             \* dedup key -> modification time acted on
    seen_loaded,
    executed_active,  \* Event -> end of its window, for executed events
    stored,           \* the Redis hash SEEN_KEY
    poll,             \* the poll cycle under way, or Nil
    changes, crashes,
    acked,            \* ghost: executions this process knows it confirmed
    durable,          \* ghost: executions whose dedup entry reached Redis
    ever,             \* ghost: every confirmed execution
    lapsed,           \* ghost: executions a listing lacked when they were PruneAge old
    opens,            \* ghost: Event -> the times an interval of what was executed is open
    reported,         \* ghost: events reported as cancelled since they were executed
    recent            \* ghost: events executed since the process started

known == <<acked, durable, lapsed>>
watch == <<opens, reported, recent>>
venvars == <<clock, vtn, seen, seen_loaded, executed_active, stored, poll, changes,
             crashes, known, ever, watch>>

\* An event body: a default period and duration, and intervals in order; an
\* interval without a numeric DISPATCH_SETPOINT payload has setpoint Nil.
Period == [start : Time, duration : (1 .. MaxTime) \cup {Nil}]
Interval == [id : Nat \ {0}, setpoint : Int \cup {Nil}, period : Period \cup {Nil}]
ContentType(c) ==
    /\ c.period \in Period \cup {Nil} /\ c.duration \in (1 .. MaxTime) \cup {Nil}
    /\ c.intervals \in Seq(Interval)

\* An event as listed; what Remember is to note of a dispatch; a poll cycle.
Version == [modified : Time, content : Content]
Execution == [event : Event, interval : Nat \ {0}, more_pending : BOOLEAN]
Cycle == [now : Time, listed : UNION {[es -> Version] : es \in SUBSET Event},
          todo : SUBSET Event, cur : Execution \cup {Nil}]

ASSUME VenAssumption ==
    /\ \A c \in Content : ContentType(c)
    /\ Nil \notin Execution \cup Cycle
    /\ {PruneAge, Fallback, MaxTime, MaxChange, MaxCrash} \subseteq Nat

-----------------------------------------------------------------------------
(* The pure part: schedules and the decision on one event.                 *)

\* find_setpoints: the places of the intervals that carry a setpoint.
find_setpoints(event) == {i \in DOMAIN event.intervals : event.intervals[i].setpoint # Nil}

\* The interval's period wins over the event's default, the period's duration
\* over the event's.
PeriodOf(event, sp) == IF sp.period # Nil THEN sp.period ELSE event.period
EndOf(event, period, otherwise) ==
    IF period.duration # Nil THEN period.start + period.duration
    ELSE IF event.duration # Nil THEN period.start + event.duration ELSE otherwise

Future(event, sp, now) == PeriodOf(event, sp) # Nil /\ now < PeriodOf(event, sp).start
Open(event, sp, now) ==
    LET p == PeriodOf(event, sp)
    IN p # Nil => p.start <= now /\ now < EndOf(event, p, now + 1)

Closes(event, sp) ==
    PeriodOf(event, sp) # Nil /\ (PeriodOf(event, sp).duration # Nil \/ event.duration # Nil)

\* The open intervals that are not yet executed for this version.
active_unexecuted(event, now, executed) ==
    {i \in find_setpoints(event) :
        Open(event, event.intervals[i], now) /\ event.intervals[i].id \notin executed}

\* Fault: one interval ends the event.
decideOneInterval(event, now, executed) ==
    LET open == active_unexecuted(event, now, executed)
    IN CASE find_setpoints(event) = {} -> [kind |-> "NotDispatch"]
         [] open # {} -> [kind |-> "Execute", interval |-> event.intervals[Min(open)].id,
                          more_pending |-> FALSE]
         [] OTHER -> [kind |-> "Expired"]

\* decide: the first of them.
decide(event, now, executed) ==
    LET open == active_unexecuted(event, now, executed)
        any_future == \E i \in find_setpoints(event) : Future(event, event.intervals[i], now)
    IN CASE find_setpoints(event) = {} -> [kind |-> "NotDispatch"]
         [] open # {} -> [kind |-> "Execute", interval |-> event.intervals[Min(open)].id,
                          more_pending |-> any_future \/ Cardinality(open) > 1]
         [] find_setpoints(event) # {} /\ open = {} /\ any_future -> [kind |-> "NotYetActive"]
         [] OTHER -> [kind |-> "Expired"]

\* Fault: only the first interval counts.
active_window_endFirst(event, now) ==
    LET sp == event.intervals[Min(find_setpoints(event))]
    IN IF PeriodOf(event, sp) = Nil THEN now + Fallback
       ELSE EndOf(event, PeriodOf(event, sp), now + Fallback)

\* active_window_end: the latest end over all setpoint intervals.
active_window_end(event, now) ==
    LET end(sp) == IF PeriodOf(event, sp) = Nil THEN now + Fallback
                   ELSE EndOf(event, PeriodOf(event, sp), now + Fallback)
    IN Max({end(event.intervals[i]) : i \in find_setpoints(event)})

-----------------------------------------------------------------------------
(* One poll cycle.                                                         *)

\* A map that sets or lacks keys, as a function on the keys it has.
Insert(map, k, v) == [x \in DOMAIN map \cup {k} |-> IF x = k THEN v ELSE map[x]]
Drop(map, ks) == [x \in DOMAIN map \ ks |-> map[x]]

Events == {e \in Event : vtn[e] # Nil}

\* The start of poll_once: the persisted map is loaded once per process, and
\* a failed load is not tried again; a failed listing ends the cycle.
PollBegin(loads, hidden) ==
    LET loaded == IF ~seen_loaded /\ loads THEN stored ELSE << >>
        listed == Events \ hidden
    IN /\ poll = Nil
       /\ hidden \subseteq Events /\ changes + Cardinality(hidden) <= MaxChange
       /\ changes' = changes + Cardinality(hidden)
       /\ seen_loaded' = TRUE
       /\ seen' = [k \in DOMAIN seen \cup DOMAIN loaded |->
                     IF k \in DOMAIN loaded THEN loaded[k] ELSE seen[k]]
       /\ acked' = IF ~seen_loaded /\ loads THEN acked \cup durable ELSE acked
       /\ \/ poll' = [now |-> clock, listed |-> [e \in listed |-> vtn[e]], todo |-> listed,
                      cur |-> Nil]
          \/ poll' = Nil   \* the listing failed
       /\ UNCHANGED <<clock, vtn, executed_active, stored, crashes, durable, lapsed, ever, watch>>

\* The times at which some setpoint interval is open; one that never closes
\* counts for the 24 h after its execution.
OpenTimes(event, now) ==
    {t \in Time : \E i \in find_setpoints(event) :
        LET sp == event.intervals[i]
        IN Open(event, sp, t) /\ (Closes(event, sp) \/ t < now + Fallback)}

\* Fault: intervals are not remembered.
ExecutedNone(e, modified) == {}

\* The intervals executed for this version: keys "{event_id}#{interval_id}".
Executed(e, modified) ==
    {k[2] : k \in {x \in DOMAIN seen : x[1] = e /\ x[2] # Whole /\ seen[x] >= modified}}

\* What the loop does with a listed event: nothing when this version was
\* dealt with, otherwise the decision.
Verdict(e) ==
    LET ev == poll.listed[e]
    IN IF <<e, Whole>> \in DOMAIN seen /\ seen[<<e, Whole>>] >= ev.modified
       THEN [kind |-> "Skip"]
       ELSE decide(ev.content, poll.now, Executed(e, ev.modified))

\* mark_seen: the entry is persisted, best effort, and then inserted in
\* memory.  RedisSeenStore::persist retries once on a fresh connection; a
\* write reported as failed may have been applied.
mark_seen(key, modified) ==
    /\ seen' = Insert(seen, key, modified)
    /\ stored' \in {stored, Insert(stored, key, modified)}

\* An event that needs no dispatch now.
PollSkip(e) ==
    /\ poll # Nil /\ poll.cur = Nil /\ e \in poll.todo
    /\ Verdict(e).kind # "Execute"
    /\ poll' = [poll EXCEPT !.todo = @ \ {e}]
    /\ IF Verdict(e).kind \in {"NotDispatch", "Expired"}
       THEN mark_seen(<<e, Whole>>, poll.listed[e].modified)
       ELSE UNCHANGED <<seen, stored>>
    /\ UNCHANGED <<clock, vtn, seen_loaded, executed_active, changes, crashes, known, ever, watch>>

\* adapter.execute_dispatch fails: the next cycle tries again.
DispatchErr(e) ==
    /\ poll # Nil /\ poll.cur = Nil /\ e \in poll.todo
    /\ Verdict(e).kind = "Execute"
    /\ poll' = [poll EXCEPT !.todo = @ \ {e}]
    /\ UNCHANGED <<clock, vtn, seen, seen_loaded, executed_active, stored, changes, crashes,
                   known, ever, watch>>

\* adapter.execute_dispatch succeeds; nothing is remembered yet.
DispatchOk(e) ==
    LET v == Verdict(e)
    IN /\ poll # Nil /\ poll.cur = Nil /\ e \in poll.todo
       /\ v.kind = "Execute"
       /\ poll' = [poll EXCEPT !.todo = @ \ {e},
                               !.cur = [event |-> e, interval |-> v.interval,
                                        more_pending |-> v.more_pending]]
       /\ ever' = ever \cup {<<e, poll.listed[e].modified, v.interval>>}
       /\ opens' = [opens EXCEPT ![e] = OpenTimes(poll.listed[e].content, poll.now)]
       /\ reported' = reported \ {e} /\ recent' = recent \cup {e}
       /\ UNCHANGED <<clock, vtn, seen, seen_loaded, executed_active, stored, changes,
                      crashes, known>>

\* The rest of the Ok branch: the window is watched, the interval or, when it
\* was the last one pending, the event is marked, and a report is posted,
\* best effort, without effect on the listener.
Remember ==
    LET e == poll.cur.event
        ev == poll.listed[e]
        triple == <<e, ev.modified, poll.cur.interval>>
        key == <<e, IF poll.cur.more_pending THEN poll.cur.interval ELSE Whole>>
    IN /\ poll # Nil /\ poll.cur # Nil
       /\ poll' = [poll EXCEPT !.cur = Nil]
       /\ executed_active' = Insert(executed_active, e, active_window_end(ev.content, poll.now))
       /\ mark_seen(key, ev.modified)
       /\ acked' = acked \cup {triple}
       /\ durable' = IF key \in DOMAIN stored' /\ stored'[key] = ev.modified
                     THEN durable \cup {triple} ELSE durable \ (lapsed \cap {triple})
       /\ lapsed' = lapsed \ {triple}
       /\ UNCHANGED <<clock, vtn, seen_loaded, changes, crashes, ever, watch>>

\* Entries of events the listing lacks, recorded more than PruneAge ago.
Stale == {k \in DOMAIN seen : k[1] \notin DOMAIN poll.listed /\ seen[k] < poll.now - PruneAge}

\* executed_active.retain, and the events reported as cancelled.
Retained == {e \in DOMAIN executed_active :
                e \in DOMAIN poll.listed /\ executed_active[e] > poll.now}
Cancelled == {e \in DOMAIN executed_active :
                e \notin DOMAIN poll.listed /\ executed_active[e] > poll.now}

\* The end of poll_once: windows are reviewed and old entries pruned, from
\* Redis best effort.
PollEnd ==
    /\ poll # Nil /\ poll.cur = Nil /\ poll.todo = {}
    /\ executed_active' = [e \in Retained |-> executed_active[e]]
    /\ seen' = Drop(seen, Stale)
    /\ \E removed \in SUBSET Stale : stored' = Drop(stored, removed)
    /\ poll' = Nil
    /\ lapsed' = lapsed \cup {t \in ever : t[1] \notin DOMAIN poll.listed
                                           /\ t[2] < poll.now - PruneAge}
    /\ reported' = reported \cup Cancelled
    /\ UNCHANGED <<clock, vtn, seen_loaded, changes, crashes, acked, durable, ever, opens, recent>>

-----------------------------------------------------------------------------
(* The surroundings.                                                       *)

\* External: an event is published, updated (with a later modification time)
\* or withdrawn.
Publish(e, c) ==
    /\ changes < MaxChange
    /\ vtn[e] # Nil => vtn[e].modified < clock
    /\ vtn' = [vtn EXCEPT ![e] = [modified |-> clock, content |-> c]]
    /\ changes' = changes + 1
    /\ UNCHANGED <<clock, seen, seen_loaded, executed_active, stored, poll, crashes,
                   known, ever, watch>>

Withdraw(e) ==
    /\ changes < MaxChange
    /\ vtn[e] # Nil
    /\ vtn' = [vtn EXCEPT ![e] = Nil]
    /\ changes' = changes + 1
    /\ UNCHANGED <<clock, seen, seen_loaded, executed_active, stored, poll, crashes,
                   known, ever, watch>>

ClockTick ==
    /\ clock < MaxTime
    /\ clock' = clock + 1
    /\ UNCHANGED <<vtn, seen, seen_loaded, executed_active, stored, poll, changes, crashes,
                   known, ever, watch>>

\* The process dies and is started again: only the Redis hash survives.
Crash ==
    /\ crashes < MaxCrash
    /\ crashes' = crashes + 1
    /\ seen' = << >> /\ seen_loaded' = FALSE /\ executed_active' = << >>
    /\ poll' = Nil
    /\ acked' = {} /\ recent' = {}
    /\ UNCHANGED <<clock, vtn, stored, changes, durable, lapsed, ever, opens, reported>>

VenInit ==
    /\ clock = 0
    /\ vtn \in [Event -> [modified : {0}, content : Content] \cup {Nil}]
    /\ seen = << >> /\ seen_loaded = FALSE /\ executed_active = << >> /\ stored = << >>
    /\ poll = Nil
    /\ changes = 0 /\ crashes = 0
    /\ acked = {} /\ durable = {} /\ lapsed = {} /\ ever = {}
    /\ opens = [e \in Event |-> {}] /\ reported = {} /\ recent = {}

Work == \E e \in Event : PollSkip(e) \/ DispatchErr(e) \/ DispatchOk(e)

VenNext ==
    \/ \E loads \in BOOLEAN, hidden \in SUBSET Event : PollBegin(loads, hidden)
    \/ Work
    \/ Remember
    \/ PollEnd
    \/ \E e \in Event, c \in Content : Publish(e, c)
    \/ \E e \in Event : Withdraw(e)
    \/ ClockTick
    \/ Crash

VenSpec == VenInit /\ [][VenNext]_venvars

\* The poll ticker keeps firing and a cycle that started is carried on; a VTN
\* listed forever and an adapter called forever answer in the end.
VenFairness ==
    /\ SF_venvars((\E loads \in BOOLEAN : PollBegin(loads, {})) /\ poll' # Nil)
    /\ WF_venvars((\E e \in Event : PollSkip(e)) \/ Remember \/ PollEnd)
    /\ \A e \in Event : SF_venvars(DispatchOk(e))

-----------------------------------------------------------------------------
(* Properties.                                                             *)

Triple == Event \X Time \X (Nat \ {0})

\* The maps have keys and times of their kinds, the event being executed is a
\* listed one, and no entry is newer than the event's latest version, which
\* would hide an update from the listener.
VenTypeOK ==
    /\ clock \in Time
    /\ \A e \in Event : vtn[e] # Nil => vtn[e].modified \in Time /\ vtn[e].content \in Content
    /\ \A m \in {seen, stored} : \A k \in DOMAIN m :
          k[1] \in Event /\ k[2] \in Nat /\ m[k] \in Time
    /\ \A k \in DOMAIN seen : vtn[k[1]] # Nil => seen[k] <= vtn[k[1]].modified
    /\ DOMAIN executed_active \subseteq Event
    /\ poll # Nil => /\ poll.now <= clock /\ poll.todo \subseteq DOMAIN poll.listed
                      /\ poll.cur # Nil => poll.cur.event \in DOMAIN poll.listed \ poll.todo
    /\ acked \cup durable \cup lapsed \subseteq ever /\ ever \subseteq Triple

\* No interval of an event version is dispatched again once the listener knows
\* it was: not within a process life, however polls, updates and withdrawals
\* interleave, and not after a restart that loads the dedup map, when the entry
\* had reached Redis (poll_once, mark_seen, SEEN_KEY).  Two executions are left
\* out, as in the code.  One in lapsed: a single listing that lacks the event
\* more than PruneAge after the version's modification time, not after it was
\* last listed, prunes its entry, and the event is executed again when it is
\* listed again.  And one this process does not know of: a stop between the
\* dispatch and mark_seen, a failed write of the entry, or a failed load after
\* a restart.
NoReExecution ==
    [][\A e \in Event :
          DispatchOk(e) =>
              <<e, poll.listed[e].modified, Verdict(e).interval>> \notin acked \ lapsed]_venvars

\* An executed event that a poll's listing lacks while one of its intervals is
\* still to close is reported by that poll, or was by an earlier one since it
\* was executed, also after the interval that was executed has closed; one
\* without an end is watched for 24 h (active_window_end).  This is promised
\* within a process life only: executed_active is not persisted, so that what was
\* executed before a restart passes silently.
CancellationIsNoticed ==
    [][PollEnd => \A e \in recent \ DOMAIN poll.listed :
                     (\E t \in opens[e] : t >= poll.now) => e \in Cancelled \cup reported]_venvars

\* The unscheduled ("as soon as possible") intervals of a listed event that are
\* still to be confirmed.
Unanswered(e) ==
    vtn[e] # Nil /\ \E i \in DOMAIN vtn[e].content.intervals :
        LET sp == vtn[e].content.intervals[i]
        IN /\ sp.setpoint # Nil /\ PeriodOf(vtn[e].content, sp) = Nil
           /\ <<e, vtn[e].modified, sp.id>> \notin ever

\* Every unscheduled interval of an event is executed in the end, unless the
\* event is updated or withdrawn first: failed dispatches are retried, a failed
\* listing or load and a crash only delay it, and executing one interval never
\* buries another (poll_once, more_pending).
AsapIsExecuted == \A e \in Event : Unanswered(e) ~> ~Unanswered(e)
=============================================================================
