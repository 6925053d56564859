--------------------------- MODULE DispatchEngine ---------------------------
(***************************************************************************)
(* The frequency-driven dispatch engine (dispatch/engine.rs) with the      *)
(* adapters it fans out to: the gRPC client of the edge controllers, the   *)
(* OpenADR business-logic client and the IEEE 2030.5 simulation.           *)
(*                                                                         *)
(* One task (main.rs, "Dispatch Engine Kafka listener") takes grid-status  *)
(* messages one at a time and awaits evaluate_and_dispatch, which runs the *)
(* eligible adapters concurrently and joins them.  A message carries any   *)
(* frequency: a lost, repeated or late message is one more behaviour.      *)
(*                                                                         *)
(* Instants are kept as ages that stop growing at the cooldown, the only   *)
(* value elapsed() is compared with, so behaviours are unbounded in time.  *)
(***************************************************************************)
EXTENDS Naturals, Sequences, FiniteSets, Functions

CONSTANTS
    Frequency,      \* what a grid-status message can carry
    LowHz, HighHz,  \* DISPATCH_FREQ_LOW_HZ, DISPATCH_FREQ_HIGH_HZ
    Cooldown,       \* DISPATCH_COOLDOWN_SECS, in ticks
    Retries,        \* tries of one gRPC dispatch
    Csv, Legacy,    \* possible DISPATCH_ADAPTERS and DISPATCH_ADAPTER values
    MaxProgram,     \* ids programs of the VTN can have
    None

ASSUME EngineAssumption ==
    /\ Frequency \subseteq Nat /\ LowHz \in Nat /\ HighHz \in Nat /\ LowHz <= HighHz
    /\ Cooldown \in Nat /\ Retries \in Nat \ {0}
    /\ Csv \subseteq Seq(STRING) /\ Legacy \subseteq Seq(STRING)
    /\ MaxProgram \in Nat \ {0}
    /\ None \notin Nat

Action == {"FLEX_UP", "FLEX_DOWN"}
Adapter == {"grpc", "ieee", "openleadr"}
DispatchKey == Action \X Adapter

VARIABLES
    active,         \* active_adapters, a sequence without repetition
    configured,     \* OPENLEADR_PROGRAM_ID; 0 when it is not set or not used
    last_dispatch,  \* DispatchKey -> age of the recorded dispatch, or None
    capacity,       \* some completed window carries generation
    handling,       \* action of the message being evaluated, or None
    task,           \* Adapter -> its JoinSet task
    program,        \* OpenLeadrAdapter.program: the cached handle, 0 = None
    vtn_program,            \* id of the program on the VTN, 0 when there is none
    heard,          \* action the latest message called for, or None
    acted           \* DispatchKey -> age of the latest dispatch an adapter confirmed

vars == <<active, configured, last_dispatch, capacity, handling, task, program, vtn_program,
          heard, acted>>

Idle == [st |-> "idle", left |-> 0]
Age == 0 .. Cooldown

-----------------------------------------------------------------------------
(* Construction: the registered adapters and the configured fan-out.       *)

\* DispatchEngine::default_adapter_name
default_adapter_name(adapters) == IF "openleadr" \in adapters THEN "openleadr" ELSE "ieee"

\* Fault: repeated names are kept and there is no default.
select_adapters_fromKnown(raw, adapters) == SelectSeq(raw, LAMBDA n : n \in adapters)

\* DispatchEngine::select_adapters_from: unknown names are skipped, repeated
\* ones kept once, and an empty result becomes the default.
select_adapters_from(raw, adapters) ==
    LET selected[n \in 0 .. Len(raw)] ==
            IF n = 0 THEN <<>>
            ELSE IF raw[n] \in adapters \ Range(selected[n - 1]) THEN Append(selected[n - 1], raw[n])
            ELSE selected[n - 1]
        all == selected[Len(raw)]
    IN IF all = <<>> THEN <<default_adapter_name(adapters)>> ELSE all

\* DispatchEngine::select_adapters: an empty DISPATCH_ADAPTERS falls back to
\* DISPATCH_ADAPTER.
select_adapters(csv, legacy, adapters) ==
    select_adapters_from(IF csv # <<>> THEN csv ELSE legacy, adapters)

\* DispatchEngine::new: gRPC and IEEE are always registered, OpenADR when its
\* environment is complete and valid.
Registered == {{"grpc", "ieee"}, {"grpc", "ieee", "openleadr"}}

Init ==
    /\ \E csv \in Csv, legacy \in Legacy, adapters \in Registered :
          active = select_adapters(csv, legacy, adapters)
    /\ configured \in {0, 1} /\ ("openleadr" \notin Range(active) => configured = 0)
    /\ last_dispatch = [k \in DispatchKey |-> None]
    /\ capacity \in BOOLEAN
    /\ handling = None
    /\ task = [a \in Adapter |-> Idle]
    /\ program = 0
    /\ vtn_program \in {0, 1}
    /\ heard = None
    /\ acted = [k \in DispatchKey |-> None]

-----------------------------------------------------------------------------
(* evaluate_and_dispatch                                                   *)

Called(frequency) ==
    IF frequency < LowHz THEN "FLEX_UP"
    ELSE IF frequency > HighHz THEN "FLEX_DOWN" ELSE None

\* cooldown_allows(last_dispatch_of(action, adapter), cooldown)
cooldown_allows(k) == last_dispatch[k] # None => last_dispatch[k] >= Cooldown

Eligible(action) == {a \in Range(active) : cooldown_allows(<<action, a>>)}

\* A grid-status message: a stable frequency, a fan-out with every target in
\* its cooldown and a fleet without capacity all return before any dispatch.
Evaluate(frequency) ==
    LET action == Called(frequency)
        eligible == IF action = None THEN {} ELSE Eligible(action)
    IN /\ handling = None
       /\ heard' = action
       /\ IF eligible = {} \/ ~capacity
          THEN UNCHANGED <<handling, task>>
          ELSE /\ handling' = action
               /\ task' = [a \in Adapter |->
                             IF a \in eligible
                             THEN [st |-> "running", left |-> IF a = "grpc" THEN Retries ELSE 1]
                             ELSE Idle]
       /\ UNCHANGED <<active, configured, last_dispatch, capacity, program, vtn_program, acted>>

\* An adapter's call returns: result "ok" or "err".  The tasks run
\* concurrently, so completions come in any order.
Complete(a, result) ==
    LET k == <<handling, a>>
    IN /\ task' = [task EXCEPT ![a] = [st |-> result, left |-> 0]]
       /\ acted' = IF result = "ok" THEN [acted EXCEPT ![k] = 0] ELSE acted

\* Ieee2030_5Adapter::execute_dispatch logs the DER control and succeeds.
ExecuteIeee ==
    /\ task["ieee"].st = "running"
    /\ Complete("ieee", "ok")
    /\ UNCHANGED <<active, configured, last_dispatch, capacity, handling, program, vtn_program, heard>>

\* DispatchClient::execute_dispatch: an answer ends the call, success or not;
\* a transport error (the controller may have acted) is tried again after a
\* pause until the tries are used up.
ExecuteGrpc(answer) ==
    LET left == task["grpc"].left
    IN /\ task["grpc"].st = "running"
       /\ IF answer = "transport_error" /\ left > 1
          THEN /\ task' = [task EXCEPT !["grpc"] = [st |-> "running", left |-> left - 1]]
               /\ UNCHANGED acted
          ELSE Complete("grpc", IF answer = "success" THEN "ok" ELSE "err")
       /\ UNCHANGED <<active, configured, last_dispatch, capacity, handling, program, vtn_program, heard>>

\* OpenLeadrAdapter::resolve_program: a configured program is looked up by its
\* id, and that is all; otherwise the program is looked up by name and created
\* when the VTN has none.  Any request can fail.  The caller holds the cache's
\* lock until the event is created.
resolve_program ==
    /\ task["openleadr"].st = "running"
    /\ program = 0
    /\ \/ /\ vtn_program # 0 /\ configured \in {0, vtn_program}
          /\ program' = vtn_program
          /\ UNCHANGED <<vtn_program, task, acted>>
       \/ /\ configured = 0 /\ vtn_program = 0
          /\ vtn_program' = 1 /\ program' = 1
          /\ UNCHANGED <<task, acted>>
       \/ /\ Complete("openleadr", "err")
          /\ UNCHANGED <<program, vtn_program>>
    /\ UNCHANGED <<active, configured, last_dispatch, capacity, handling, heard>>

\* Fault: the program handle is kept after a failure.
create_eventKeep(answer) ==
    LET created == program = vtn_program /\ answer = "success"
    IN /\ task["openleadr"].st = "running"
       /\ program # 0
       /\ program' = program
       /\ Complete("openleadr", IF created THEN "ok" ELSE "err")
       /\ UNCHANGED <<active, configured, last_dispatch, capacity, handling, vtn_program, heard>>

\* OpenLeadrAdapter::dispatch_event: create_event fails against a program the
\* VTN no longer has, and may fail against one it has; either way the cached
\* handle is dropped.
create_event(answer) ==
    LET created == program = vtn_program /\ answer = "success"
    IN /\ task["openleadr"].st = "running"
       /\ program # 0
       /\ program' = IF created THEN program ELSE 0
       /\ Complete("openleadr", IF created THEN "ok" ELSE "err")
       /\ UNCHANGED <<active, configured, last_dispatch, capacity, handling, vtn_program, heard>>

\* Fault: one entry per adapter, so the other action's is lost.
record_dispatchLatestOnly(k) ==
    [j \in DispatchKey |-> IF j = k THEN 0 ELSE IF j[2] = k[2] THEN None ELSE last_dispatch[j]]

\* record_dispatch: the entry of this action and adapter is replaced.
record_dispatch(k) == [last_dispatch EXCEPT ![k] = 0]

\* Fault: a failed dispatch is recorded too.
JoinRecordAlways(a) ==
    /\ task[a].st \in {"ok", "err"}
    /\ last_dispatch' = record_dispatch(<<handling, a>>)
    /\ task' = [task EXCEPT ![a] = Idle]
    /\ handling' = IF \A b \in Adapter \ {a} : task[b] = Idle THEN None ELSE handling
    /\ UNCHANGED <<active, configured, capacity, program, vtn_program, heard, acted>>

\* tasks.join_next(): only a success is recorded.  When the last task is
\* joined the message is done; all failed is an error that is only logged.
Join(a) ==
    /\ task[a].st \in {"ok", "err"}
    /\ last_dispatch' = IF task[a].st = "ok" THEN record_dispatch(<<handling, a>>)
                        ELSE last_dispatch
    /\ task' = [task EXCEPT ![a] = Idle]
    /\ handling' = IF \A b \in Adapter \ {a} : task[b] = Idle THEN None ELSE handling
    /\ UNCHANGED <<active, configured, capacity, program, vtn_program, heard, acted>>

-----------------------------------------------------------------------------
(* The surroundings.                                                       *)

OneTickOlder(age) == IF age = None \/ age = Cooldown THEN age ELSE age + 1

Tick ==
    /\ last_dispatch' = [k \in DispatchKey |-> OneTickOlder(last_dispatch[k])]
    /\ acted' = [k \in DispatchKey |-> OneTickOlder(acted[k])]
    /\ UNCHANGED <<active, configured, capacity, handling, task, program, vtn_program, heard>>

\* has_dispatch_capacity over the shared aggregator: windows complete and are
\* drained (module Aggregator).
CapacityChanges ==
    /\ handling = None
    /\ capacity' = ~capacity
    /\ UNCHANGED <<active, configured, last_dispatch, handling, task, program, vtn_program, heard, acted>>

\* External: the VTN's operator deletes, creates or recreates the program;
\* a recreated program has an id no handle has.  When the id is configured,
\* programs of other ids do not matter.
ProgramReplaced ==
    /\ vtn_program' \in (IF configured = 0 THEN 0 .. MaxProgram ELSE {0, configured})
                        \ {vtn_program, program}
    /\ UNCHANGED <<active, configured, last_dispatch, capacity, handling, task, program, heard, acted>>

\* A process restart: cooldowns and the program handle live in memory only.
\* The ghosts describe one process life.
Restart ==
    /\ last_dispatch' = [k \in DispatchKey |-> None]
    /\ acted' = [k \in DispatchKey |-> None]
    /\ handling' = None
    /\ task' = [a \in Adapter |-> Idle]
    /\ program' = 0
    /\ heard' = None
    /\ UNCHANGED <<active, configured, capacity, vtn_program>>

AdapterStep ==
    \/ ExecuteIeee
    \/ \E answer \in {"success", "refused", "transport_error"} : ExecuteGrpc(answer)
    \/ resolve_program
    \/ \E answer \in {"success", "error"} : create_event(answer)

Next ==
    \/ \E f \in Frequency : Evaluate(f)
    \/ AdapterStep
    \/ \E a \in Adapter : Join(a)
    \/ Tick
    \/ CapacityChanges
    \/ ProgramReplaced
    \/ Restart

Spec == Init /\ [][Next]_vars

\* Messages keep arriving (the publisher's ticker), tasks are polled, time
\* passes, and an endpoint that is tried forever answers in the end.
Fairness ==
    /\ WF_vars(\E f \in Frequency : Evaluate(f))
    /\ WF_vars(AdapterStep \/ \E a \in Adapter : Join(a))
    /\ WF_vars(Tick)
    /\ SF_vars(ExecuteGrpc("success"))
    /\ SF_vars(resolve_program /\ program' # 0)
    /\ SF_vars(create_event("success") /\ program = vtn_program)

-----------------------------------------------------------------------------
(* Properties.                                                             *)

\* Ages, tasks and handles are in range; the fan-out is never empty, repeats
\* no adapter, and a task runs only while its message is handled.
EngineTypeOK ==
    /\ active # <<>> /\ Range(active) \subseteq Adapter
    /\ Cardinality(Range(active)) = Len(active)
    /\ last_dispatch \in [DispatchKey -> Age \cup {None}]
    /\ acted \in [DispatchKey -> Age \cup {None}]
    /\ capacity \in BOOLEAN
    /\ handling \in Action \cup {None} /\ heard \in Action \cup {None}
    /\ task \in [Adapter -> [st : {"idle", "running", "ok", "err"}, left : 0 .. Retries]]
    /\ handling = None <=> \A a \in Adapter : task[a] = Idle
    /\ {configured, program, vtn_program} \subseteq 0 .. MaxProgram

\* The cooldown as the adapters see it: in one process life no adapter
\* confirms the same action twice within the cooldown, however the frequency
\* oscillates (cooldown_allows, "an oscillating frequency cannot reset the
\* timer by alternating FLEX_UP/FLEX_DOWN").
CooldownHeld ==
    [][\A a \in Adapter :
          task[a].st = "running" /\ task'[a].st = "ok"
          => acted[<<handling, a>>] \in {None, Cooldown}]_vars

\* "A failed dispatch must retry on the next grid-status message, not sit out
\* the cooldown": a message passes over a configured adapter, while the fleet
\* has capacity, only when that adapter confirmed this action in this process
\* life; failures of it or of the others, and dispatches of the other action,
\* never suppress it.
FailedRetriesAtOnce ==
    [][\A f \in Frequency, a \in Adapter :
          Evaluate(f) /\ capacity /\ Called(f) # None /\ a \in Range(active)
          => task'[a].st = "running" \/ acted[<<Called(f), a>>] # None]_vars

\* While the grid stays below the band and the fleet has capacity, every
\* configured adapter is dispatched to again and again: one adapter's failures,
\* a stale program handle or another adapter's cooldown never end it
\* (evaluate_and_dispatch, dispatch_event's "failing forever against a stale
\* handle").  With OPENLEADR_PROGRAM_ID set, resolve_program neither looks the
\* program up by name nor creates it, so OpenADR is promised only if from some
\* time on the VTN has that id; without it, every dispatch there fails.
ExcursionKeepsActing ==
    <>[](heard = "FLEX_UP" /\ capacity)
       => \A a \in Adapter :
             []<>(\/ a \notin Range(active)
                  \/ acted[<<"FLEX_UP", a>>] = 0
                  \/ a = "openleadr" /\ configured \notin {0, vtn_program})
=============================================================================
