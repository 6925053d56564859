----------------------------- MODULE MCDispatch -----------------------------
(***************************************************************************)
(* The dispatch engine and the VEN listener for TLC.  The two tasks share  *)
(* no state, so a behaviour runs one of them: the state space is the sum   *)
(* of the two and not their product.                                       *)
(***************************************************************************)
EXTENDS DispatchEngine, OpenLeadrVen

VARIABLE part   \* "engine" or "ven", the task of this behaviour

\* DISPATCH_ADAPTERS and DISPATCH_ADAPTER values: unset, a fan-out with an
\* unknown and a repeated name, and the single adapter of older deployments.
Csvs == {<<>>, <<"grpc", "modbus", "openleadr", "grpc">>}
Legacies == {<<>>, <<"ieee">>}

At(i, start, duration) ==
    [id |-> i, setpoint |-> 5, period |-> [start |-> start, duration |-> duration]]
Asap(i, setpoint) == [id |-> i, setpoint |-> setpoint, period |-> Nil]

\* Two windows one after the other, the first from the event's default period;
\* two unscheduled setpoints; an event without any setpoint.
Contents ==
    { [period |-> [start |-> 0, duration |-> Nil], duration |-> 1,
       intervals |-> <<Asap(1, 5), At(2, 1, 1)>>],
      [period |-> Nil, duration |-> Nil, intervals |-> <<Asap(1, 5), Asap(2, -5)>>],
      [period |-> Nil, duration |-> Nil, intervals |-> <<Asap(1, Nil)>>] }

Engine(A) == part = "engine" /\ A /\ UNCHANGED <<part, venvars>>
Ven(A) == part = "ven" /\ A /\ UNCHANGED <<part, vars>>
all == <<part, vars, venvars>>

\* A configured program id is tried with OpenADR as the only adapter, which is
\* all it concerns.
MCInit ==
    /\ part \in {"engine", "ven"}
    /\ VenInit
    /\ Init
    /\ part = "ven" => active = <<"ieee">> /\ capacity /\ vtn_program = 0
    /\ part = "engine" => vtn = [e \in Event |-> Nil]
    /\ configured # 0 => active = <<"openleadr">>

MCNext == Engine(Next) \/ Ven(VenNext)

MCFairness ==
    /\ WF_all(Engine(\E f \in Frequency : Evaluate(f)))
    /\ WF_all(Engine(AdapterStep \/ \E a \in Adapter : Join(a)))
    /\ WF_all(Engine(Tick))
    /\ SF_all(Engine(ExecuteGrpc("success")))
    /\ SF_all(Engine(resolve_program /\ program' # 0))
    /\ SF_all(Engine(create_event("success") /\ program = vtn_program))
    /\ SF_all(Ven((\E loads \in BOOLEAN : PollBegin(loads, {})) /\ poll' # Nil))
    /\ WF_all(Ven((\E e \in Event : PollSkip(e)) \/ Remember \/ PollEnd))
    /\ \A e \in Event : SF_all(Ven(DispatchOk(e)))

MCSpec == MCInit /\ [][MCNext]_all /\ MCFairness

\* The shapes of both parts.
TypeOK == EngineTypeOK /\ VenTypeOK
=============================================================================
