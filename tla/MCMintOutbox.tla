---------------------------- MODULE MCMintOutbox ----------------------------
(* Small instances of MintOutbox for TLC. *)
EXTENDS MintOutbox, TLC

\* Fields are interchangeable, and so are slots: no action or safety property
\* orders them.
Symmetry == Permutations(Field) \cup Permutations(Slot)

-----------------------------------------------------------------------------
\* The sink has enqueued and evicted every field, its last sweep is over, and
\* the immediate attempts of some of them are still to run, two of a window that
\* was settled again; the others were enqueued by an earlier process.
BacklogInit ==
    /\ att \in [Who -> [Field -> {"none", "queued"}]]
    /\ \A f \in Field : att["drain"][f] = "none"
    /\ outbox = [f \in Field |-> 0] /\ promised = Field
    /\ mem = {} /\ settled = Field /\ writes = {} /\ store = {}
    /\ spc = "idle" /\ scur = {} /\ todo = {} /\ handoff = "Enqueued"
    /\ dpc = "idle" /\ dcur = {} /\ toPark = {} /\ toMint = {}
    /\ chunks = {} /\ running = {}
    /\ inflight = {} /\ permits = Permits
    /\ parked = {}
    /\ row = [f \in Field |-> "pending"]
    /\ wire = {} /\ minted = {}

BacklogNext ==
    \/ \E s \in Slot, f \in Field : Spawned(s, f)
    \/ \E w \in Who, f \in Field : Remove(w, f)
    \/ Drain
    \/ \E b \in chunks : Batch(b)
    \/ \E f \in Field : Land(f) \/ Reject(f)
    \/ Tick

BacklogSpec == BacklogInit /\ [][BacklogNext]_vars

-----------------------------------------------------------------------------
\* A process starts with an outbox entry and the durable bin it came from (the
\* one before stopped between enqueue and eviction); no reading arrives.
RestartInit ==
    /\ ProcessInit
    /\ outbox = [f \in Field |-> 0] /\ promised = Field
    /\ store = Field /\ mem = Field
    /\ parked = {}
    /\ row = [f \in Field |-> "pending"]
    /\ wire = {} /\ minted = {}

RestartNext == BacklogNext \/ Sink \/ Crash

RestartSpec == RestartInit /\ [][RestartNext]_vars /\ Fairness
====
