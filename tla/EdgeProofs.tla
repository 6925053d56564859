----------------------------- MODULE EdgeProofs -----------------------------
(***************************************************************************)
(* The edges of the bridge.  Where requests enter: the verdicts on API     *)
(* keys, for any keys, requests, lifetimes and thresholds, and one stream  *)
(* key for the fleet.  Where dispatches leave: the cooldown of the engine, *)
(* for every cooldown, band, number of tries and configured fan-out.       *)
(* Where records leave: StoreForward loses nothing and implements Delivery.*)
(***************************************************************************)
EXTENDS ApiKeyAuth, StreamKey, DispatchEngine, StoreForward, TLAPS

RequestState == [pc : {"free", "iam", "wait", "decide", "allowed", "denied"}, key : Key \cup {NoKey},
                 verdict : {NoKey, "Authorized", "Rejected", "Unavailable"}, age : Nat]

\* Ages and remaining lifetimes are numbers, and what IAM says now is of age 0.
AuthShape ==
    /\ static \subseteq Key /\ client \in BOOLEAN /\ iam \in [Key -> BOOLEAN]
    /\ verdicts \in [Key -> [left : Nat, valid : BOOLEAN] \cup {NoKey}]
    /\ request \in [Request -> RequestState]
    /\ {accepted, refused, down} \subseteq [Key -> 0 .. Long]
    /\ \A k \in Key : IF iam[k] THEN accepted[k] = 0 ELSE refused[k] = 0

\* A cached acceptance is, with what is left of it, no older than its lifetime
\* and a call to IAM; the same for a refusal.
VerdictsDated ==
    \A k \in Key : cache_lookup(k) =>
        IF verdicts[k].valid
        THEN \/ accepted[k] + verdicts[k].left <= PosTtl + IamFlight
             \/ k \in static /\ down[k] + verdicts[k].left <= PosTtl + IamFlight
        ELSE refused[k] + verdicts[k].left <= NegTtl + IamFlight

\* The answer a request has in hand is as old as the request says, or younger.
AnswerDated(q) ==
    /\ q.pc \in {"iam", "wait", "decide"} => q.key \in Key /\ q.age <= IamFlight
    /\ q.pc \in {"free", "iam"} => q.age = 0
    /\ q.pc \in {"wait", "decide"} =>
         /\ q.verdict \in {"Authorized", "Rejected", "Unavailable"}
         /\ q.verdict = "Authorized" => accepted[q.key] <= q.age
         /\ q.verdict = "Rejected" => refused[q.key] <= q.age
         /\ q.verdict = "Unavailable" => down[q.key] <= q.age
    /\ q.pc = "allowed" => q.key \in Key

AnswersDated == \A r \in Request : AnswerDated(request[r])

AuthInv == AuthShape /\ VerdictsDated /\ AnswersDated /\ KeysJudgedForAReason

-----------------------------------------------------------------------------
\* The bounds of the ages, without the choice of a maximum or minimum.
LEMMA LongBounds == Long \in Nat /\ PosTtl + IamFlight < Long /\ NegTtl + IamFlight < Long
<1>1. PICK x : x = IF PosTtl >= NegTtl THEN PosTtl ELSE NegTtl
    OBVIOUS
<1>2. x \in {PosTtl, NegTtl} /\ (\A y \in {PosTtl, NegTtl} : x >= y)
    BY <1>1, AuthAssumption
<1>3. \A z \in {PosTtl, NegTtl} : (\A y \in {PosTtl, NegTtl} : z >= y) => z = x
    BY <1>2, AuthAssumption
<1>4. Max({PosTtl, NegTtl}) = x
    BY <1>2, <1>3, Zenon DEF Max
<1> QED
    BY <1>2, <1>4, AuthAssumption DEF Long

LEMMA OlderIsOlder ==
    ASSUME NEW a \in 0 .. Long
    PROVE  Older(a) = IF a < Long THEN a + 1 ELSE Long
<1>1. PICK x : x = IF a < Long THEN a + 1 ELSE Long
    OBVIOUS
<1>2. x \in {a + 1, Long} /\ \A y \in {a + 1, Long} : x <= y
    BY <1>1, LongBounds
<1>3. \A z \in {a + 1, Long} : (\A y \in {a + 1, Long} : z <= y) => z = x
    BY <1>2, LongBounds
<1> QED
    BY <1>1, <1>2, <1>3, Zenon DEF Older, Min

LEMMA AuthInitInv == AuthInit => AuthInv
<1> SUFFICES ASSUME AuthInit PROVE AuthInv
    OBVIOUS
<1>1. AuthShape
    BY LongBounds, AuthAssumption DEF AuthInit, AuthShape, Free, RequestState
<1>2. VerdictsDated
    BY DEF AuthInit, VerdictsDated, cache_lookup
<1>3. AnswersDated /\ KeysJudgedForAReason
    BY DEF AuthInit, Free, AnswersDated, AnswerDated, KeysJudgedForAReason, AllowedForAReason, DeniedForAReason
<1> QED
    BY <1>1, <1>2, <1>3 DEF AuthInv

\* Each step preserves the inductive invariant.
LEMMA AuthStepInv == AuthInv /\ [AuthNext]_authvars => AuthInv'
<1> SUFFICES ASSUME AuthInv, [AuthNext]_authvars PROVE AuthInv'
    OBVIOUS
<1> USE AuthAssumption, LongBounds
<1>1. ASSUME NEW r \in Request, NEW k \in Key \cup {NoKey}, Arrive(r, k) PROVE AuthInv'
    <2>1. AuthShape'
        BY <1>1, Zenon DEF Arrive, Free, AuthInv, AuthShape, RequestState
    <2>2. VerdictsDated'
        BY <1>1 DEF Arrive, AuthInv, AuthShape, VerdictsDated, cache_lookup
    <2>3. AnswersDated'
        BY <1>1 DEF Arrive, Free, AuthInv, AuthShape, RequestState, AnswersDated, AnswerDated
    <2>4. KeysJudgedForAReason'
        BY <1>1 DEF Arrive, Free, AuthInv, AuthShape, RequestState, VerdictsDated, cache_lookup,
                    KeysJudgedForAReason, AllowedForAReason, DeniedForAReason, Within
    <2> QED
        BY <2>1, <2>2, <2>3, <2>4 DEF AuthInv
<1>2. ASSUME NEW r \in Request, NEW reached \in BOOLEAN, AskIam(r, reached) PROVE AuthInv'
    <2>a. /\ request \in [Request -> RequestState] /\ request[r].key \in Key /\ request[r].age = 0
          /\ iam[request[r].key] \in BOOLEAN
        BY <1>2 DEF AskIam, AuthInv, AuthShape, AnswersDated, AnswerDated
    <2>b. PICK pc \in {"wait", "decide"}, v \in {"Unavailable", "Authorized", "Rejected"} :
             /\ request' = [request EXCEPT ![r].pc = pc, ![r].verdict = v]
             /\ v = "Authorized" => iam[request[r].key]
             /\ v = "Rejected" => ~iam[request[r].key]
             /\ down' = IF v = "Unavailable" THEN [down EXCEPT ![request[r].key] = 0] ELSE down
        BY <1>2, <2>a, Zenon DEF AskIam
    <2>c. /\ request' \in [Request -> RequestState] /\ \A t \in Request \ {r} : request'[t] = request[t]
          /\ request'[r].pc = pc /\ request'[r].verdict = v
          /\ request'[r].key = request[r].key /\ request'[r].age = 0
        BY <2>a, <2>b, ZenonT(60) DEF RequestState
    <2>d. down' \in [Key -> 0 .. Long] /\ \A k \in Key : down'[k] <= down[k]
        BY <2>a, <2>b DEF AuthInv, AuthShape
    <2>1. AuthShape'
        BY <1>2, <2>c, <2>d DEF AskIam, AuthInv, AuthShape
    <2>2. VerdictsDated'
        BY <1>2 DEF AskIam, AuthInv, AuthShape, VerdictsDated, cache_lookup
    <2>3. AnswersDated'
        <3>1. /\ v = "Authorized" => accepted[request[r].key] = 0
              /\ v = "Rejected" => refused[request[r].key] = 0
              /\ v = "Unavailable" => down'[request[r].key] = 0
            BY <2>a, <2>b DEF AuthInv, AuthShape
        <3>2. v \in {"Authorized", "Rejected", "Unavailable"}
            BY <2>b
        <3>3. accepted' = accepted /\ refused' = refused /\ 0 <= IamFlight
            BY <1>2, AuthAssumption DEF AskIam
        <3>4. AnswerDated(request[r])'
            BY <2>a, <2>c, <3>1, <3>2, <3>3 DEF AnswerDated
        <3>5. ASSUME NEW t \in Request \ {r} PROVE AnswerDated(request[t])'
            <4>1. AnswerDated(request[t]) /\ request'[t] = request[t]
                BY <2>c DEF AuthInv, AnswersDated
            <4>2. request[t].age \in Nat /\ down \in [Key -> 0 .. Long]
                BY <2>a, ZenonT(60) DEF RequestState, AuthInv, AuthShape
            <4> QED
                BY <2>d, <3>3, <4>1, <4>2 DEF AnswerDated
        <3> QED
            BY <3>4, <3>5, Zenon DEF AnswersDated
    <2>4. KeysJudgedForAReason'
        BY <1>2 DEF AskIam, AuthInv, AuthShape, RequestState, AnswersDated, AnswerDated,
                    KeysJudgedForAReason, AllowedForAReason, DeniedForAReason, Within
    <2> QED
        BY <2>1, <2>2, <2>3, <2>4 DEF AuthInv
<1>3. ASSUME NEW r \in Request, Answer(r) PROVE AuthInv'
    <2>1. AuthShape'
        BY <1>3, ZenonT(60) DEF Answer, AuthInv, AuthShape, RequestState
    <2>2. VerdictsDated'
        BY <1>3 DEF Answer, AuthInv, VerdictsDated, cache_lookup
    <2>3. AnswersDated'
        BY <1>3 DEF Answer, AuthInv, AuthShape, RequestState, AnswersDated, AnswerDated
    <2>4. KeysJudgedForAReason'
        BY <1>3, SMTT(60) DEF Answer, AuthInv, AuthShape, RequestState,
                    KeysJudgedForAReason, AllowedForAReason, DeniedForAReason, Within
    <2> QED
        BY <2>1, <2>2, <2>3, <2>4 DEF AuthInv
<1>4. ASSUME NEW r \in Request, Decide(r) PROVE AuthInv'
    <2>1. AuthShape'
        BY <1>4 DEF Decide, cache_store, AuthInv, AuthShape, RequestState, AnswersDated, AnswerDated
    <2>2. VerdictsDated'
        <3> DEFINE k == request[r].key
        <3>1. k \in Key /\ request[r].age <= IamFlight /\ request[r].age \in Nat
            BY <1>4 DEF Decide, AuthInv, AuthShape, RequestState, AnswersDated, AnswerDated
        <3>2. /\ accepted[k] \in Nat /\ refused[k] \in Nat /\ down[k] \in Nat
              /\ UNCHANGED <<static, accepted, refused, down>>
            BY <1>4, <3>1 DEF Decide, AuthInv, AuthShape
        <3>3. /\ request[r].verdict \in {"Authorized", "Rejected", "Unavailable"}
              /\ request[r].verdict = "Authorized" => accepted[k] <= request[r].age
              /\ request[r].verdict = "Rejected" => refused[k] <= request[r].age
              /\ request[r].verdict = "Unavailable" => down[k] <= request[r].age
            BY <1>4 DEF Decide, AuthInv, AnswersDated, AnswerDated
        <3>4. ASSUME NEW j \in Key, j # k, cache_lookup(j)'
              PROVE  cache_lookup(j) /\ verdicts'[j] = verdicts[j]
            BY <1>4, <3>4, SMTT(60) DEF Decide, cache_store, cache_lookup, AuthInv, AuthShape
        <3>5. CASE request[r].verdict = "Authorized"
            <4>1. verdicts'[k] = [left |-> PosTtl, valid |-> TRUE]
                BY <1>4, <3>1, <3>5, Zenon DEF Decide, cache_store, post_iam_action
            <4> QED
                BY <3>1, <3>2, <3>3, <3>4, <3>5, <4>1 DEF AuthInv, VerdictsDated
        <3>6. CASE request[r].verdict = "Rejected"
            <4>1. verdicts'[k] = [left |-> NegTtl, valid |-> FALSE]
                BY <1>4, <3>1, <3>6, Zenon DEF Decide, cache_store, post_iam_action
            <4> QED
                BY <3>1, <3>2, <3>3, <3>4, <3>6, <4>1 DEF AuthInv, VerdictsDated
        <3>7. CASE request[r].verdict = "Unavailable"
            <4>1. IF k \in static THEN verdicts'[k] = [left |-> PosTtl, valid |-> TRUE] ELSE verdicts' = verdicts
                BY <1>4, <3>1, <3>7, Zenon DEF Decide, cache_store, post_iam_action
            <4> QED
                BY <3>1, <3>2, <3>3, <3>4, <3>7, <4>1 DEF AuthInv, VerdictsDated, cache_lookup
        <3> QED
            BY <3>3, <3>5, <3>6, <3>7
    <2>3. AnswersDated'
        BY <1>4, ZenonT(60) DEF Decide, AuthInv, AuthShape, RequestState, AnswersDated, AnswerDated
    <2>4. KeysJudgedForAReason'
        BY <1>4 DEF Decide, post_iam_action, AuthInv, AuthShape, RequestState, AnswersDated, AnswerDated,
                    KeysJudgedForAReason, AllowedForAReason, DeniedForAReason, Within
    <2> QED
        BY <2>1, <2>2, <2>3, <2>4 DEF AuthInv
<1>5. ASSUME NEW r \in Request, Finish(r) PROVE AuthInv'
    <2>1. AuthShape' /\ VerdictsDated'
        BY <1>5, SMTT(60) DEF Finish, Free, AuthInv, AuthShape, RequestState, VerdictsDated, cache_lookup
    <2>2. AnswersDated'
        BY <1>5, SMTT(60) DEF Finish, Free, AuthInv, AuthShape, RequestState, AnswersDated, AnswerDated
    <2>3. KeysJudgedForAReason'
        BY <1>5 DEF Finish, Free, AuthInv, AuthShape, RequestState,
                    KeysJudgedForAReason, AllowedForAReason, DeniedForAReason, Within
    <2> QED
        BY <2>1, <2>2, <2>3, SMTT(60) DEF AuthInv
<1>6. ASSUME NEW k \in Key, Flip(k) PROVE AuthInv'
    <2>1. AuthShape' /\ \A j \in Key : accepted'[j] <= accepted[j] /\ refused'[j] <= refused[j]
        BY <1>6 DEF Flip, AuthInv, AuthShape
    <2>2. VerdictsDated'
        BY <1>6, <2>1, SMTT(60) DEF Flip, AuthInv, AuthShape, VerdictsDated, cache_lookup
    <2>3. AnswersDated'
        BY <1>6, <2>1, SMTT(60) DEF Flip, AuthInv, AuthShape, RequestState, AnswersDated, AnswerDated
    <2>4. KeysJudgedForAReason'
        BY <1>6, <2>1 DEF Flip, AuthInv, AuthShape, RequestState, AnswersDated, AnswerDated,
                    KeysJudgedForAReason, AllowedForAReason, DeniedForAReason, Within
    <2> QED
        BY <2>1, <2>2, <2>3, <2>4 DEF AuthInv
<1>7. CASE Pass
    <2>1. /\ \A k \in Key : accepted'[k] \in 0 .. Long /\ accepted'[k] <= accepted[k] + 1
          /\ \A k \in Key : refused'[k] \in 0 .. Long /\ refused'[k] <= refused[k] + 1
          /\ \A k \in Key : down'[k] \in 0 .. Long /\ down'[k] <= down[k] + 1
        BY <1>7, OlderIsOlder, SMTT(60) DEF Pass, AuthInv, AuthShape
    <2>2. AuthShape'
        <3>1. request' \in [Request -> RequestState]
            <4>1. request \in [Request -> RequestState]
                BY DEF AuthInv, AuthShape
            <4>2. \A q \in RequestState : [q EXCEPT !.age = @ + 1] \in RequestState
                BY DEF RequestState
            <4>3. request' = [t \in Request |-> IF request[t].pc = "free" THEN request[t]
                                              ELSE [request[t] EXCEPT !.age = @ + 1]]
                BY <1>7 DEF Pass
            <4> QED
                BY <4>1, <4>2, <4>3
        <3>2. verdicts' \in [Key -> [left : Nat, valid : BOOLEAN] \cup {NoKey}]
            BY <1>7 DEF Pass, AuthInv, AuthShape, cache_lookup
        <3>3. {accepted', refused', down'} \subseteq [Key -> 0 .. Long]
            BY <1>7, <2>1, ZenonT(60) DEF Pass
        <3> QED
            BY <1>7, <3>1, <3>2, <3>3 DEF Pass, AuthInv, AuthShape
    <2>3. VerdictsDated'
        BY <1>7, <2>1, SMTT(60) DEF Pass, AuthInv, AuthShape, VerdictsDated, cache_lookup
    <2>4. AnswersDated'
        BY <1>7, <2>1 DEF Pass, AuthInv, AuthShape, RequestState, AnswersDated, AnswerDated
    <2>5. KeysJudgedForAReason'
        <3>1. ASSUME NEW t \in Request PROVE request'[t].pc \notin {"allowed", "denied"}
            <4>1. request[t] \in RequestState /\ request[t].pc \notin {"allowed", "denied"}
                BY <1>7 DEF Pass, AuthInv, AuthShape
            <4>2. request'[t] = IF request[t].pc = "free" THEN request[t]
                                ELSE [request[t] EXCEPT !.age = @ + 1]
                BY <1>7, ZenonT(60) DEF Pass
            <4> QED
                BY <4>1, <4>2 DEF RequestState
        <3> QED
            BY <3>1 DEF KeysJudgedForAReason, AllowedForAReason, DeniedForAReason
    <2> QED
        BY <2>2, <2>3, <2>4, <2>5 DEF AuthInv
<1>8. CASE UNCHANGED authvars
    BY <1>8 DEF authvars, AuthInv, AuthShape, VerdictsDated, AnswersDated, AnswerDated, cache_lookup,
                KeysJudgedForAReason, AllowedForAReason, DeniedForAReason, Within
<1> QED
    BY <1>1, <1>2, <1>3, <1>4, <1>5, <1>6, <1>7, <1>8 DEF AuthNext

\* A key is let in, or turned away, only for a verdict of IAM that is still
\* within its lifetime, or for an IAM out of reach.
THEOREM VerdictsHaveReasons == AuthSpec => []KeysJudgedForAReason
<1>1. AuthInv => KeysJudgedForAReason
    BY ZenonT(60) DEF AuthInv
<1> QED
    BY AuthInitInv, AuthStepInv, <1>1, PTL DEF AuthSpec

-----------------------------------------------------------------------------
LEMMA SekInitInv == SekInit => SekInv
BY StreamKeyAssumption DEF SekInit, SekInv, Off, At

\* Each step preserves the inductive invariant.
LEMMA SekStepInv == SekInv /\ [SekNext]_sekvars => SekInv'
<1> SUFFICES ASSUME SekInv, [SekNext]_sekvars PROVE SekInv'
    OBVIOUS
<1>1. ASSUME NEW i \in Instance, EnsureKek(i) PROVE SekInv'
    BY <1>1 DEF EnsureKek, Step, At, Off, SekInv
<1>2. ASSUME NEW i \in Instance, ReadBlob(i) PROVE SekInv'
    BY <1>2 DEF ReadBlob, Step, At, Off, SekInv
<1>3. ASSUME NEW i \in Instance, Make(i) PROVE SekInv'
    <2>1. CASE kek = 0
        BY <1>3, <2>1 DEF Make, Step, At, Off, SekInv
    <2>2. CASE kek # 0
        <3>1. boot' = [boot EXCEPT ![i] = [pc |-> "store", sek |-> seks + 1, rotate |-> boot[i].rotate,
                                          read |-> [sek |-> seks + 1, kek |-> kek]]]
              /\ seks' = seks + 1 /\ UNCHANGED <<kek, blob, sealed, losses, faults>>
            BY <1>3, <2>2, ZenonT(60) DEF Make, Step
        <3>2. losses = 0 /\ faults = 0 => kek = 1
            BY <2>2, ZenonT(60) DEF SekInv
        <3>3. boot'[i].pc = "store" /\ boot'[i].sek = seks + 1 /\ boot'[i].rotate = boot[i].rotate
              /\ boot'[i].read = [sek |-> seks + 1, kek |-> kek]
            BY <3>1, ZenonT(60) DEF SekInv
        <3>4. \A j \in Instance \ {i} : boot'[j] = boot[j]
            BY <3>1, ZenonT(60) DEF SekInv
        <3>5. DOMAIN boot' = Instance
            BY <3>1 DEF SekInv
        <3> QED
            BY <3>1, <3>2, <3>3, <3>4, <3>5 DEF SekInv, At
    <2> QED
        BY <2>1, <2>2, ZenonT(60)
<1>4. ASSUME NEW i \in Instance, StoreBlob(i) PROVE SekInv'
    <2>1. losses = 0 /\ faults = 0 => boot[i].read # NoSek /\ boot[i].read.sek = boot[i].sek /\ boot[i].read.kek = 1
        <3> SUFFICES ASSUME losses = 0, faults = 0
                     PROVE boot[i].read # NoSek /\ boot[i].read.sek = boot[i].sek /\ boot[i].read.kek = 1
            OBVIOUS
        <3>1. boot[i].read = [sek |-> boot[i].sek, kek |-> 1] /\ boot[i].sek \in Nat
            BY <1>4 DEF StoreBlob, SekInv
        <3>2. boot[i].read \in [sek : Nat, kek : Nat]
            BY <3>1
        <3> QED
            BY <3>1, <3>2, StreamKeyAssumption
    <2> QED
        BY <1>4, <2>1, ZenonT(30) DEF StoreBlob, Wins, Step, At, Off, SekInv
<1>5. ASSUME NEW i \in Instance, Reread(i) PROVE SekInv'
    BY <1>5 DEF Reread, Step, At, Off, SekInv
<1>6. ASSUME NEW i \in Instance, Seal(i) PROVE SekInv'
    BY <1>6, ZenonT(30) DEF Seal, At, SekInv
<1>7. ASSUME NEW i \in Instance, Stop(i) PROVE SekInv'
    BY <1>7 DEF Stop, Step, At, Off, SekInv
<1>8. ASSUME NEW i \in Instance, NEW works \in BOOLEAN, Unwrap(i, works) PROVE SekInv'
    BY <1>8, SMTT(60) DEF Unwrap, Step, At, Off, SekInv
<1>9. CASE LoseKek
    BY <1>9, SMTT(60) DEF LoseKek, SekInv
<1>10. CASE UNCHANGED sekvars
    BY <1>10 DEF sekvars, At, SekInv
<1> QED
    BY <1>1, <1>2, <1>3, <1>4, <1>5, <1>6, <1>7, <1>8, <1>9, <1>10, ZenonT(60) DEF SekNext

\* While Vault keeps its KEK and answers, every running instance opens every
\* entry ever sealed, and so will the next one to boot.
THEOREM FleetSharesOneKey == SekSpec => []OneKeyFleet
<1>1. SekInv => OneKeyFleet
    BY ZenonT(30) DEF SekInv, OneKeyFleet, At
<1> QED
    BY SekInitInv, SekStepInv, <1>1, PTL DEF SekSpec

-----------------------------------------------------------------------------
(* The cooldown of the dispatch engine. *)

\* A task runs only for a pair whose cooldown is over or never began, and what
\* an adapter confirmed is about to be recorded or is recorded, no older than
\* the confirmation.
CooldownInv ==
    /\ last_dispatch \in [DispatchKey -> Age \cup {None}]
    /\ acted \in [DispatchKey -> Age \cup {None}]
    /\ DOMAIN task = Adapter
    /\ handling \in Action \cup {None}
    /\ handling = None => \A a \in Adapter : task[a].st = "idle"
    /\ \A a \in Adapter :
          task[a].st = "running" => last_dispatch[<<handling, a>>] \in {None, Cooldown}
    /\ \A c \in Action, a \in Adapter :
          acted[<<c, a>>] # None =>
             \/ task[a].st = "ok" /\ handling = c
             \/ /\ last_dispatch[<<c, a>>] # None
                /\ last_dispatch[<<c, a>>] <= acted[<<c, a>>]

LEMMA CooldownInit == Init => CooldownInv
BY EngineAssumption, SMTT(60) DEF Init, CooldownInv, DispatchKey, Idle

\* An adapter that returns: its confirmation is the new acted entry.
LEMMA CompleteInv ==
    ASSUME CooldownInv, NEW a \in Adapter, task[a].st = "running", NEW result \in {"ok", "err"},
           Complete(a, result), UNCHANGED <<last_dispatch, handling>>
    PROVE  CooldownInv'
<1>1. handling \in Action
    BY ZenonT(60) DEF CooldownInv
<1>2. task'[a].st = result /\ DOMAIN task' = Adapter /\ \A b \in Adapter \ {a} : task'[b] = task[b]
    BY ZenonT(60) DEF Complete, CooldownInv
<1>3. acted' \in [DispatchKey -> Age \cup {None}]
    BY <1>1, EngineAssumption DEF Complete, CooldownInv, Age, DispatchKey
<1>4. \A c \in Action, b \in Adapter :
        \/ acted'[<<c, b>>] = acted[<<c, b>>] /\ (result = "err" \/ b # a \/ c # handling)
        \/ result = "ok" /\ b = a /\ c = handling
    BY <1>1, Zenon DEF Complete, CooldownInv, DispatchKey
<1>5. \A c \in Action, b \in Adapter :
          acted'[<<c, b>>] # None =>
             \/ task'[b].st = "ok" /\ handling' = c
             \/ /\ last_dispatch'[<<c, b>>] # None
                /\ last_dispatch'[<<c, b>>] <= acted'[<<c, b>>]
    BY <1>2, <1>4 DEF CooldownInv
<1> QED
    BY <1>1, <1>2, <1>3, <1>5, ZenonT(60) DEF CooldownInv

\* Every step preserves it.
LEMMA CooldownStep == CooldownInv /\ [Next]_vars => CooldownInv'
<1> SUFFICES ASSUME CooldownInv, [Next]_vars PROVE CooldownInv'
    OBVIOUS
<1>1. ASSUME NEW f \in Frequency, Evaluate(f) PROVE CooldownInv'
    <2>1. UNCHANGED <<last_dispatch, acted>> /\ \A a \in Adapter : task[a].st = "idle"
        BY <1>1, ZenonT(60) DEF Evaluate, CooldownInv
    <2>2. CASE UNCHANGED <<handling, task>>
        BY <2>1, <2>2, ZenonT(60) DEF CooldownInv
    <2>3. CASE ~UNCHANGED <<handling, task>>
        <3>1. Called(f) # None /\ handling' = Called(f) /\ DOMAIN task' = Adapter
            BY <1>1, <2>3 DEF Evaluate
        <3>2. handling' \in Action
            BY <3>1 DEF Called, Action
        <3>3. \A a \in Adapter : task'[a].st = "running" => cooldown_allows(<<handling', a>>)
            BY <1>1, <2>3, <3>1 DEF Evaluate, Idle, Eligible
        <3>4. \A a \in Adapter : cooldown_allows(<<handling', a>>) => last_dispatch[<<handling', a>>] \in {None, Cooldown}
            BY <3>2, EngineAssumption, SMTT(60) DEF cooldown_allows, CooldownInv, DispatchKey, Age
        <3> QED
            <4>1. \A c \in Action, a \in Adapter :
                    acted[<<c, a>>] # None => /\ last_dispatch[<<c, a>>] # None
                                              /\ last_dispatch[<<c, a>>] <= acted[<<c, a>>]
                BY <2>1 DEF CooldownInv
            <4> QED
                BY <2>1, <3>1, <3>2, <3>3, <3>4, <4>1, ZenonT(60) DEF CooldownInv
    <2> QED
        BY <2>2, <2>3, ZenonT(60)
<1>2. CASE ExecuteIeee
    BY <1>2, CompleteInv DEF ExecuteIeee, Adapter
<1>3. ASSUME NEW answer, ExecuteGrpc(answer) PROVE CooldownInv'
    <2>1. CASE answer = "transport_error" /\ task["grpc"].left > 1
        <3>1. \A b \in Adapter : task'[b].st = task[b].st
            BY <1>3, <2>1, SMTT(60) DEF ExecuteGrpc, CooldownInv
        <3>2. DOMAIN task' = Adapter /\ UNCHANGED <<last_dispatch, acted, handling>>
            BY <1>3, <2>1 DEF ExecuteGrpc, CooldownInv
        <3> QED
            BY <3>1, <3>2, ZenonT(60) DEF CooldownInv
    <2>2. CASE ~(answer = "transport_error" /\ task["grpc"].left > 1)
        BY <1>3, <2>2, CompleteInv, ZenonT(60) DEF ExecuteGrpc, Adapter
    <2> QED
        BY <2>1, <2>2, ZenonT(60)
<1>4. CASE resolve_program
    <2>1. CASE UNCHANGED <<task, acted>>
        BY <1>4, <2>1, ZenonT(60) DEF resolve_program, CooldownInv
    <2>2. CASE Complete("openleadr", "err")
        BY <1>4, <2>2, CompleteInv DEF resolve_program, Adapter
    <2> QED
        BY <1>4, <2>1, <2>2, SMTT(60) DEF resolve_program
<1>5. ASSUME NEW answer, create_event(answer) PROVE CooldownInv'
    BY <1>5, CompleteInv, ZenonT(60) DEF create_event, Adapter
<1>6. ASSUME NEW a \in Adapter, Join(a) PROVE CooldownInv'
    <2>1. handling \in Action /\ <<handling, a>> \in DispatchKey
        BY <1>6, ZenonT(60) DEF CooldownInv, Join, DispatchKey
    <2>2. task'[a].st = "idle" /\ DOMAIN task' = Adapter /\ (\A b \in Adapter \ {a} : task'[b] = task[b])
          /\ acted' = acted
        BY <1>6, ZenonT(60) DEF Join, CooldownInv, Idle
    <2>3. last_dispatch' \in [DispatchKey -> Age \cup {None}]
        BY <1>6, <2>1, EngineAssumption, SMTT(60) DEF Join, record_dispatch, CooldownInv, Age
    <2>4. \A c \in Action, b \in Adapter : (c # handling \/ b # a) => last_dispatch'[<<c, b>>] = last_dispatch[<<c, b>>]
        BY <1>6, <2>1, ZenonT(60) DEF Join, record_dispatch, CooldownInv, DispatchKey
    <2>5. last_dispatch'[<<handling, a>>] = IF task[a].st = "ok" THEN 0 ELSE last_dispatch[<<handling, a>>]
        BY <1>6, <2>1, ZenonT(60) DEF Join, record_dispatch, CooldownInv
    <2>6. \/ handling' = handling
          \/ handling' = None /\ \A b \in Adapter : task'[b].st = "idle"
        BY <1>6, <2>2, SMTT(60) DEF Join, Idle
    <2>7. \A c \in Action, b \in Adapter :
              acted'[<<c, b>>] # None =>
                 \/ task'[b].st = "ok" /\ handling' = c
                 \/ /\ last_dispatch'[<<c, b>>] # None
                    /\ last_dispatch'[<<c, b>>] <= acted'[<<c, b>>]
        <3> SUFFICES ASSUME NEW c \in Action, NEW b \in Adapter, acted[<<c, b>>] # None
                     PROVE \/ task'[b].st = "ok" /\ handling' = c
                           \/ /\ last_dispatch'[<<c, b>>] # None
                              /\ last_dispatch'[<<c, b>>] <= acted[<<c, b>>]
            BY <2>2, ZenonT(60)
        <3>1. acted[<<c, b>>] \in Nat /\ 0 <= acted[<<c, b>>]
            BY EngineAssumption DEF CooldownInv, DispatchKey, Age
        <3>2. CASE b = a /\ c = handling /\ task[a].st = "ok"
            BY <3>1, <3>2, <2>5, EngineAssumption, SMTT(60)
        <3>3. CASE b = a /\ ~(c = handling /\ task[a].st = "ok")
            BY <3>3, <2>4, <2>5, ZenonT(60) DEF CooldownInv
        <3>4. CASE b # a
            BY <3>4, <2>2, <2>4, <2>6, EngineAssumption, ZenonT(60) DEF CooldownInv
        <3> QED
            BY <3>2, <3>3, <3>4, ZenonT(60)
    <2>8. \A b \in Adapter : task'[b].st = "running" => last_dispatch'[<<handling', b>>] \in {None, Cooldown}
        BY <2>1, <2>2, <2>4, <2>6, ZenonT(60) DEF CooldownInv
    <2>9. handling' \in Action \cup {None} /\ (handling' = None => \A b \in Adapter : task'[b].st = "idle")
        BY <2>1, <2>2, <2>6, EngineAssumption, SMTT(60) DEF CooldownInv
    <2>10. acted' \in [DispatchKey -> Age \cup {None}]
        BY <2>2, ZenonT(60) DEF CooldownInv
    <2> QED
        BY <2>2, <2>3, <2>7, <2>8, <2>9, <2>10, ZenonT(60) DEF CooldownInv
<1>7. CASE Tick
    <2>1. \A x \in Age \cup {None} : /\ OneTickOlder(x) \in Age \cup {None}
                                     /\ OneTickOlder(x) = None <=> x = None
                                     /\ x \in {None, Cooldown} => OneTickOlder(x) = x
        BY EngineAssumption DEF OneTickOlder, Age
    <2>2. \A x, y \in Age : x <= y => OneTickOlder(x) <= OneTickOlder(y)
        BY EngineAssumption, SMTT(60) DEF OneTickOlder, Age
    <2>3. UNCHANGED <<handling, task>>
        BY <1>7 DEF Tick
    <2>4. \A c \in Action, a \in Adapter :
            /\ last_dispatch'[<<c, a>>] = OneTickOlder(last_dispatch[<<c, a>>])
            /\ acted'[<<c, a>>] = OneTickOlder(acted[<<c, a>>])
            /\ last_dispatch[<<c, a>>] \in Age \cup {None} /\ acted[<<c, a>>] \in Age \cup {None}
        BY <1>7, Zenon DEF Tick, CooldownInv, DispatchKey
    <2>5. last_dispatch' \in [DispatchKey -> Age \cup {None}] /\ acted' \in [DispatchKey -> Age \cup {None}]
        BY <1>7, <2>1, ZenonT(60) DEF Tick, CooldownInv
    <2>6. \A a \in Adapter : task'[a].st = "running" => last_dispatch'[<<handling', a>>] \in {None, Cooldown}
        BY <2>1, <2>3, <2>4, SMTT(60) DEF CooldownInv
    <2>7. \A c \in Action, a \in Adapter :
              acted'[<<c, a>>] # None =>
                 \/ task'[a].st = "ok" /\ handling' = c
                 \/ /\ last_dispatch'[<<c, a>>] # None
                    /\ last_dispatch'[<<c, a>>] <= acted'[<<c, a>>]
        BY <2>1, <2>2, <2>3, <2>4, SMTT(60) DEF CooldownInv
    <2> QED
        BY <2>3, <2>5, <2>6, <2>7, ZenonT(60) DEF CooldownInv
<1>8. CASE CapacityChanges \/ ProgramReplaced \/ UNCHANGED vars
    BY <1>8, ZenonT(60) DEF CapacityChanges, ProgramReplaced, vars, CooldownInv
<1>9. CASE Restart
    BY <1>9, EngineAssumption DEF Restart, CooldownInv, DispatchKey, Idle
<1> QED
    BY <1>1, <1>2, <1>3, <1>4, <1>5, <1>6, <1>7, <1>8, <1>9 DEF Next, AdapterStep

\* In one process life no adapter confirms the same action twice within the
\* cooldown, however the frequency oscillates and the calls fail.
THEOREM CooldownIsHeld == Spec => CooldownHeld
<1>1. CooldownInv /\ [Next]_vars =>
        [\A a \in Adapter : task[a].st = "running" /\ task'[a].st = "ok"
              => acted[<<handling, a>>] \in {None, Cooldown}]_vars
    <2> SUFFICES ASSUME CooldownInv, NEW a \in Adapter, task[a].st = "running"
                 PROVE acted[<<handling, a>>] \in {None, Cooldown}
        BY ZenonT(60)
    <2>1. handling \in Action /\ <<handling, a>> \in DispatchKey
        BY ZenonT(60) DEF CooldownInv, DispatchKey
    <2>2. acted[<<handling, a>>] # None => Cooldown <= acted[<<handling, a>>]
        BY <2>1, ZenonT(60) DEF CooldownInv
    <2> QED
        BY <2>1, <2>2, EngineAssumption, SMTT(60) DEF CooldownInv, Age
<1> QED
    BY CooldownInit, CooldownStep, <1>1, PTL DEF Spec, CooldownHeld
\* Whatever the cooldown is held for was confirmed: an entry is recorded only
\* for a pair that an adapter confirmed in this process life.
RecordedInv ==
    /\ \A c \in Action, a \in Adapter : last_dispatch[<<c, a>>] # None => acted[<<c, a>>] # None
    /\ \A a \in Adapter : task[a].st = "ok" => acted[<<handling, a>>] # None

LEMMA RecordedInit == Init => RecordedInv
BY SMTT(60) DEF Init, RecordedInv, DispatchKey, Idle

\* An adapter that returns is confirmed before it is recorded.
LEMMA CompleteRecorded ==
    ASSUME CooldownInv, RecordedInv, NEW a \in Adapter, task[a].st = "running", NEW result \in {"ok", "err"},
           Complete(a, result), UNCHANGED <<last_dispatch, handling>>
    PROVE  RecordedInv'
<1>1. handling \in Action
    BY ZenonT(60) DEF CooldownInv
<1>2. task'[a].st = result /\ \A b \in Adapter \ {a} : task'[b] = task[b]
    BY ZenonT(60) DEF Complete, CooldownInv
<1>3. \A c \in Action, b \in Adapter :
        \/ acted'[<<c, b>>] = acted[<<c, b>>] /\ (result = "err" \/ b # a \/ c # handling)
        \/ acted'[<<c, b>>] = 0 /\ result = "ok" /\ b = a /\ c = handling
    BY <1>1, Zenon DEF Complete, CooldownInv, DispatchKey
<1>4. 0 # None
    <2>1. None \notin Nat
        BY EngineAssumption, Zenon
    <2>2. 0 \in Nat
        BY ZenonT(60)
    <2> QED
        BY <2>1, <2>2, ZenonT(60)
<1> QED
    BY <1>1, <1>2, <1>3, <1>4, ZenonT(60) DEF RecordedInv

LEMMA RecordedStep == CooldownInv /\ RecordedInv /\ [Next]_vars => RecordedInv'
<1> SUFFICES ASSUME CooldownInv, RecordedInv, [Next]_vars PROVE RecordedInv'
    BY ZenonT(60)
<1>1. ASSUME NEW f \in Frequency, Evaluate(f) PROVE RecordedInv'
    <2>1. UNCHANGED <<last_dispatch, acted>> /\ \A a \in Adapter : task[a].st = "idle"
        BY <1>1, ZenonT(60) DEF Evaluate, CooldownInv
    <2>2. \A a \in Adapter : task'[a].st # "ok"
        BY <1>1, <2>1, SMTT(60) DEF Evaluate, Idle
    <2> QED
        BY <2>1, <2>2, ZenonT(60) DEF RecordedInv
<1>2. CASE ExecuteIeee
    BY <1>2, CompleteRecorded, ZenonT(60) DEF ExecuteIeee, Adapter
<1>3. ASSUME NEW answer, ExecuteGrpc(answer) PROVE RecordedInv'
    <2>1. CASE answer = "transport_error" /\ task["grpc"].left > 1
        <3>1. (\A b \in Adapter : task'[b].st = task[b].st) /\ UNCHANGED <<last_dispatch, acted, handling>>
            BY <1>3, <2>1, SMTT(60) DEF ExecuteGrpc, CooldownInv
        <3> QED
            BY <3>1, ZenonT(60) DEF RecordedInv
    <2>2. CASE ~(answer = "transport_error" /\ task["grpc"].left > 1)
        BY <1>3, <2>2, CompleteRecorded, SMTT(60) DEF ExecuteGrpc, Adapter
    <2> QED
        BY <2>1, <2>2, SMTT(60)
<1>4. CASE resolve_program
    <2>1. CASE UNCHANGED <<task, acted>>
        BY <1>4, <2>1, ZenonT(60) DEF resolve_program, RecordedInv
    <2>2. CASE Complete("openleadr", "err")
        BY <1>4, <2>2, CompleteRecorded, SMTT(60) DEF resolve_program, Adapter
    <2> QED
        BY <1>4, <2>1, <2>2, ZenonT(60) DEF resolve_program
<1>5. ASSUME NEW answer, create_event(answer) PROVE RecordedInv'
    BY <1>5, CompleteRecorded, ZenonT(60) DEF create_event, Adapter
<1>6. ASSUME NEW a \in Adapter, Join(a) PROVE RecordedInv'
    <2>1. handling \in Action /\ <<handling, a>> \in DispatchKey
        BY <1>6, ZenonT(60) DEF CooldownInv, Join, DispatchKey
    <2>2. task'[a].st = "idle" /\ (\A b \in Adapter \ {a} : task'[b] = task[b]) /\ acted' = acted
        BY <1>6, ZenonT(60) DEF Join, CooldownInv, Idle
    <2>3. \A c \in Action, b \in Adapter : (c # handling \/ b # a \/ task[a].st # "ok")
              => last_dispatch'[<<c, b>>] = last_dispatch[<<c, b>>]
        BY <1>6, <2>1, ZenonT(60) DEF Join, record_dispatch, CooldownInv, DispatchKey
    <2>4. \A b \in Adapter \ {a} : task[b].st = "ok" => handling' = handling
        BY <1>6, SMTT(60) DEF Join, Idle
    <2> QED
        BY <2>1, <2>2, <2>3, <2>4, ZenonT(60) DEF RecordedInv
<1>7. CASE Tick
    <2>1. \A x \in Age \cup {None} : OneTickOlder(x) = None <=> x = None
        BY EngineAssumption DEF OneTickOlder, Age
    <2>2. \A c \in Action, a \in Adapter :
            /\ last_dispatch'[<<c, a>>] = OneTickOlder(last_dispatch[<<c, a>>])
            /\ acted'[<<c, a>>] = OneTickOlder(acted[<<c, a>>])
            /\ last_dispatch[<<c, a>>] \in Age \cup {None} /\ acted[<<c, a>>] \in Age \cup {None}
        BY <1>7, Zenon DEF Tick, CooldownInv, DispatchKey
    <2>3. \A a \in Adapter : task[a].st = "ok" => handling \in Action
        BY ZenonT(60) DEF CooldownInv
    <2>4. handling' = handling /\ task' = task
        BY <1>7, SMTT(60) DEF Tick
    <2>5. \A c \in Action, a \in Adapter :
            /\ last_dispatch'[<<c, a>>] # None => last_dispatch[<<c, a>>] # None
            /\ acted[<<c, a>>] # None => acted'[<<c, a>>] # None
        BY <2>1, <2>2, ZenonT(60)
    <2> QED
        BY <2>3, <2>4, <2>5, ZenonT(60) DEF RecordedInv
<1>8. CASE CapacityChanges \/ ProgramReplaced \/ UNCHANGED vars
    BY <1>8, ZenonT(60) DEF CapacityChanges, ProgramReplaced, vars, RecordedInv
<1>9. CASE Restart
    BY <1>9 DEF Restart, RecordedInv, DispatchKey, Idle
<1> QED
    BY <1>1, <1>2, <1>3, <1>4, <1>5, <1>6, <1>7, <1>8, <1>9 DEF Next, AdapterStep

\* A message passes over a configured adapter only when that adapter confirmed
\* this action before (evaluate_and_dispatch records no failed dispatch), for any
\* frequencies, cooldown and configuration.
THEOREM FailuresRetryAtOnce == Spec => FailedRetriesAtOnce
<1>1. RecordedInv /\ [Next]_vars =>
        [\A f \in Frequency, a \in Adapter :
              Evaluate(f) /\ capacity /\ Called(f) # None /\ a \in Range(active)
              => task'[a].st = "running" \/ acted[<<Called(f), a>>] # None]_vars
    <2> SUFFICES ASSUME RecordedInv, NEW f \in Frequency, NEW a \in Adapter,
                        Evaluate(f), capacity, Called(f) # None, a \in Range(active)
                 PROVE  task'[a].st = "running" \/ acted[<<Called(f), a>>] # None
        OBVIOUS
    <2>1. Called(f) \in Action
        BY ZenonT(60) DEF Called, Action
    <2>2. CASE cooldown_allows(<<Called(f), a>>)
        <3>1. a \in Eligible(Called(f))
            BY <2>2 DEF Eligible
        <3>2. PICK n : task' = [b \in Adapter |-> IF b \in Eligible(Called(f))
                                                 THEN [st |-> "running", left |-> IF b = "grpc" THEN n ELSE 1]
                                                 ELSE Idle]
            <4>1. ~(Eligible(Called(f)) = {} \/ ~capacity)
                BY <3>1, Zenon
            <4> QED
                BY <4>1, ZenonT(60) DEF Evaluate
        <3>3. task'[a] = [st |-> "running", left |-> IF a = "grpc" THEN n ELSE 1]
            BY <3>1, <3>2, Zenon
        <3> QED
            BY <3>3, SMTT(60)
    <2>3. CASE ~cooldown_allows(<<Called(f), a>>)
        BY <2>1, <2>3 DEF cooldown_allows, RecordedInv
    <2> QED
        BY <2>2, <2>3, ZenonT(60)
<1> QED
    BY CooldownInit, CooldownStep, RecordedInit, RecordedStep, <1>1, PTL DEF Spec, FailedRetriesAtOnce

-----------------------------------------------------------------------------
(* Store and forward. *)

LEMMA StoreInitInv == StoreInit => StoreInv
BY StoreAssumption DEF StoreInit, StoreInv, StoreTypeOK, NothingLost

\* Each step of the store preserves the inductive invariant.
LEMMA StoreStepInv == StoreInv /\ [StoreNext]_storevars => StoreInv'
<1> SUFFICES ASSUME StoreInv, [StoreNext]_storevars PROVE StoreInv'
    OBVIOUS
<1>1. CASE Push
    <2>1. rows \ synced \subseteq rows' /\ rows' \subseteq rows \cup {last + 1} /\ (last + 1 \in rows' \/ last + 1 \in synced)
        BY <1>1, ZenonT(60) DEF Push, cleanup
    <2>2. last + 1 \notin synced
        BY SMTT(60) DEF StoreInv, StoreTypeOK
    <2>3. \A i \in 1 .. last' : i \in 1 .. last \/ i = last + 1
        BY <1>1 DEF Push, StoreInv, StoreTypeOK
    <2>4. NothingLost'
        BY <1>1, <2>1, <2>2, <2>3, ZenonT(30) DEF Push, StoreInv, NothingLost
    <2>5. StoreTypeOK'
        <3>1. pushes' \in 0 .. CleanEvery - 1
            BY <1>1, StoreAssumption, SMTT(60) DEF Push, StoreInv, StoreTypeOK
        <3>2. last \in Nat /\ last' = last + 1 /\ UNCHANGED <<synced, old, loop, todo, sent, received, starts>>
            BY <1>1, ZenonT(60) DEF Push, StoreInv, StoreTypeOK
        <3>3. 1 .. last \subseteq 1 .. last' /\ last + 1 \in 1 .. last'
            BY <3>2, SMTT(60)
        <3> QED
            BY <2>1, <3>1, <3>2, <3>3, SMTT(60) DEF StoreInv, StoreTypeOK
    <2> QED
        BY <1>1, <2>4, <2>5, ZenonT(60) DEF Push, StoreInv
<1>2. ASSUME NEW i \in 1 .. last, Expire(i) PROVE StoreInv'
    BY <1>2, ZenonT(60) DEF Expire, StoreInv, StoreTypeOK, NothingLost
<1>3. CASE Mark
    BY <1>3, ZenonT(60) DEF Mark, StoreInv, StoreTypeOK, NothingLost
<1>4. ASSUME NEW some \in SUBSET unsynced, Fetch(some) PROVE StoreInv'
    <2>1. ASSUME NEW i \in some, NEW j \in 1 .. i - 1 PROVE j \in received \/ j \in some
        <3>1. j \in 1 .. last /\ j < i
            BY <2>1, <1>4 DEF StoreInv, StoreTypeOK, unsynced
        <3>2. CASE j \in received
            BY <3>2, SMTT(60)
        <3>3. CASE j \in rows
            BY <3>1, <3>3, <1>4, <2>1, ZenonT(60) DEF Fetch, get_unsynced, unsynced, StoreInv
        <3> QED
            BY <3>1, <3>2, <3>3, ZenonT(60) DEF StoreInv, NothingLost
    <2> QED
        BY <1>4, <2>1, ZenonT(60) DEF Fetch, unsynced, StoreInv, StoreTypeOK, NothingLost
<1>5. ASSUME NEW i \in todo, Send(i) PROVE StoreInv'
    <2>1. todo' = todo \ {i} /\ received' = received \cup {i}
        BY <1>5 DEF Send
    <2>2. \A k \in todo' : \A j \in 1 .. k - 1 : j \in received' \/ j \in todo'
        BY <2>1, ZenonT(60) DEF StoreInv
    <2> QED
        BY <1>5, <2>1, <2>2, ZenonT(60) DEF Send, StoreInv, StoreTypeOK, NothingLost
<1>6. ASSUME NEW i \in todo, NEW got \in BOOLEAN, SendFails(i, got) PROVE StoreInv'
    BY <1>6, ZenonT(60) DEF SendFails, StoreInv, StoreTypeOK, NothingLost
<1>7. CASE DbError
    BY <1>7, ZenonT(60) DEF DbError, StoreInv, StoreTypeOK, NothingLost
<1>8. CASE StoreRestart
    BY <1>8, StoreAssumption, SMTT(60) DEF StoreRestart, StoreInv, StoreTypeOK, NothingLost
<1>9. CASE UNCHANGED storevars
    BY <1>9 DEF storevars, StoreInv, StoreTypeOK, NothingLost
<1> QED
    BY <1>1, <1>2, <1>3, <1>4, <1>5, <1>6, <1>7, <1>8, <1>9, ZenonT(60) DEF StoreNext, StoreStep

\* Whatever fails or restarts, a record is in the table or at the gateway.
THEOREM StoreLosesNothing == StoreSafety => []NothingLost
<1>1. StoreInv => NothingLost
    BY ZenonT(60) DEF StoreInv
<1> QED
    BY StoreInitInv, StoreStepInv, <1>1, PTL DEF StoreSafety

\* A step of the store is a step of the promise, or changes nothing of it.
LEMMA StoreStepPromised ==
    StoreInv /\ [StoreNext]_storevars => [Promise!Next]_(Promise!vars)
<1> SUFFICES ASSUME StoreInv, [StoreNext]_storevars PROVE [Promise!Next]_(Promise!vars)
    BY ZenonT(60)
<1> USE DEF Promise!vars
<1>1. CASE Push
    BY <1>1, ZenonT(60) DEF Push, Promise!Next, Promise!Accept
<1>2. ASSUME NEW i \in 1 .. last, Expire(i) PROVE UNCHANGED Promise!vars
    BY <1>2 DEF Expire
<1>3. CASE Mark
    <2>1. sent \in SUBSET received
        BY ZenonT(60) DEF StoreInv
    <2>2. Promise!Confirm(sent)
        BY <1>3, ZenonT(60) DEF Mark, Promise!Confirm
    <2> QED
        BY <2>1, <2>2, ZenonT(60) DEF Promise!Next
<1>4. ASSUME NEW some \in SUBSET unsynced, Fetch(some) PROVE UNCHANGED Promise!vars
    BY <1>4, ZenonT(60) DEF Fetch
<1>5. ASSUME NEW i \in todo, Next1(i) PROVE i \in 1 .. last /\ i \notin synced /\ \A j \in 1 .. i - 1 : j \in received
    BY <1>5, SMTT(60) DEF Next1, StoreInv, StoreTypeOK
<1>6. ASSUME NEW i \in todo, Send(i) PROVE Promise!Next
    <2>1. Promise!Receive(i)
        BY <1>5, <1>6, ZenonT(60) DEF Send, Promise!Receive
    <2> QED
        BY <1>5, <1>6, <2>1, ZenonT(60) DEF Promise!Next, Send
<1>7. ASSUME NEW i \in todo, NEW got \in BOOLEAN, SendFails(i, got) PROVE [Promise!Next]_(Promise!vars)
    <2>1. CASE got
        <3>1. Promise!Receive(i)
            BY <1>5, <1>7, <2>1, ZenonT(60) DEF SendFails, Promise!Receive
        <3> QED
            BY <1>5, <1>7, <3>1, ZenonT(60) DEF Promise!Next, SendFails
    <2>2. CASE ~got
        BY <1>7, <2>2 DEF SendFails
    <2> QED
        BY <2>1, <2>2, ZenonT(60)
<1>8. CASE DbError
    BY <1>8, ZenonT(60) DEF DbError
<1>9. CASE StoreRestart
    BY <1>9, ZenonT(60) DEF StoreRestart
<1>10. CASE UNCHANGED storevars
    BY <1>10 DEF storevars
<1> QED
    BY <1>1, <1>2, <1>3, <1>4, <1>6, <1>7, <1>8, <1>9, <1>10, ZenonT(60) DEF StoreNext, StoreStep

\* The store implements Delivery: in order, at least once, and nothing marked
\* that was not received.
THEOREM StoreKeepsThePromise == StoreSafety => KeepsThePromise
<1>1. StoreInit => Promise!Init
    BY DEF StoreInit, Promise!Init
<1> QED
    BY <1>1, StoreInitInv, StoreStepInv, StoreStepPromised, PTL DEF StoreSafety, KeepsThePromise, Promise!Spec
=============================================================================
