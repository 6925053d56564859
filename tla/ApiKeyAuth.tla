----------------------------- MODULE ApiKeyAuth -----------------------------
(***************************************************************************)
(* The X-API-KEY middleware (aggregator-api/src/auth.rs): a verdict cache  *)
(* with a positive and a negative lifetime in front of IAM's VerifyApiKey, *)
(* an optional circuit breaker over IAM, and static keys for when IAM      *)
(* cannot be reached.                                                      *)
(*                                                                         *)
(* Requests run concurrently.  IAM decides at one moment and its answer    *)
(* arrives at a later one, at most IamFlight later (the client's timeout), *)
(* so answers can be applied out of order.  External: IAM, and the breaker *)
(* of the telemetry crate, modelled from its use.  Instants are kept as    *)
(* ages and remaining lifetimes, so time is not bounded.                   *)
(***************************************************************************)
EXTENDS Integers, FiniteSets, FiniteSetsExt

CONSTANTS
    Key,            \* API keys callers present
    Request,        \* concurrent requests
    PosTtl, NegTtl, \* lifetimes of cached verdicts
    IamFlight,      \* longest time an IAM call takes
    Threshold,      \* failures that open the breaker
    BreakerPause,   \* cooldown of an open breaker
    NoKey           \* "absent"

ASSUME AuthAssumption ==
    /\ {PosTtl, NegTtl, IamFlight, BreakerPause} \subseteq Nat
    /\ Threshold \in Nat \ {0}
    /\ NoKey \notin Key \cup [left : Nat, valid : BOOLEAN] \cup [failures : Nat, wait : Nat]

VARIABLES
    static,     \* the keys of API_KEYS
    client,     \* whether an IAM client is configured
    iam,        \* Key -> whether IAM accepts it
    verdicts,   \* Key -> [left, valid] with the lifetime left, or NoKey
    breaker,    \* [failures, wait] with the cooldown left, or NoKey: not enabled
    request,    \* Request -> its state; age counts from IAM's decision
    accepted,   \* Key -> age of IAM's last acceptance of it
    refused,    \* Key -> age of IAM's last refusal of it
    down        \* Key -> age of the last check of it that could not reach IAM

authvars == <<static, client, iam, verdicts, breaker, request, accepted, refused, down>>

\* Ages stop at Long, past every lifetime.
Long == Max({PosTtl, NegTtl}) + IamFlight + 1
Older(age) == Min({age + 1, Long})
Free == [pc |-> "free", key |-> NoKey, verdict |-> NoKey, age |-> 0]

AuthInit ==
    /\ static \in SUBSET Key /\ client \in BOOLEAN
    /\ iam \in [Key -> BOOLEAN]
    /\ verdicts = [k \in Key |-> NoKey]
    /\ breaker \in {NoKey, [failures |-> 0, wait |-> 0]}
    /\ request = [r \in Request |-> Free]
    /\ accepted = [k \in Key |-> IF iam[k] THEN 0 ELSE Long]
    /\ refused = [k \in Key |-> IF iam[k] THEN Long ELSE 0]
    /\ down = [k \in Key |-> Long]

-----------------------------------------------------------------------------
\* cache_lookup: an entry counts until it expires (and is then removed).
cache_lookup(k) == verdicts[k] # NoKey /\ verdicts[k].left > 0

\* A request presents key k, or no key at all.  A cached verdict answers it.
Arrive(r, k) ==
    /\ request[r].pc = "free"
    /\ request' = [request EXCEPT ![r] =
         [Free EXCEPT !.key = k,
                      !.pc = IF k = NoKey THEN "denied"
                             ELSE IF ~cache_lookup(k) THEN "iam"
                             ELSE IF verdicts[k].valid THEN "allowed" ELSE "denied"]]
    /\ verdicts' = IF k # NoKey /\ ~cache_lookup(k) THEN [verdicts EXCEPT ![k] = NoKey] ELSE verdicts
    /\ UNCHANGED <<static, client, iam, breaker, accepted, refused, down>>

\* CircuitBreaker::should_allow, from its use: closed below the threshold, and
\* after the cooldown a call is let through again.
should_allow == breaker = NoKey \/ breaker.failures < Threshold \/ breaker.wait = 0

\* The check of a key starts: an open breaker, or no IAM client, counts as an
\* unavailable IAM; otherwise IAM decides, or cannot be reached.
AskIam(r, reached) ==
    LET k == request[r].key
        called == should_allow /\ client
        verdict == IF ~called \/ ~reached THEN "Unavailable"
                   ELSE IF iam[k] THEN "Authorized" ELSE "Rejected"
    IN /\ request[r].pc = "iam"
       /\ request' = [request EXCEPT ![r].pc = IF called THEN "wait" ELSE "decide",
                                     ![r].verdict = verdict]
       /\ down' = IF verdict = "Unavailable" THEN [down EXCEPT ![k] = 0] ELSE down
       /\ UNCHANGED <<static, client, iam, verdicts, breaker, accepted, refused>>

\* The answer, or the connection error, arrives: record_success closes the
\* breaker, record_failure counts towards opening it.
Answer(r) ==
    /\ request[r].pc = "wait"
    /\ request' = [request EXCEPT ![r].pc = "decide"]
    /\ breaker' =
         IF breaker = NoKey THEN breaker
         ELSE IF request[r].verdict # "Unavailable" THEN [failures |-> 0, wait |-> 0]
         ELSE IF breaker.failures + 1 >= Threshold
              THEN [failures |-> Threshold, wait |-> BreakerPause]
              ELSE [breaker EXCEPT !.failures = @ + 1]
    /\ UNCHANGED <<static, client, iam, verdicts, accepted, refused, down>>

\* post_iam_action: only a failure to reach IAM leads to the static keys.
post_iam_action(verdict) ==
    CASE verdict = "Authorized" -> "Allow"
      [] verdict = "Rejected" -> "Deny"
      [] verdict = "Unavailable" -> "TryStatic"

\* Fault: refusals are kept as long as acceptances.
cache_storeOneTtl(k, valid) == [verdicts EXCEPT ![k] = [left |-> PosTtl, valid |-> valid]]

\* cache_store: the verdict is kept for its lifetime; expired entries go.
cache_store(k, valid) ==
    [j \in Key |-> IF j = k THEN [left |-> IF valid THEN PosTtl ELSE NegTtl, valid |-> valid]
                   ELSE IF cache_lookup(j) THEN verdicts[j] ELSE NoKey]

\* The decision: IAM's verdict is cached both ways (cache_verdict_for); a
\* static key is let in, and that verdict is cached too.
Decide(r) ==
    LET k == request[r].key
        action == post_iam_action(request[r].verdict)
        allowed == action = "Allow" \/ (action = "TryStatic" /\ k \in static)
    IN /\ request[r].pc = "decide"
       /\ request' = [request EXCEPT ![r].pc = IF allowed THEN "allowed" ELSE "denied"]
       /\ verdicts' = IF allowed \/ action = "Deny" THEN cache_store(k, allowed) ELSE verdicts
       /\ UNCHANGED <<static, client, iam, breaker, accepted, refused, down>>

\* The response is out and the slot is used by a later request.
Finish(r) ==
    /\ request[r].pc \in {"allowed", "denied"}
    /\ request' = [request EXCEPT ![r] = Free]
    /\ UNCHANGED <<static, client, iam, verdicts, breaker, accepted, refused, down>>

\* External: a key is created, revoked or reinstated.
Flip(k) ==
    /\ iam' = [iam EXCEPT ![k] = ~@]
    /\ accepted' = IF iam[k] THEN accepted ELSE [accepted EXCEPT ![k] = 0]
    /\ refused' = IF iam[k] THEN [refused EXCEPT ![k] = 0] ELSE refused
    /\ UNCHANGED <<static, client, verdicts, breaker, request, down>>

\* Time passes; a call to IAM takes at most IamFlight, everything else none.
Pass ==
    /\ \A r \in Request : \/ request[r].pc = "free"
                          \/ request[r].pc \in {"wait", "decide"} /\ request[r].age < IamFlight
    /\ request' = [r \in Request |-> IF request[r].pc = "free" THEN request[r]
                                     ELSE [request[r] EXCEPT !.age = @ + 1]]
    /\ verdicts' = [k \in Key |-> IF cache_lookup(k) THEN [verdicts[k] EXCEPT !.left = @ - 1]
                                  ELSE verdicts[k]]
    /\ breaker' = IF breaker = NoKey THEN breaker
                  ELSE [breaker EXCEPT !.wait = Max({@ - 1, 0})]
    /\ accepted' = [k \in Key |-> IF iam[k] THEN 0 ELSE Older(accepted[k])]
    /\ refused' = [k \in Key |-> IF iam[k] THEN Older(refused[k]) ELSE 0]
    /\ down' = [k \in Key |-> Older(down[k])]
    /\ UNCHANGED <<static, client, iam>>

AuthNext ==
    \/ \E r \in Request : \/ \E k \in Key \cup {NoKey} : Arrive(r, k)
                          \/ \E reached \in BOOLEAN : AskIam(r, reached)
                          \/ Answer(r) \/ Decide(r) \/ Finish(r)
    \/ \E k \in Key : Flip(k)
    \/ Pass

AuthSpec == AuthInit /\ [][AuthNext]_authvars

-----------------------------------------------------------------------------
\* Entries, requests and the breaker have their shapes.
AuthTypeOK ==
    /\ static \subseteq Key /\ iam \in [Key -> BOOLEAN]
    /\ \A k \in Key : verdicts[k] = NoKey \/ verdicts[k] \in [left : 0 .. Long, valid : BOOLEAN]
    /\ breaker = NoKey \/ breaker \in [failures : 0 .. Threshold, wait : 0 .. BreakerPause]
    /\ \A r \in Request :
          /\ request[r].pc \in {"free", "iam", "wait", "decide", "allowed", "denied"}
          /\ request[r].key = NoKey => request[r].pc \in {"free", "denied"}
    /\ \A k \in Key : {accepted[k], refused[k], down[k]} \subseteq 0 .. Long

\* The answer of a call in flight, or one cached for a lifetime that is not over.
Within(age, ttl) == age <= IamFlight \/ age < ttl + IamFlight

\* A key is let in only because IAM accepted it within PosTtl + IamFlight
\* ("a revoked/rotated key stays accepted until its entry expires"), or because
\* it is a static key and IAM could not be reached in that time: late answers
\* and concurrent checks of the same key do not stretch it, and IAM's refusal
\* is never overruled by a static key while IAM answers.
AllowedForAReason ==
    \A r \in Request : request[r].pc = "allowed" =>
        LET k == request[r].key
        IN \/ Within(accepted[k], PosTtl)
           \/ k \in static /\ Within(down[k], PosTtl)

\* A key is turned away only because IAM refused it within NegTtl + IamFlight
\* or because a check of it within IamFlight could not reach IAM: a key
\* authorized after a refusal is picked up within the short lifetime.
DeniedForAReason ==
    \A r \in Request : request[r].pc = "denied" /\ request[r].key # NoKey =>
        LET k == request[r].key
        IN \/ Within(refused[k], NegTtl)
           \/ k \notin static /\ down[k] <= IamFlight

\* Both together: a key is let in on a verdict of IAM within its lifetime or as a
\* static key while IAM was out of reach, and turned away on a refusal within the
\* short lifetime or when nobody could vouch for it, however concurrent checks
\* of it interleave.
KeysJudgedForAReason == AllowedForAReason /\ DeniedForAReason
=============================================================================
