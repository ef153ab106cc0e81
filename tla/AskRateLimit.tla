---------------------------- MODULE AskRateLimit ----------------------------
(***************************************************************************)
(* The hourly quota of /ask: AskQuestionUsecase charges a question to a    *)
(* counter in Redis before anything else, asks the model with retries      *)
(* under one timeout, and gives the slot back when the model fails.        *)
(*                                                                         *)
(* The model is of one user: the key carries the user and the hour, so     *)
(* users never meet.  Redis runs a script atomically.  An X_Y before an X  *)
(* is a mutation of X that tests the properties.                           *)
(***************************************************************************)
EXTENDS Integers, FiniteSets

CONSTANTS
    Questions,   \* requests of the user, each asked once
    Limit,       \* rateLimitPerHour, a positive integer (env.schema.ts)
    MaxHour,     \* bound: the last hour that is modelled
    MaxRetries   \* MAX_RETRY_ATTEMPTS of the model client

ASSUME QuotaAssumption ==
    /\ IsFiniteSet(Questions)
    /\ Limit \in Nat \ {0}
    /\ MaxHour \in Nat
    /\ MaxRetries \in Nat

VARIABLES
    hour,     \* the hour of the clock
    keys,     \* hour buckets whose key exists in Redis
    count,    \* value of a bucket's key, 0 when there is none
    since,    \* hour in which the key got its TTL, or NoExpiry
    pc,       \* next step of a question
    bucket,   \* rateLimitKey of a question, computed once
    attempt   \* attempt of callGemini

redis == <<keys, count, since>>
vars  == <<hour, keys, count, since, pc, bucket, attempt>>

Hours    == 0 .. MaxHour
NoExpiry == -1

(* Served: past the limiter and not given back.  A question counts in its  *)
(* bucket from the increment on, refused or not.                           *)
Served   == {"context", "model", "backoff", "release", "answered", "charged"}
Counting == Served \union {"refused", "lost"}
Ended    == {"answered", "charged", "refused", "lost", "released", "failed"}
Steps    == {"idle", "increment"} \union Counting \union Ended

In(h, steps) == {q \in Questions : bucket[q] = h /\ pc[q] \in steps}

Init ==
    /\ hour    = 0
    /\ keys    = {}
    /\ count   = [h \in Hours |-> 0]
    /\ since   = [h \in Hours |-> NoExpiry]
    /\ pc      = [q \in Questions |-> "idle"]
    /\ bucket  = [q \in Questions |-> 0]
    /\ attempt = [q \in Questions |-> 0]

Goto(q, step) == pc' = [pc EXCEPT ![q] = step]

-----------------------------------------------------------------------------
(* The scripts.                                                            *)

(* INCR, and EXPIRE when the result is 1.                                  *)
INCREMENT_WITH_TTL(h) ==
    /\ keys'  = keys \union {h}
    /\ count' = [count EXCEPT ![h] = @ + 1]
    /\ since' = IF count[h] = 0 THEN [since EXCEPT ![h] = hour] ELSE since

(* Nothing without a key; otherwise DECR, clamped to 0 under the same TTL. *)
DECREMENT_NoExists(h) ==
    /\ keys'  = keys \union {h}
    /\ count' = [count EXCEPT ![h] = IF @ = 0 THEN 0 ELSE @ - 1]
    /\ since' = since
DECREMENT_NoClamp(h) ==
    /\ count' = [count EXCEPT ![h] = IF h \in keys THEN @ - 1 ELSE @]
    /\ UNCHANGED <<keys, since>>
DECREMENT(h) ==
    /\ count' = [count EXCEPT ![h] = IF @ = 0 THEN 0 ELSE @ - 1]
    /\ UNCHANGED <<keys, since>>

-----------------------------------------------------------------------------
(* The request.                                                            *)

(* The key is computed; INCR is on its way to Redis.                       *)
Ask(q) ==
    /\ pc[q] = "idle"
    /\ bucket' = [bucket EXCEPT ![q] = hour]
    /\ Goto(q, "increment")
    /\ UNCHANGED <<hour, redis, attempt>>

(* enforceRateLimit: a refusal leaves its increment.                       *)
EnforceRateLimit_OneLess(q) ==
    /\ pc[q] = "increment"
    /\ INCREMENT_WITH_TTL(bucket[q])
    /\ Goto(q, IF count'[bucket[q]] >= Limit THEN "refused" ELSE "context")
    /\ UNCHANGED <<hour, bucket, attempt>>
EnforceRateLimit(q) ==
    /\ pc[q] = "increment"
    /\ INCREMENT_WITH_TTL(bucket[q])
    /\ Goto(q, IF count'[bucket[q]] > Limit THEN "refused" ELSE "context")
    /\ UNCHANGED <<hour, bucket, attempt>>

(* Redis fails before or after it has run the script; the API says 500.    *)
RedisFails(q) ==
    /\ pc[q] = "increment"
    /\ \/ Goto(q, "failed") /\ UNCHANGED redis
       \/ Goto(q, "lost") /\ INCREMENT_WITH_TTL(bucket[q])
    /\ UNCHANGED <<hour, bucket, attempt>>

(* The reports the prompt is built from; their failure is not given back.  *)
BuildContext(q) ==
    /\ pc[q] = "context"
    /\ Goto(q, "model") \/ Goto(q, "charged")
    /\ UNCHANGED <<hour, redis, bucket, attempt>>

(* generateContent returns: text, a 503 worth a retry, or any other error  *)
(* (an empty or truncated text included).                                  *)
CallGemini(q) ==
    /\ pc[q] = "model"
    /\ \/ Goto(q, "answered")
       \/ Goto(q, "release")
       \/ attempt[q] < MaxRetries /\ Goto(q, "backoff")
    /\ UNCHANGED <<hour, redis, bucket, attempt>>

Retry(q) ==
    /\ pc[q] = "backoff"
    /\ attempt' = [attempt EXCEPT ![q] = @ + 1]
    /\ Goto(q, "model")
    /\ UNCHANGED <<hour, redis, bucket>>

(* One timer for all attempts aborts the call or the sleep.                *)
Timeout_PerAttempt(q) ==
    /\ pc[q] = "backoff"
    /\ Goto(q, "release")
    /\ UNCHANGED <<hour, redis, bucket, attempt>>
Timeout(q) ==
    /\ pc[q] \in {"model", "backoff"}
    /\ Goto(q, "release")
    /\ UNCHANGED <<hour, redis, bucket, attempt>>

(* releaseRateLimitSlot, on the key the question was charged to; a failure *)
(* of Redis is only logged.                                                *)
Release_ThisHour(q) ==
    /\ pc[q] = "release"
    /\ DECREMENT(hour) /\ Goto(q, "released")
    /\ UNCHANGED <<hour, bucket, attempt>>
Release(q) ==
    /\ pc[q] = "release"
    /\ \/ DECREMENT(bucket[q]) /\ Goto(q, "released")
       \/ UNCHANGED redis /\ Goto(q, "charged")
    /\ UNCHANGED <<hour, bucket, attempt>>

(* The process dies, with its timers and what it owed.                     *)
Crash(q) ==
    /\ \/ pc[q] = "increment" /\ Goto(q, "failed")
       \/ pc[q] \in {"context", "model", "backoff", "release"}
          /\ Goto(q, "charged")
    /\ UNCHANGED <<hour, redis, bucket, attempt>>

-----------------------------------------------------------------------------
(* Time.  A TTL of 3600 s given in one hour ends in the next.              *)

Expire(h) ==
    /\ h \in keys
    /\ since[h] # NoExpiry /\ hour > since[h]
    /\ keys'  = keys \ {h}
    /\ count' = [count EXCEPT ![h] = 0]
    /\ since' = [since EXCEPT ![h] = NoExpiry]
    /\ UNCHANGED <<hour, pc, bucket, attempt>>

Tick ==
    /\ hour < MaxHour
    /\ \A h \in keys : since[h] \in {NoExpiry, hour}
    /\ hour' = hour + 1
    /\ UNCHANGED <<redis, pc, bucket, attempt>>

Step(q) ==
    \/ EnforceRateLimit(q) \/ RedisFails(q) \/ BuildContext(q)
    \/ Retry(q) \/ Timeout(q) \/ Release(q)

Next ==
    \/ \E q \in Questions : Ask(q) \/ Step(q) \/ CallGemini(q) \/ Crash(q)
    \/ \E h \in Hours : Expire(h)
    \/ Tick

Spec == Init /\ [][Next]_vars

(* Prisma and Redis answer or fail, and timers fire; nothing is assumed of *)
(* the provider, of arrivals or of the clock.                              *)
FairSpec == Spec /\ \A q \in Questions : WF_vars(Step(q))

-----------------------------------------------------------------------------
(* Properties.                                                             *)

(* Every variable keeps its type.                                          *)
TypeOK ==
    /\ hour    \in Hours
    /\ keys    \subseteq Hours
    /\ count   \in [Hours -> Nat]
    /\ since   \in [Hours -> Hours \union {NoExpiry}]
    /\ pc      \in [Questions -> Steps]
    /\ bucket  \in [Questions -> Hours]
    /\ attempt \in [Questions -> 0 .. MaxRetries]

(* However questions interleave and whenever slots of this or an earlier   *)
(* hour are given back, the current hour serves at most Limit questions.   *)
HourlyCap == Cardinality(In(hour, Served)) <= Limit

(* The counter of an hour, one that is over included, whose key may have   *)
(* expired and been made again by a late question, is never above the      *)
(* questions charged to it and not given back, nor below zero.             *)
ChargesAreFair ==
    \A h \in Hours : count[h] \in 0 .. Cardinality(In(h, Counting))

(* No key is left without a TTL, a slot given back after expiry included.  *)
KeysExpire == \A h \in keys : since[h] # NoExpiry

(* The current hour, as a counter.                                         *)
Quota == INSTANCE HourQuota WITH
    used    <- count[hour],
    served  <- Cardinality(In(hour, Served)),
    refused <- Cardinality(In(hour, {"refused"}))

(* Whatever happens to keys and to the slots of earlier hours, the current *)
(* hour is a counter from zero: a question is served below the limit and   *)
(* refused at it, a refund makes room for one more, and no question of     *)
(* another hour touches it.                                                *)
ImplementsQuota == Quota!QuotaSpec

(* A question is answered or fails even if the provider never responds.    *)
EveryQuestionEnds ==
    \A q \in Questions : pc[q] = "increment" ~> pc[q] \in Ended

-----------------------------------------------------------------------------
(* What a reachable state satisfies, for the proofs.                       *)

(* The key of the current hour cannot have expired, so its count is exact, *)
(* and who is served has met a count of at most Limit.                     *)
CountInv ==
    \A h \in Hours :
      /\ count[h] <= Cardinality(In(h, Counting))
      /\ h = hour => /\ count[h] = Cardinality(In(h, Counting))
                     /\ Cardinality(In(h, Served)) <= Limit

KeyInv ==
    /\ KeysExpire
    /\ \A h \in Hours : h \notin keys => count[h] = 0
    /\ \A h \in keys : h <= hour
    /\ \A h \in keys : h = hour => since[h] = hour

QuestionInv ==
    \A q \in Questions :
      /\ bucket[q] <= hour
      /\ pc[q] = "backoff" => attempt[q] < MaxRetries

QuotaInv == TypeOK /\ CountInv /\ KeyInv /\ QuestionInv
=============================================================================
