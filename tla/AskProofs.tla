------------------------------ MODULE AskProofs -----------------------------
(***************************************************************************)
(* TLAPS proofs about the quota, for every finite set of questions, every  *)
(* limit, every number of hours and of retries.                            *)
(***************************************************************************)
EXTENDS AskRateLimit, FiniteSetTheorems, TLAPS

USE QuotaAssumption

-----------------------------------------------------------------------------
(* Counting questions.                                                     *)

(* 1 for a question that In(h, steps) has, 0 for another.                  *)
One(q, h, b, step, steps) == IF b = h /\ step \in steps THEN 1 ELSE 0

LEMMA InFinite ==
    ASSUME NEW h, NEW steps
    PROVE  /\ IsFiniteSet(In(h, steps))
           /\ Cardinality(In(h, steps)) \in Nat
<1>1. In(h, steps) \in SUBSET Questions BY DEF In
<1>2. IsFiniteSet(In(h, steps)) BY <1>1, FS_Subset
<1> QED BY <1>2, FS_CardinalityType

LEMMA ServedCount ==
    ASSUME NEW h
    PROVE  Cardinality(In(h, Served)) <= Cardinality(In(h, Counting))
<1>1. In(h, Served) \in SUBSET In(h, Counting) BY DEF In, Counting
<1> QED BY <1>1, InFinite, FS_Subset

(* A question that takes a step moves in or out of In(h, steps) alone.     *)
LEMMA Moved ==
    ASSUME TypeOK, NEW q \in Questions, NEW step, NEW h, NEW steps,
           Goto(q, step), bucket' = bucket
    PROVE  Cardinality(In(h, steps)') =
             Cardinality(In(h, steps))
               - One(q, h, bucket[q], pc[q], steps)
               + One(q, h, bucket[q], step, steps)
<1> DEFINE old == In(h, steps)
           new == {x \in Questions : bucket[x] = h /\ pc'[x] \in steps}
<1>0. In(h, steps)' = new BY DEF In
<1>1. \A x \in Questions : pc'[x] = IF x = q THEN step ELSE pc[x]
  BY DEF Goto, TypeOK
<1>2. IsFiniteSet(old) /\ Cardinality(old) \in Nat BY InFinite
<1>3. q \in old <=> bucket[q] = h /\ pc[q] \in steps BY DEF In
<1>4. CASE bucket[q] = h /\ step \in steps
  <2>1. new = old \union {q} BY <1>1, <1>4 DEF In
  <2>2. Cardinality(new) = IF q \in old THEN Cardinality(old)
                           ELSE Cardinality(old) + 1
    <3> HIDE DEF old, new
    <3> QED BY <2>1, <1>2, FS_AddElement
  <2> HIDE DEF old, new
  <2>3. QED BY <2>2, <1>0, <1>2, <1>3, <1>4 DEF One, old, new
<1>5. CASE ~(bucket[q] = h /\ step \in steps)
  <2>1. new = old \ {q} BY <1>1, <1>5 DEF In
  <2>2. Cardinality(new) = IF q \in old THEN Cardinality(old) - 1
                           ELSE Cardinality(old)
    <3> HIDE DEF old, new
    <3> QED BY <2>1, <1>2, FS_RemoveElement
  <2> HIDE DEF old, new
  <2>3. QED BY <2>2, <1>0, <1>2, <1>3, <1>5 DEF One, old, new
<1> QED BY <1>4, <1>5

-----------------------------------------------------------------------------
(* Steps.                                                                  *)

(* A step that only moves a question among the states that count, or among *)
(* those that do not, and serves nobody, leaves the counts right.          *)
LEMMA QuietMove ==
    ASSUME TypeOK, CountInv, NEW q \in Questions, NEW step,
           Goto(q, step), UNCHANGED <<hour, redis, bucket>>,
           pc[q] \in Counting <=> step \in Counting,
           step \in Served => pc[q] \in Served
    PROVE  CountInv'
<1>0. bucket' = bucket BY DEF redis
<1>1. \A h \in Hours : Cardinality(In(h, Counting)') = Cardinality(In(h, Counting))
  BY <1>0, Moved, InFinite DEF One
<1>2. \A h \in Hours : /\ Cardinality(In(h, Served)) \in Nat
                       /\ Cardinality(In(h, Served)') \in Int
                       /\ Cardinality(In(h, Served)') <= Cardinality(In(h, Served))
  <2> TAKE h \in Hours
  <2>1. Cardinality(In(h, Served)) \in Nat BY InFinite
  <2>2. Cardinality(In(h, Served)') =
          Cardinality(In(h, Served)) - One(q, h, bucket[q], pc[q], Served)
                                     + One(q, h, bucket[q], step, Served)
    BY <1>0, Moved
  <2> QED BY <2>1, <2>2 DEF One
<1>3. Limit \in Nat BY QuotaAssumption
<1> QED BY <1>1, <1>2, <1>3 DEF CountInv, redis

LEMMA AskInv ==
    ASSUME QuotaInv, NEW q \in Questions, Ask(q)
    PROVE  QuotaInv'
<1> USE DEF QuotaInv, Ask
<1>1. TypeOK' BY DEF TypeOK, Goto, redis, Steps
<1>2. \A h \in Hours : /\ In(h, Counting)' = In(h, Counting)
                       /\ In(h, Served)' = In(h, Served)
  <2> \A x \in Questions : x # q => bucket'[x] = bucket[x] /\ pc'[x] = pc[x]
    BY DEF Goto, TypeOK
  <2> /\ pc'[q] \notin Counting /\ pc[q] \notin Counting
      /\ pc'[q] \notin Served /\ pc[q] \notin Served
    BY DEF Goto, TypeOK, Counting, Served
  <2> QED BY DEF In
<1>3. CountInv' BY <1>2 DEF CountInv, redis
<1>4. KeyInv' BY DEF KeyInv, KeysExpire, redis
<1>5. QuestionInv' BY DEF QuestionInv, Goto, TypeOK, Hours
<1> QED BY <1>1, <1>3, <1>4, <1>5

LEMMA IncrementKeys ==
    ASSUME QuotaInv, NEW h \in Hours, h <= hour, hour' = hour,
           INCREMENT_WITH_TTL(h)
    PROVE  /\ KeyInv'
           /\ keys' \subseteq Hours
           /\ count' \in [Hours -> Nat]
           /\ since' \in [Hours -> Hours \union {NoExpiry}]
<1> USE DEF QuotaInv, TypeOK, KeyInv, KeysExpire, INCREMENT_WITH_TTL
<1>1. keys' \subseteq Hours /\ count' \in [Hours -> Nat] OBVIOUS
<1>2. hour \in Hours \union {NoExpiry} OBVIOUS
<1>3. since' \in [Hours -> Hours \union {NoExpiry}] BY <1>2
<1>4. \A k \in Hours : since'[k] = IF k = h /\ count[h] = 0 THEN hour
                                   ELSE since[k]
  OBVIOUS
<1>5. hour # NoExpiry BY DEF Hours, NoExpiry
<1>6. KeyInv' BY <1>1, <1>4, <1>5
<1> QED BY <1>1, <1>3, <1>6

(* An increment counts the question; it is served within the limit.        *)
LEMMA IncrementCounts ==
    ASSUME QuotaInv, NEW q \in Questions, pc[q] = "increment",
           NEW step \in Counting, Goto(q, step),
           INCREMENT_WITH_TTL(bucket[q]), UNCHANGED <<hour, bucket>>,
           step \in Served => count'[bucket[q]] <= Limit
    PROVE  CountInv'
<1> DEFINE b == bucket[q]
<1>0. b \in Hours BY DEF QuotaInv, TypeOK
<1>1. \A h \in Hours : count'[h] = IF h = b THEN count[h] + 1 ELSE count[h]
  BY DEF QuotaInv, TypeOK, INCREMENT_WITH_TTL
<1>2. "increment" \notin Counting /\ "increment" \notin Served
  BY DEF Counting, Served
<1>3. \A h \in Hours : Cardinality(In(h, Counting)') =
        IF h = b THEN Cardinality(In(h, Counting)) + 1
                 ELSE Cardinality(In(h, Counting))
  BY <1>2, Moved, InFinite DEF One, QuotaInv
<1>4. \A h \in Hours : Cardinality(In(h, Served)') =
        IF h = b /\ step \in Served THEN Cardinality(In(h, Served)) + 1
                                    ELSE Cardinality(In(h, Served))
  BY <1>2, Moved, InFinite DEF One, QuotaInv
<1>5. \A h \in Hours : Cardinality(In(h, Served)) <= Cardinality(In(h, Counting))
  BY ServedCount
<1>6. Limit \in Nat /\ \A h \in Hours : /\ count[h] \in Nat
                                      /\ Cardinality(In(h, Served)) \in Nat
                                      /\ Cardinality(In(h, Counting)) \in Nat
  BY InFinite DEF QuotaInv, TypeOK
<1> QED BY <1>0, <1>1, <1>3, <1>4, <1>5, <1>6 DEF QuotaInv, CountInv

LEMMA LimitInv ==
    ASSUME QuotaInv, NEW q \in Questions, EnforceRateLimit(q)
    PROVE  QuotaInv'
<1> DEFINE step == IF count'[bucket[q]] > Limit THEN "refused" ELSE "context"
<1>0. bucket[q] \in Hours /\ bucket[q] <= hour
  BY DEF QuotaInv, TypeOK, QuestionInv
<1>1. /\ INCREMENT_WITH_TTL(bucket[q]) /\ Goto(q, step) /\ pc[q] = "increment"
      /\ UNCHANGED <<hour, bucket, attempt>>
  BY DEF EnforceRateLimit
<1>2. step \in Counting /\ step \in Steps
  BY DEF Counting, Served, Steps
<1>3. count'[bucket[q]] \in Nat BY <1>0, <1>1, IncrementKeys
<1>4. step \in Served => count'[bucket[q]] <= Limit
  BY <1>3 DEF Served
<1>5. CountInv'
  <2> HIDE DEF step
  <2> QED BY <1>1, <1>2, <1>4, IncrementCounts
<1>6. KeyInv' /\ TypeOK'
  BY <1>0, <1>1, <1>2, IncrementKeys DEF QuotaInv, TypeOK, Goto
<1>7. QuestionInv' BY <1>1 DEF QuotaInv, QuestionInv, Goto, TypeOK
<1> QED BY <1>5, <1>6, <1>7 DEF QuotaInv

LEMMA RedisFailsInv ==
    ASSUME QuotaInv, NEW q \in Questions, RedisFails(q)
    PROVE  QuotaInv'
<1>0. bucket[q] \in Hours /\ bucket[q] <= hour
  BY DEF QuotaInv, TypeOK, QuestionInv
<1>1. /\ "lost" \in Counting /\ "lost" \notin Served /\ "lost" \in Steps
      /\ "failed" \notin Counting /\ "failed" \notin Served
      /\ "failed" \in Steps /\ "increment" \notin Counting
  BY DEF Counting, Served, Steps, Ended
<1>2. CASE Goto(q, "failed") /\ UNCHANGED redis
  <2>1. CountInv' BY <1>1, <1>2, QuietMove DEF RedisFails, QuotaInv
  <2>2. TypeOK' /\ KeyInv' /\ QuestionInv'
    BY <1>1, <1>2
    DEF RedisFails, QuotaInv, TypeOK, KeyInv, KeysExpire, QuestionInv, Goto,
        redis
  <2> QED BY <2>1, <2>2 DEF QuotaInv
<1>3. CASE Goto(q, "lost") /\ INCREMENT_WITH_TTL(bucket[q])
  <2>1. CountInv' BY <1>1, <1>3, IncrementCounts DEF RedisFails
  <2>2. KeyInv' /\ TypeOK'
    BY <1>0, <1>1, <1>3, IncrementKeys DEF RedisFails, QuotaInv, TypeOK, Goto
  <2>3. QuestionInv' BY <1>3 DEF RedisFails, QuotaInv, QuestionInv, Goto, TypeOK
  <2> QED BY <2>1, <2>2, <2>3 DEF QuotaInv
<1> QED BY <1>2, <1>3 DEF RedisFails

(* The steps of a served question that leave Redis alone.                  *)
LEMMA ServedInv ==
    ASSUME QuotaInv, NEW q \in Questions, NEW step \in Served,
           pc[q] \in Served, Goto(q, step), UNCHANGED <<hour, redis, bucket>>,
           attempt' \in [Questions -> 0 .. MaxRetries],
           \A x \in Questions : pc'[x] = "backoff" => attempt'[x] < MaxRetries
    PROVE  QuotaInv'
<1>1. CountInv' BY QuietMove DEF QuotaInv, Counting
<1>2. step \in Steps BY DEF Steps, Counting
<1>3. TypeOK' /\ KeyInv' /\ QuestionInv'
  BY <1>2 DEF QuotaInv, TypeOK, KeyInv, KeysExpire, QuestionInv, Goto, redis
<1> QED BY <1>1, <1>3 DEF QuotaInv

LEMMA AnswerInv ==
    ASSUME QuotaInv, NEW q \in Questions,
           \/ BuildContext(q) \/ CallGemini(q) \/ Retry(q) \/ Timeout(q)
    PROVE  QuotaInv'
<1>0. /\ pc \in [Questions -> Steps]
      /\ attempt \in [Questions -> 0 .. MaxRetries]
      /\ \A x \in Questions : pc[x] = "backoff" => attempt[x] < MaxRetries
      /\ MaxRetries \in Nat
  BY DEF QuotaInv, TypeOK, QuestionInv
<1>1. {"context", "model", "backoff", "release", "answered", "charged"} = Served
  BY DEF Served
<1>2. CASE Retry(q)
  <2>1. /\ attempt' \in [Questions -> 0 .. MaxRetries]
        /\ \A x \in Questions : pc'[x] = "backoff" => attempt'[x] < MaxRetries
    BY <1>0, <1>2 DEF Retry, Goto
  <2> QED BY <1>1, <1>2, <2>1, ServedInv DEF Retry
<1>3. CASE BuildContext(q) \/ CallGemini(q) \/ Timeout(q)
  <2>1. PICK step \in Served :
          /\ Goto(q, step) /\ pc[q] \in Served
          /\ step = "backoff" => attempt[q] < MaxRetries
          /\ UNCHANGED <<hour, redis, bucket, attempt>>
    BY <1>1, <1>3 DEF BuildContext, CallGemini, Timeout
  <2>2. \A x \in Questions : pc'[x] = "backoff" => attempt'[x] < MaxRetries
    BY <1>0, <2>1 DEF Goto
  <2> QED BY <1>0, <2>1, <2>2, ServedInv
<1> QED BY <1>2, <1>3

LEMMA CrashInv ==
    ASSUME QuotaInv, NEW q \in Questions, Crash(q)
    PROVE  QuotaInv'
<1>1. CASE pc[q] = "increment" /\ Goto(q, "failed")
  <2>1. /\ "failed" \notin Counting /\ "failed" \notin Served
        /\ "failed" \in Steps /\ "increment" \notin Counting
    BY DEF Counting, Served, Steps, Ended
  <2>2. CountInv' BY <1>1, <2>1, QuietMove DEF Crash, QuotaInv
  <2>3. TypeOK' /\ KeyInv' /\ QuestionInv'
    BY <1>1, <2>1
    DEF Crash, QuotaInv, TypeOK, KeyInv, KeysExpire, QuestionInv, Goto, redis
  <2> QED BY <2>2, <2>3 DEF QuotaInv
<1>2. CASE /\ pc[q] \in {"context", "model", "backoff", "release"}
           /\ Goto(q, "charged")
  <2>1. "charged" \in Served /\ pc[q] \in Served BY <1>2 DEF Served
  <2>2. /\ attempt' \in [Questions -> 0 .. MaxRetries]
        /\ \A x \in Questions : pc'[x] = "backoff" => attempt'[x] < MaxRetries
    BY <1>2 DEF Crash, QuotaInv, QuestionInv, TypeOK, Goto
  <2> QED BY <1>2, <2>1, <2>2, ServedInv DEF Crash
<1> QED BY <1>1, <1>2 DEF Crash

(* A slot given back lowers the counter of the hour it was taken from, if  *)
(* that is still there, and no other.                                      *)
LEMMA ReleaseInv ==
    ASSUME QuotaInv, NEW q \in Questions, Release(q)
    PROVE  QuotaInv'
<1> DEFINE b == bucket[q]
<1>0. b \in Hours /\ b <= hour /\ pc[q] = "release"
  BY DEF QuotaInv, TypeOK, QuestionInv, Release
<1>1. CASE DECREMENT(b) /\ Goto(q, "released")
  <2>0. UNCHANGED <<hour, bucket, attempt, keys, since>>
    BY <1>1 DEF Release, DECREMENT
  <2>1. \A h \in Hours :
          count'[h] = IF h = b /\ count[h] # 0 THEN count[h] - 1 ELSE count[h]
    BY <1>1 DEF QuotaInv, TypeOK, DECREMENT
  <2>2. /\ "release" \in Counting /\ "release" \in Served
        /\ "released" \notin Counting /\ "released" \notin Served
        /\ "released" \in Steps
    BY DEF Counting, Served, Steps, Ended
  <2>3. \A h \in Hours : Cardinality(In(h, Counting)') =
          IF h = b THEN Cardinality(In(h, Counting)) - 1
                   ELSE Cardinality(In(h, Counting))
    BY <1>0, <1>1, <2>0, <2>2, Moved, InFinite DEF One, QuotaInv
  <2>4. \A h \in Hours : Cardinality(In(h, Served)') =
          IF h = b THEN Cardinality(In(h, Served)) - 1
                   ELSE Cardinality(In(h, Served))
    BY <1>0, <1>1, <2>0, <2>2, Moved, InFinite DEF One, QuotaInv
  <2>5. Cardinality(In(b, Counting)) # 0
    <3>1. In(b, Counting) # {} BY <1>0, <2>2 DEF In
    <3>2. IsFiniteSet(In(b, Counting)) BY InFinite
    <3> HIDE DEF b
    <3> QED BY <3>1, <3>2, FS_EmptySet
  <2>6. Limit \in Nat /\ \A h \in Hours : /\ count[h] \in Nat
                                        /\ Cardinality(In(h, Served)) \in Nat
                                        /\ Cardinality(In(h, Counting)) \in Nat
    BY InFinite DEF QuotaInv, TypeOK
  <2>7. CountInv'
    BY <1>0, <2>0, <2>1, <2>3, <2>4, <2>5, <2>6 DEF QuotaInv, CountInv
  <2>8. TypeOK'
    BY <1>1, <2>0, <2>2, <2>6 DEF QuotaInv, TypeOK, Goto, DECREMENT
  <2>9. KeyInv' BY <2>0, <2>1 DEF QuotaInv, KeyInv, KeysExpire
  <2>10. QuestionInv' BY <1>1, <2>0 DEF QuotaInv, QuestionInv, TypeOK, Goto
  <2> QED BY <2>7, <2>8, <2>9, <2>10 DEF QuotaInv
<1>2. CASE UNCHANGED redis /\ Goto(q, "charged")
  <2>1. "charged" \in Served /\ pc[q] \in Served BY <1>0 DEF Served
  <2>2. /\ attempt' \in [Questions -> 0 .. MaxRetries]
        /\ \A x \in Questions : pc'[x] = "backoff" => attempt'[x] < MaxRetries
    BY <1>2 DEF Release, QuotaInv, QuestionInv, TypeOK, Goto
  <2> QED BY <1>2, <2>1, <2>2, ServedInv DEF Release
<1> QED BY <1>1, <1>2 DEF Release

(* What expires is never the key of the current hour.                      *)
LEMMA ExpireInv ==
    ASSUME QuotaInv, NEW k \in Hours, Expire(k)
    PROVE  QuotaInv'
<1> USE DEF QuotaInv, Expire
<1>0. k # hour BY DEF KeyInv, TypeOK, Hours
<1>1. TypeOK' BY DEF TypeOK
<1>2. \A h \in Hours : /\ In(h, Counting)' = In(h, Counting)
                       /\ In(h, Served)' = In(h, Served)
                       /\ Cardinality(In(h, Counting)) \in Nat
  BY InFinite DEF In
<1>3. CountInv' BY <1>0, <1>2 DEF CountInv, TypeOK
<1>4. KeyInv' BY DEF KeyInv, KeysExpire, TypeOK
<1>5. QuestionInv' BY DEF QuestionInv
<1> QED BY <1>1, <1>3, <1>4, <1>5

(* Nobody has asked in the hour that begins.                               *)
LEMMA TickInv ==
    ASSUME QuotaInv, Tick
    PROVE  QuotaInv'
<1> USE DEF QuotaInv, Tick
<1>0. hour \in Hours /\ hour' = hour + 1 /\ hour' \in Hours
  BY DEF TypeOK, Hours
<1>1. TypeOK' BY <1>0 DEF TypeOK, redis
<1>2. \A h \in Hours : /\ In(h, Counting)' = In(h, Counting)
                       /\ In(h, Served)' = In(h, Served)
  BY DEF In
<1>7. \A h \in Hours, q \in Questions : h = hour' => bucket[q] # h
  BY <1>0 DEF QuestionInv, TypeOK, Hours
<1>8. \A h \in Hours : h = hour' => In(h, Counting) = {} /\ In(h, Served) = {}
  BY <1>7 DEF In
<1>3. \A h \in Hours : h = hour' => count[h] = 0
  BY <1>0 DEF KeyInv, Hours
<1>4. CountInv'
  <2> USE DEF CountInv
  <2> TAKE h \in Hours
  <2>1. CASE h = hour'
    <3>1. Cardinality({}) = 0 /\ Limit \in Nat BY FS_EmptySet
    <3>2. /\ In(h, Counting)' = {} /\ In(h, Served)' = {}
          /\ count'[h] = 0
      BY <1>2, <1>3, <1>8, <2>1 DEF redis
    <3> QED BY <3>1, <3>2
  <2>2. CASE h # hour'
    BY <1>2, <2>2 DEF CountInv, redis
  <2> QED BY <2>1, <2>2
<1>5. KeyInv' BY <1>0 DEF KeyInv, KeysExpire, redis, TypeOK, Hours
<1>6. QuestionInv' BY <1>0 DEF QuestionInv, TypeOK, Hours
<1> QED BY <1>1, <1>4, <1>5, <1>6

-----------------------------------------------------------------------------
(* The theorems.                                                           *)

LEMMA InitInv == Init => QuotaInv
<1> SUFFICES ASSUME Init PROVE QuotaInv OBVIOUS
<1>1. TypeOK /\ KeyInv /\ QuestionInv
  BY DEF Init, TypeOK, KeyInv, KeysExpire, QuestionInv, Hours, Steps
<1>2. \A h \in Hours : In(h, Counting) = {} /\ In(h, Served) = {}
  BY DEF Init, In, Counting, Served
<1>3. Cardinality({}) = 0 /\ Limit \in Nat BY FS_EmptySet
<1>4. CountInv BY <1>2, <1>3 DEF Init, CountInv
<1> QED BY <1>1, <1>4 DEF QuotaInv

LEMMA NextInv == QuotaInv /\ [Next]_vars => QuotaInv'
<1> SUFFICES ASSUME QuotaInv, [Next]_vars PROVE QuotaInv' OBVIOUS
<1>1. ASSUME NEW q \in Questions, Ask(q) PROVE QuotaInv'
  BY <1>1, AskInv
<1>2. ASSUME NEW q \in Questions, Step(q) \/ CallGemini(q) \/ Crash(q)
      PROVE  QuotaInv'
  BY <1>2, LimitInv, RedisFailsInv, AnswerInv, ReleaseInv, CrashInv DEF Step
<1>3. ASSUME NEW h \in Hours, Expire(h) PROVE QuotaInv'
  BY <1>3, ExpireInv
<1>4. CASE Tick BY <1>4, TickInv
<1>5. CASE UNCHANGED vars
  BY <1>5 DEF vars, QuotaInv, TypeOK, CountInv, In, KeyInv, KeysExpire,
              QuestionInv
<1> QED BY <1>1, <1>2, <1>3, <1>4, <1>5 DEF Next

(* What is true of every state the quota reaches.                          *)
THEOREM QuotaInductive == Spec => []QuotaInv
BY InitInv, NextInv, PTL DEF Spec

(* Every variable keeps its type.                                          *)
THEOREM QuotaTypes == Spec => []TypeOK
<1>1. QuotaInv => TypeOK BY DEF QuotaInv
<1> QED BY <1>1, QuotaInductive, PTL

(* The current hour never serves more questions than the limit.            *)
THEOREM HourIsCapped == Spec => []HourlyCap
<1>1. QuotaInv => HourlyCap
  BY DEF QuotaInv, CountInv, TypeOK, HourlyCap
<1> QED BY <1>1, QuotaInductive, PTL

(* The counter of an hour is within the questions of that hour.            *)
THEOREM ChargesAreOwn == Spec => []ChargesAreFair
<1>1. QuotaInv => ChargesAreFair
  BY InFinite DEF QuotaInv, TypeOK, CountInv, ChargesAreFair
<1> QED BY <1>1, QuotaInductive, PTL

(* No slot that is given back leaves a key behind for ever.                *)
THEOREM KeysAlwaysExpire == Spec => []KeysExpire
<1>1. QuotaInv => KeysExpire BY DEF QuotaInv, KeyInv
<1> QED BY <1>1, QuotaInductive, PTL
-----------------------------------------------------------------------------
(* The quota of an hour.                                                   *)

(* What a question that moves does to the numbers of the current hour.     *)
LEMMA MovedNow ==
    ASSUME QuotaInv, NEW q \in Questions, NEW step, NEW steps,
           Goto(q, step), UNCHANGED <<hour, bucket>>
    PROVE  Cardinality(In(hour, steps))' =
             Cardinality(In(hour, steps))
               - One(q, hour, bucket[q], pc[q], steps)
               + One(q, hour, bucket[q], step, steps)
<1>1. PICK h : h = hour OBVIOUS
<1>2. In(hour, steps) = In(h, steps) /\ In(hour, steps)' = In(h, steps)'
  BY <1>1 DEF In
<1>3. Cardinality(In(h, steps)') =
        Cardinality(In(h, steps)) - One(q, h, bucket[q], pc[q], steps)
                                  + One(q, h, bucket[q], step, steps)
  BY Moved DEF QuotaInv
<1> QED BY <1>1, <1>2, <1>3

LEMMA NowTypes ==
    ASSUME QuotaInv
    PROVE  /\ hour \in Hours /\ hour \in Nat /\ Limit \in Nat
           /\ count[hour] \in Nat
           /\ \A steps : Cardinality(In(hour, steps)) \in Nat
BY InFinite DEF QuotaInv, TypeOK, Hours

(* A question of an earlier hour, or one that stays as served or refused   *)
(* as it was, moves nothing.                                               *)
LEMMA QuotaQuiet ==
    ASSUME QuotaInv, NEW q \in Questions, NEW step, Goto(q, step),
           UNCHANGED <<hour, bucket>>, count'[hour] = count[hour],
           bucket[q] = hour => /\ pc[q] \in Served <=> step \in Served
                               /\ pc[q] = "refused" <=> step = "refused"
    PROVE  UNCHANGED Quota!quota
<1>1. \A steps \in {Served, {"refused"}} :
        /\ One(q, hour, bucket[q], pc[q], steps)
             = One(q, hour, bucket[q], step, steps)
        /\ One(q, hour, bucket[q], step, steps) \in Int
  BY DEF One
<1>2. /\ Cardinality(In(hour, Served))' = Cardinality(In(hour, Served))
      /\ Cardinality(In(hour, {"refused"}))'
           = Cardinality(In(hour, {"refused"}))
  BY <1>1, MovedNow, NowTypes
<1> QED BY <1>2 DEF Quota!quota

(* An increment of the current hour serves, refuses or is lost.            *)
LEMMA QuotaIncrement ==
    ASSUME QuotaInv, NEW q \in Questions, NEW step, Goto(q, step),
           pc[q] = "increment", INCREMENT_WITH_TTL(bucket[q]),
           UNCHANGED <<hour, bucket>>,
           \/ step = "lost"
           \/ step = IF count'[bucket[q]] > Limit THEN "refused" ELSE "context"
    PROVE  [Quota!QuotaNext]_(Quota!quota)
<1>0. \A h \in Hours : count'[h] = IF h = bucket[q] THEN count[h] + 1
                                    ELSE count[h]
  BY DEF QuotaInv, TypeOK, INCREMENT_WITH_TTL
<1>1. CASE bucket[q] # hour
  <2>1. count'[hour] = count[hour] BY <1>0, <1>1, NowTypes
  <2> QED BY <1>1, <2>1, QuotaQuiet
<1>2. CASE bucket[q] = hour
  <2>1. count'[hour] = count[hour] + 1 BY <1>0, <1>2, NowTypes
  <2>2. "increment" \notin Served /\ "increment" \notin {"refused"}
    BY DEF Served
  <2>3. \A steps \in {Served, {"refused"}} :
          Cardinality(In(hour, steps))' =
            IF step \in steps THEN Cardinality(In(hour, steps)) + 1
                              ELSE Cardinality(In(hour, steps))
    <3> TAKE steps \in {Served, {"refused"}}
    <3>1. One(q, hour, bucket[q], pc[q], steps) = 0 BY <2>2 DEF One
    <3>2. One(q, hour, bucket[q], step, steps)
            = IF step \in steps THEN 1 ELSE 0
      BY <1>2 DEF One
    <3> QED BY <3>1, <3>2, MovedNow, NowTypes
  <2>4. CASE step = "lost"
    <3>1. step \notin Served /\ step \notin {"refused"} BY <2>4 DEF Served
    <3> QED
      BY <2>1, <2>3, <3>1 DEF Quota!QuotaNext, Quota!Lose
  <2>5. CASE step = "refused" /\ count'[hour] > Limit
    <3>1. step \notin Served /\ step \in {"refused"} BY <2>5 DEF Served
    <3>2. count[hour] >= Limit BY <2>1, <2>5, NowTypes
    <3> QED
      BY <2>1, <2>3, <3>1, <3>2 DEF Quota!QuotaNext, Quota!Refuse
  <2>6. CASE step = "context" /\ ~(count'[hour] > Limit)
    <3>1. step \in Served /\ step \notin {"refused"} BY <2>6 DEF Served
    <3>2. count[hour] < Limit BY <2>1, <2>6, NowTypes
    <3> QED
      BY <2>1, <2>3, <3>1, <3>2 DEF Quota!QuotaNext, Quota!Serve
  <2> QED BY <1>2, <2>4, <2>5, <2>6
<1> QED BY <1>1, <1>2

(* A slot given back in its own hour is one that was served.               *)
LEMMA QuotaRelease ==
    ASSUME QuotaInv, NEW q \in Questions, Release(q)
    PROVE  [Quota!QuotaNext]_(Quota!quota)
<1>0. pc[q] = "release" /\ UNCHANGED <<hour, bucket>> BY DEF Release
<1>1. /\ "release" \in Served /\ "charged" \in Served
      /\ "released" \notin Served /\ "release" \in Counting
  BY DEF Served, Counting
<1>2. CASE UNCHANGED redis /\ Goto(q, "charged")
  BY <1>0, <1>1, <1>2, QuotaQuiet DEF redis
<1>3. CASE DECREMENT(bucket[q]) /\ Goto(q, "released")
  <2>0. \A h \in Hours : h # bucket[q] => count'[h] = count[h]
    BY <1>3 DEF QuotaInv, TypeOK, DECREMENT
  <2>1. CASE bucket[q] # hour
    <3>1. count'[hour] = count[hour] BY <2>0, <2>1, NowTypes
    <3> QED BY <1>0, <1>3, <2>1, <3>1, QuotaQuiet
  <2>2. CASE bucket[q] = hour
    <3>1. q \in In(hour, Served) /\ q \in In(hour, Counting)
      BY <1>0, <1>1, <2>2 DEF In
    <3>2. /\ Cardinality(In(hour, Served)) > 0
          /\ Cardinality(In(hour, Counting)) > 0
      BY <3>1, NowTypes, InFinite, FS_EmptySet
    <3>3. count[hour] > 0 /\ count'[hour] = count[hour] - 1
      BY <1>3, <2>2, <3>2, NowTypes
         DEF QuotaInv, CountInv, TypeOK, DECREMENT
    <3>4. Cardinality(In(hour, Served))' = Cardinality(In(hour, Served)) - 1
      <4>1. /\ One(q, hour, bucket[q], pc[q], Served) = 1
            /\ One(q, hour, bucket[q], "released", Served) = 0
        BY <1>0, <1>1, <2>2 DEF One
      <4> QED BY <1>0, <1>3, <4>1, MovedNow, NowTypes
    <3>5. Cardinality(In(hour, {"refused"}))'
            = Cardinality(In(hour, {"refused"}))
      <4>1. /\ One(q, hour, bucket[q], pc[q], {"refused"}) = 0
            /\ One(q, hour, bucket[q], "released", {"refused"}) = 0
        BY <1>0 DEF One
      <4> QED BY <1>0, <1>3, <4>1, MovedNow, NowTypes
    <3> QED
      BY <1>0, <3>2, <3>3, <3>4, <3>5 DEF Quota!QuotaNext, Quota!GiveBack
  <2> QED BY <2>1, <2>2
<1> QED BY <1>2, <1>3 DEF Release

LEMMA QuotaTick ==
    ASSUME QuotaInv, Tick
    PROVE  Quota!QuotaNext
<1>0. /\ hour \in Hours /\ hour \in Nat
      /\ hour' = hour + 1 /\ hour' \in Hours /\ hour' > hour
  BY NowTypes DEF Tick, Hours
<1>1. \A q \in Questions : bucket[q] # hour'
  BY <1>0 DEF QuotaInv, QuestionInv, TypeOK, Hours
<1>2. count'[hour'] = 0
  BY <1>0 DEF QuotaInv, KeyInv, Hours, Tick, redis
<1>3. In(hour, Served)' = {} /\ In(hour, {"refused"})' = {}
  BY <1>1 DEF In, Tick
<1>4. Cardinality({}) = 0 BY FS_EmptySet
<1> QED BY <1>0, <1>2, <1>3, <1>4 DEF Quota!QuotaNext, Quota!NextHour

LEMMA QuotaStep == QuotaInv /\ [Next]_vars => [Quota!QuotaNext]_(Quota!quota)
<1> SUFFICES ASSUME QuotaInv, [Next]_vars
             PROVE  [Quota!QuotaNext]_(Quota!quota)
  OBVIOUS
<1>1. ASSUME NEW q \in Questions, Ask(q) PROVE UNCHANGED Quota!quota
  <2>1. /\ "idle" \notin Served /\ "increment" \notin Served
        /\ pc[q] = "idle" /\ pc'[q] = "increment"
        /\ UNCHANGED <<hour, count>>
        /\ \A x \in Questions \ {q} : bucket'[x] = bucket[x] /\ pc'[x] = pc[x]
    BY <1>1 DEF Ask, Goto, Served, QuotaInv, TypeOK, redis
  <2>2. /\ In(hour, Served)' = In(hour, Served)
        /\ In(hour, {"refused"})' = In(hour, {"refused"})
    BY <2>1 DEF In
  <2> QED BY <2>1, <2>2 DEF Quota!quota
<1>2. ASSUME NEW q \in Questions, EnforceRateLimit(q)
      PROVE  [Quota!QuotaNext]_(Quota!quota)
  BY <1>2, QuotaIncrement DEF EnforceRateLimit
<1>3. ASSUME NEW q \in Questions, RedisFails(q)
      PROVE  [Quota!QuotaNext]_(Quota!quota)
  <2>1. CASE Goto(q, "failed") /\ UNCHANGED redis
    BY <1>3, <2>1, QuotaQuiet DEF RedisFails, Served, redis
  <2>2. CASE Goto(q, "lost") /\ INCREMENT_WITH_TTL(bucket[q])
    BY <1>3, <2>2, QuotaIncrement DEF RedisFails
  <2> QED BY <1>3, <2>1, <2>2 DEF RedisFails
<1>4. ASSUME NEW q \in Questions,
             \/ BuildContext(q) \/ CallGemini(q) \/ Retry(q) \/ Timeout(q)
             \/ Crash(q)
      PROVE  UNCHANGED Quota!quota
  <2>1. PICK step :
          /\ Goto(q, step)
          /\ pc[q] \in Served <=> step \in Served
          /\ pc[q] # "refused" /\ step # "refused"
          /\ UNCHANGED <<hour, redis, bucket>>
    <3>1. CASE BuildContext(q) BY <3>1 DEF BuildContext, Served
    <3>2. CASE CallGemini(q) BY <3>2 DEF CallGemini, Served
    <3>3. CASE Retry(q) BY <3>3 DEF Retry, Served
    <3>4. CASE Timeout(q) BY <3>4 DEF Timeout, Served
    <3>5. CASE Crash(q) BY <3>5 DEF Crash, Served
    <3> QED BY <1>4, <3>1, <3>2, <3>3, <3>4, <3>5
  <2> QED BY <2>1, QuotaQuiet DEF redis
<1>5. ASSUME NEW q \in Questions, Release(q)
      PROVE  [Quota!QuotaNext]_(Quota!quota)
  BY <1>5, QuotaRelease
<1>6. ASSUME NEW h \in Hours, Expire(h) PROVE UNCHANGED Quota!quota
  <2>1. h # hour /\ UNCHANGED <<hour, bucket, pc>>
    BY <1>6 DEF Expire, QuotaInv, KeyInv, TypeOK, Hours
  <2>2. count'[hour] = count[hour]
    BY <1>6, <2>1 DEF Expire, QuotaInv, TypeOK
  <2>3. /\ In(hour, Served)' = In(hour, Served)
        /\ In(hour, {"refused"})' = In(hour, {"refused"})
    BY <2>1 DEF In
  <2> QED BY <2>1, <2>2, <2>3 DEF Quota!quota
<1>7. CASE Tick BY <1>7, QuotaTick
<1>8. CASE UNCHANGED vars
  <2>1. /\ In(hour, Served)' = In(hour, Served)
        /\ In(hour, {"refused"})' = In(hour, {"refused"})
    BY <1>8 DEF vars, In
  <2> QED BY <1>8, <2>1 DEF vars, Quota!quota
<1> QED
  BY <1>1, <1>2, <1>3, <1>4, <1>5, <1>6, <1>7, <1>8 DEF Next, Step

(* The current hour is a counter from zero that serves below the limit and *)
(* refuses at it, whatever keys and slots of earlier hours do.             *)
THEOREM QuotaImplemented == Spec => ImplementsQuota
<1>1. Init => Quota!QuotaInit
  <2> SUFFICES ASSUME Init PROVE Quota!QuotaInit OBVIOUS
  <2>1. In(hour, Served) = {} /\ In(hour, {"refused"}) = {}
    BY DEF Init, In, Served
  <2>2. count[hour] = 0 BY DEF Init, Hours
  <2> QED BY <2>1, <2>2, FS_EmptySet DEF Init, Quota!QuotaInit
<1> QED
  BY <1>1, QuotaStep, QuotaInductive, PTL
     DEF Spec, ImplementsQuota, Quota!QuotaSpec
=============================================================================
