----------------------------- MODULE CacheProofs ----------------------------
(***************************************************************************)
(* TLAPS proofs about the cache, for every set of readers and writers.     *)
(***************************************************************************)
EXTENDS RedisCache, FiniteSetTheorems, TLAPS

USE CacheAssumption

(* CacheInv in parts: values, stale entries, the lock.                     *)
ValuesInv ==
    /\ \A r \in Readers : got[r] # None => got[r] <= row
    /\ \A r \in Readers : pc[r] = "store" => got[r] # None
    /\ \A r \in Readers : pc[r] \in Asking \union {"idle"} => got[r] = None
    /\ \A w \in Writers : wrote[w] <= row
    /\ entry # None => entry.v <= row

LockInv == ~overstayed => \A r \in Readers : pc[r] \in Holding => lock = r

LEMMA Parts == CacheInv <=> TypeOK /\ ValuesInv /\ StaleHasCause /\ LockInv
BY DEF CacheInv, ValuesInv, LockInv

LEMMA EntryType ==
    ASSUME TypeOK, entry # None
    PROVE  entry \in Entries /\ entry.v \in Nat /\ entry.late \in BOOLEAN
BY DEF TypeOK, Entries

-----------------------------------------------------------------------------
(* Types.                                                                  *)

LEMMA TypeStep == CacheInv /\ [Next]_vars => TypeOK'
<1> SUFFICES ASSUME CacheInv, [Next]_vars PROVE TypeOK' OBVIOUS
<1>0. TypeOK /\ ValuesInv BY Parts
<1> USE <1>0 DEF TypeOK, Goto, Take, Steps, Holding, readers, writers
<1>1. ASSUME NEW r \in Readers, Call(r) PROVE TypeOK' BY <1>1 DEF Call
<1>2. ASSUME NEW r \in Readers, Peek(r) PROVE TypeOK'
  BY <1>2, EntryType DEF Peek
<1>3. ASSUME NEW r \in Readers, Acquire(r) PROVE TypeOK' BY <1>3 DEF Acquire
<1>4. ASSUME NEW r \in Readers, Load(r) PROVE TypeOK' BY <1>4 DEF Load
<1>5. ASSUME NEW r \in Readers, Store(r) PROVE TypeOK'
  <2>1. got[r] \in Nat /\ row \in Nat BY <1>5 DEF Store, ValuesInv
  <2>2. (got[r] < row) \in BOOLEAN OBVIOUS
  <2>3. [v |-> got[r], late |-> got[r] < row] \in Entries
    BY <2>1, <2>2 DEF Entries
  <2>4. entry' \in Entries \union {None} BY <1>5, <2>3 DEF Store
  <2>5. pc' \in [Readers -> Steps] BY <1>5 DEF Store
  <2>6. got' \in [Readers -> Nat \union {None}] BY <1>5 DEF Store
  <2> QED BY <1>5, <2>4, <2>5, <2>6 DEF Store
<1>6. ASSUME NEW r \in Readers, Compare(r) \/ Unlock(r) PROVE TypeOK'
  BY <1>6 DEF Compare, Unlock
<1>7. ASSUME NEW r \in Readers, Poll(r) PROVE TypeOK'
  BY <1>7, EntryType DEF Poll
<1>8. ASSUME NEW r \in Readers, GiveUp(r) \/ LoadAlone(r) PROVE TypeOK'
  BY <1>8 DEF GiveUp, LoadAlone
<1>9. ASSUME NEW r \in Readers, RedisFails(r) \/ Crash(r) PROVE TypeOK'
  BY <1>9 DEF RedisFails, Crash
<1>10. ASSUME NEW w \in Writers, Write(w) PROVE TypeOK'
  BY <1>10 DEF Write, Commit, Scan, Del, FlushLost
<1>11. CASE EntryExpires \/ LockExpires
  BY <1>11 DEF EntryExpires, LockExpires
<1>12. CASE UNCHANGED vars BY <1>12 DEF vars
<1> QED
  BY <1>1, <1>2, <1>3, <1>4, <1>5, <1>6, <1>7, <1>8, <1>9, <1>10, <1>11, <1>12
  DEF Next, Step

-----------------------------------------------------------------------------
(* Values: nobody holds a version from the future.                         *)

LEMMA ValuesStep == CacheInv /\ [Next]_vars => ValuesInv'
<1> SUFFICES ASSUME CacheInv, [Next]_vars PROVE ValuesInv' OBVIOUS
<1>0. TypeOK /\ ValuesInv BY Parts
<1> USE <1>0 DEF TypeOK, ValuesInv, Goto, Take, Asking, readers, writers
<1>1. ASSUME NEW r \in Readers, Call(r) PROVE ValuesInv' BY <1>1 DEF Call
<1>2. ASSUME NEW r \in Readers, Peek(r) PROVE ValuesInv'
  BY <1>2, EntryType DEF Peek
<1>3. ASSUME NEW r \in Readers, Acquire(r) PROVE ValuesInv' BY <1>3 DEF Acquire
<1>4. ASSUME NEW r \in Readers, Load(r) PROVE ValuesInv' BY <1>4 DEF Load
<1>5. ASSUME NEW r \in Readers, Store(r) PROVE ValuesInv' BY <1>5 DEF Store
<1>6. ASSUME NEW r \in Readers, Compare(r) \/ Unlock(r) PROVE ValuesInv'
  BY <1>6 DEF Compare, Unlock
<1>7. ASSUME NEW r \in Readers, Poll(r) PROVE ValuesInv'
  BY <1>7, EntryType DEF Poll
<1>8. ASSUME NEW r \in Readers, GiveUp(r) \/ LoadAlone(r) PROVE ValuesInv'
  BY <1>8 DEF GiveUp, LoadAlone
<1>9. ASSUME NEW r \in Readers, RedisFails(r) \/ Crash(r) PROVE ValuesInv'
  BY <1>9 DEF RedisFails, Crash
<1>10. ASSUME NEW w \in Writers, Commit(w) PROVE ValuesInv'
  <2>1. \A r \in Readers : got[r] # None => got[r] \in Nat OBVIOUS
  <2>2. \A x \in Writers : wrote'[x] <= row' BY <1>10 DEF Commit
  <2>3. \A r \in Readers : got'[r] # None => got'[r] <= row'
    BY <1>10, <2>1 DEF Commit
  <2>4. entry' # None => entry'.v <= row' BY <1>10, EntryType DEF Commit
  <2> QED BY <1>10, <2>2, <2>3, <2>4 DEF Commit
<1>11. ASSUME NEW w \in Writers, Scan(w) \/ Del(w) \/ FlushLost(w)
       PROVE  ValuesInv'
  BY <1>11 DEF Scan, Del, FlushLost
<1>12. CASE EntryExpires \/ LockExpires
  BY <1>12 DEF EntryExpires, LockExpires
<1>13. CASE UNCHANGED vars BY <1>13 DEF vars
<1> QED
  BY <1>1, <1>2, <1>3, <1>4, <1>5, <1>6, <1>7, <1>8, <1>9, <1>10, <1>11,
     <1>12, <1>13
  DEF Next, Step, Write

-----------------------------------------------------------------------------
(* Stale entries: a commit makes its own writer the cause, and a flush that *)
(* ends has found no entry or has deleted it.                              *)

LEMMA StaleStep == CacheInv /\ [Next]_vars => StaleHasCause'
<1> SUFFICES ASSUME CacheInv, [Next]_vars PROVE StaleHasCause' OBVIOUS
<1>0. TypeOK /\ ValuesInv /\ StaleHasCause BY Parts
<1> USE <1>0 DEF StaleHasCause
<1>1. CASE UNCHANGED <<row, entry, wpc, wrote>> BY <1>1
<1>2. ASSUME NEW r \in Readers, Store(r) PROVE StaleHasCause'
  <2>1. CASE entry' = [v |-> got[r], late |-> got[r] < row]
    BY <1>2, <2>1 DEF Store, writers
  <2>2. CASE UNCHANGED entry BY <1>2, <2>2 DEF Store, writers
  <2> QED BY <1>2, <2>1, <2>2 DEF Store
<1>3. ASSUME NEW w \in Writers, Commit(w) PROVE StaleHasCause'
  <2> SUFFICES ASSUME entry # None, ~entry.late
               PROVE  \E x \in Writers : wpc'[x] \in {"scan", "del", "lost"}
                                          /\ wrote'[x] > entry.v
    BY <1>3 DEF Commit
  <2>1. wpc'[w] = "scan" /\ wrote'[w] = row + 1 BY <1>3 DEF Commit, TypeOK
  <2>2. entry.v \in Nat /\ entry.v <= row /\ row \in Nat
    BY EntryType DEF ValuesInv, TypeOK
  <2> QED BY <2>1, <2>2
<1>4. ASSUME NEW w \in Writers, Scan(w) \/ FlushLost(w) PROVE StaleHasCause'
  BY <1>4 DEF Scan, FlushLost, TypeOK
<1>5. ASSUME NEW w \in Writers, Del(w) PROVE StaleHasCause' BY <1>5 DEF Del
<1>6. CASE EntryExpires BY <1>6 DEF EntryExpires
<1>7. CASE LockExpires BY <1>1, <1>7 DEF LockExpires, writers
<1>8. ASSUME NEW r \in Readers,
             Call(r) \/ (Step(r) /\ ~Store(r)) \/ RedisFails(r) \/ Crash(r)
      PROVE  StaleHasCause'
  BY <1>1, <1>8
  DEF Call, Step, Peek, Acquire, Load, Compare, Unlock, Poll, GiveUp,
      LoadAlone, RedisFails, Crash, writers
<1> QED
  BY <1>1, <1>2, <1>3, <1>4, <1>5, <1>6, <1>7, <1>8
  DEF Next, Step, Write, vars, writers

-----------------------------------------------------------------------------
(* The lock: until one expires under its holder, who holds has its token.  *)

LEMMA LockStep == CacheInv /\ [Next]_vars => LockInv'
<1> SUFFICES ASSUME CacheInv, [Next]_vars PROVE LockInv' OBVIOUS
<1>0. TypeOK /\ LockInv BY Parts
<1> USE <1>0 DEF TypeOK, LockInv, Holding, Goto
<1>1. ASSUME NEW r \in Readers, Acquire(r) PROVE LockInv' BY <1>1 DEF Acquire
<1>2. ASSUME NEW r \in Readers, Load(r) \/ Store(r) \/ Compare(r)
      PROVE  LockInv'
  BY <1>2 DEF Load, Store, Compare
<1>3. ASSUME NEW r \in Readers, Unlock(r) PROVE LockInv' BY <1>3 DEF Unlock
<1>4. ASSUME NEW r \in Readers,
             Call(r) \/ Peek(r) \/ Poll(r) \/ GiveUp(r) \/ LoadAlone(r)
      PROVE  LockInv'
  BY <1>4 DEF Call, Peek, Poll, GiveUp, LoadAlone
<1>5. ASSUME NEW r \in Readers, RedisFails(r) \/ Crash(r) PROVE LockInv'
  BY <1>5 DEF RedisFails, Crash
<1>6. ASSUME NEW w \in Writers, Write(w) PROVE LockInv'
  BY <1>6 DEF Write, Commit, Scan, Del, FlushLost, readers
<1>7. CASE EntryExpires BY <1>7 DEF EntryExpires, readers
<1>8. CASE LockExpires BY <1>8 DEF LockExpires
<1>9. CASE UNCHANGED vars BY <1>9 DEF vars, readers
<1> QED
  BY <1>1, <1>2, <1>3, <1>4, <1>5, <1>6, <1>7, <1>8, <1>9 DEF Next, Step

-----------------------------------------------------------------------------
(* The theorems.                                                           *)

(* What is true of every state the cache reaches.                          *)
THEOREM CacheInductive == Spec => []CacheInv
<1>1. Init => CacheInv
  <2> SUFFICES ASSUME Init PROVE CacheInv OBVIOUS
  <2>1. TypeOK BY DEF Init, TypeOK, Steps
  <2>2. ValuesInv /\ StaleHasCause
    BY DEF Init, ValuesInv, StaleHasCause
  <2>3. LockInv BY DEF Init, LockInv, Holding
  <2> QED BY <2>1, <2>2, <2>3, Parts
<1>2. CacheInv /\ [Next]_vars => CacheInv'
  <2>1. CacheInv' <=> TypeOK' /\ ValuesInv' /\ StaleHasCause' /\ LockInv'
    BY DEF CacheInv, ValuesInv, LockInv
  <2> QED BY <2>1, TypeStep, ValuesStep, StaleStep, LockStep
<1> QED BY <1>1, <1>2, PTL DEF Spec

(* Every variable keeps its type.                                          *)
THEOREM CacheTypes == Spec => []TypeOK
<1>1. CacheInv => TypeOK BY DEF CacheInv
<1> QED BY <1>1, CacheInductive, PTL

(* An entry is stale only by a late fill or a flush that is due or lost.   *)
THEOREM StaleEntriesHaveCause == Spec => []StaleHasCause
<1>1. CacheInv => StaleHasCause BY DEF CacheInv
<1> QED BY <1>1, CacheInductive, PTL

(* Without a loader slower than the lock's TTL, the key has one filler.    *)
THEOREM FillerIsAlone == Spec => []OneFiller
<1>1. CacheInv => OneFiller
  <2> SUFFICES ASSUME CacheInv, ~overstayed
               PROVE  Cardinality({r \in Readers : pc[r] \in Holding}) <= 1
    BY DEF OneFiller
  <2>1. {r \in Readers : pc[r] \in Holding} \in SUBSET {lock}
    BY DEF CacheInv
  <2>2. IsFiniteSet({lock}) /\ Cardinality({lock}) = 1 BY FS_Singleton
  <2> QED BY <2>1, <2>2, FS_Subset, FS_CardinalityType
<1> QED BY <1>1, CacheInductive, PTL
-----------------------------------------------------------------------------
(* What a get promises.                                                    *)

(* A reader that goes on leaves the others where they are.                 *)
LEMMA OneMoves ==
    ASSUME TypeOK, NEW r \in Readers, NEW step, NEW v,
           Goto(r, step), Take(r, v)
    PROVE  Get!Gets(r, Phase(step), v)
<1>1. [x \in Readers |-> Phase(pc[x])]'
        = [[x \in Readers |-> Phase(pc[x])] EXCEPT ![r] = Phase(step)]
  BY DEF TypeOK, Goto
<1> QED BY <1>1 DEF Get!Gets, Take

LEMMA SameHands ==
    ASSUME TypeOK, NEW r \in Readers, UNCHANGED got
    PROVE  Take(r, got[r])
BY DEF TypeOK, Take

(* A step of one reader within a phase, got and entry as they were.        *)
LEMMA SamePhase ==
    ASSUME TypeOK, NEW r \in Readers, NEW step, Goto(r, step),
           Phase(step) = Phase(pc[r]), UNCHANGED <<got, entry>>
    PROVE  UNCHANGED Get!aside
<1>1. [x \in Readers |-> Phase(pc[x])]' = [x \in Readers |-> Phase(pc[x])]
  BY DEF TypeOK, Goto
<1> QED BY <1>1 DEF Get!aside

LEMMA Phases ==
    /\ Phase("idle") = "away" /\ Phase("store") = "loaded"
    /\ \A s \in Asking : Phase(s) = "asked"
    /\ Phase("compare") = "closing" /\ Phase("unlock") = "closing"
    /\ Phase("done") = "ended"
    /\ Asking = {"peek", "acquire", "load", "wait", "alone"}
BY DEF Phase, Asking

LEMMA GetStep == CacheInv /\ [Next]_vars => [Get!AsideNext]_(Get!aside)
<1> SUFFICES ASSUME CacheInv, [Next]_vars
             PROVE  [Get!AsideNext]_(Get!aside)
  OBVIOUS
<1>0. TypeOK /\ ValuesInv BY Parts
<1> DEFINE at == [x \in Readers |-> Phase(pc[x])]
           kept == IF entry = None THEN None ELSE entry.v
<1>a. \A r \in Readers : at[r] = Phase(pc[r]) OBVIOUS
<1>1. ASSUME NEW r \in Readers, Call(r) PROVE Get!AsideNext
  <2>1. Get!Gets(r, "asked", None) BY <1>0, <1>1, OneMoves, Phases DEF Call
  <2>2. at[r] \in {"away", "ended"} /\ kept' = kept
    BY <1>1, Phases DEF Call
  <2>3. Get!Ask(r) BY <2>1, <2>2 DEF Get!Ask
  <2> QED BY <2>3 DEF Get!AsideNext
<1>2. ASSUME NEW r \in Readers, entry # None, pc[r] \in Asking,
             Goto(r, "done"), Take(r, entry.v), UNCHANGED entry
      PROVE  Get!AsideNext
  <2>1. Get!Gets(r, "ended", entry.v) BY <1>0, <1>2, OneMoves, Phases
  <2>2. at[r] = "asked" /\ kept = entry.v /\ kept # None /\ kept' = kept
    BY <1>0, <1>2, EntryType, Phases
  <2>3. Get!Hit(r) BY <2>1, <2>2 DEF Get!Hit
  <2> QED BY <2>3 DEF Get!AsideNext
<1>3. ASSUME NEW r \in Readers, pc[r] \in Asking, UNCHANGED <<got, entry>>,
             NEW s \in {"compare", "done"}, Goto(r, s)
      PROVE  Get!AsideNext
  <2>1. got[r] = None BY <1>0, <1>3 DEF ValuesInv
  <2>2. Get!Gets(r, "closing", None) \/ Get!Gets(r, "ended", None)
    BY <1>0, <1>3, <2>1, OneMoves, SameHands, Phases
  <2>3. at[r] = "asked" /\ kept' = kept BY <1>3, Phases
  <2>4. Get!Fail(r) BY <2>2, <2>3 DEF Get!Fail
  <2> QED BY <2>4 DEF Get!AsideNext
<1>4. ASSUME NEW r \in Readers, pc[r] \in Asking, UNCHANGED entry,
             NEW s \in {"store", "done"}, Goto(r, s), Take(r, row)
      PROVE  Get!AsideNext
  <2>1. Get!Gets(r, Phase(s), row) BY <1>0, <1>4, OneMoves
  <2>2. Phase(s) \in {"loaded", "ended"} BY Phases
  <2>3. at[r] = "asked" /\ kept' = kept BY <1>4, Phases
  <2>4. Get!Load(r) BY <2>1, <2>2, <2>3 DEF Get!Load
  <2> QED BY <2>4 DEF Get!AsideNext
<1>4a. ASSUME NEW r \in Readers, pc[r] \in {"compare", "unlock"},
             Goto(r, "done"), UNCHANGED entry, UNCHANGED got \/ Take(r, None)
      PROVE  Get!AsideNext
  <2>1. Get!Gets(r, "ended", got[r]) \/ Get!Gets(r, "ended", None)
    BY <1>0, <1>4a, OneMoves, SameHands, Phases
  <2>2. at[r] = "closing" /\ kept' = kept BY <1>4a, Phases
  <2>3. Get!Close(r) BY <2>1, <2>2 DEF Get!Close
  <2> QED BY <2>3 DEF Get!AsideNext
<1>5. ASSUME NEW r \in Readers, Peek(r) PROVE [Get!AsideNext]_(Get!aside)
  <2>1. CASE entry = None /\ Goto(r, "acquire") /\ UNCHANGED got
    BY <1>0, <1>5, <2>1, SamePhase, Phases DEF Peek
  <2>2. CASE entry # None /\ Goto(r, "done") /\ Take(r, entry.v)
    BY <1>2, <1>5, <2>2, Phases DEF Peek
  <2> QED BY <1>5, <2>1, <2>2 DEF Peek
<1>6. ASSUME NEW r \in Readers, Acquire(r) \/ GiveUp(r)
      PROVE  UNCHANGED Get!aside
  BY <1>0, <1>6, SamePhase, Phases DEF Acquire, GiveUp
<1>7. ASSUME NEW r \in Readers, Load(r) PROVE Get!AsideNext
  BY <1>3, <1>4, <1>7, Phases DEF Load
<1>8. ASSUME NEW r \in Readers, Store(r) PROVE Get!AsideNext
  <2>1. got[r] \in Nat /\ got[r] # None /\ pc[r] = "store"
    BY <1>0, <1>8, CacheAssumption DEF Store, ValuesInv, TypeOK
  <2>2. Get!Gets(r, "closing", got[r]) \/ Get!Gets(r, "closing", None)
    BY <1>0, <1>8, OneMoves, SameHands, Phases DEF Store
  <2>3. at[r] = "loaded" BY <2>1, Phases
  <2>4. kept' = got[r] \/ kept' = kept
    <3>1. CASE entry' = [v |-> got[r], late |-> got[r] < row]
      <4>1. (got[r] < row) \in BOOLEAN BY <1>0, <2>1 DEF TypeOK
      <4>2. entry' \in Entries /\ entry'.v = got[r]
        BY <2>1, <3>1, <4>1 DEF Entries
      <4> QED BY <4>2, CacheAssumption
    <3>2. CASE UNCHANGED entry BY <3>2
    <3> QED BY <1>8, <3>1, <3>2 DEF Store
  <2>5. Get!Keep(r) BY <2>2, <2>3, <2>4 DEF Get!Keep
  <2> QED BY <2>5 DEF Get!AsideNext
<1>9. ASSUME NEW r \in Readers, Compare(r) \/ Unlock(r)
       PROVE  [Get!AsideNext]_(Get!aside)
  <2>1. CASE Compare(r) /\ lock = r
    BY <1>0, <2>1, SamePhase, Phases DEF Compare
  <2>2. CASE (Compare(r) /\ lock # r) \/ Unlock(r)
    BY <1>4a, <2>2 DEF Compare, Unlock
  <2> QED BY <1>9, <2>1, <2>2
<1>10. ASSUME NEW r \in Readers, Poll(r) PROVE Get!AsideNext
  BY <1>2, <1>10, Phases DEF Poll
<1>11. ASSUME NEW r \in Readers, LoadAlone(r) PROVE Get!AsideNext
  BY <1>3, <1>4, <1>11, Phases DEF LoadAlone
<1>12. ASSUME NEW r \in Readers, RedisFails(r)
       PROVE  [Get!AsideNext]_(Get!aside)
  <2>1. CASE pc[r] \in {"peek", "acquire", "wait"}
    <3>1. got[r] = None BY <1>0, <2>1, Phases DEF ValuesInv
    <3>2. UNCHANGED got BY <1>0, <1>12, <3>1 DEF RedisFails, Take, TypeOK
    <3> QED BY <1>3, <1>12, <2>1, <3>2, Phases DEF RedisFails
  <2>2. CASE pc[r] \in {"compare", "unlock"}
    BY <1>4a, <1>12, <2>2 DEF RedisFails
  <2> QED BY <1>12, <2>1, <2>2 DEF RedisFails
<1>13. ASSUME NEW r \in Readers, Crash(r) PROVE Get!AsideNext
  <2>1. Get!Gets(r, "away", None)
    BY <1>0, <1>13, OneMoves, Phases DEF Crash
  <2>2. kept' = kept BY <1>13 DEF Crash
  <2>3. Get!Leave(r) BY <2>1, <2>2 DEF Get!Leave
  <2> QED BY <2>3 DEF Get!AsideNext
<1>14. CASE UNCHANGED <<entry, pc, got>> BY <1>14 DEF Get!aside
<1>15. CASE entry' = None /\ UNCHANGED <<pc, got>>
  <2>1. Get!Forget BY <1>15 DEF Get!Forget
  <2> QED BY <2>1 DEF Get!AsideNext
<1>16. ASSUME NEW w \in Writers, Write(w)
       PROVE  \/ UNCHANGED <<entry, pc, got>>
              \/ entry' = None /\ UNCHANGED <<pc, got>>
  BY <1>16 DEF Write, Commit, Scan, Del, FlushLost, readers
<1>17. ASSUME EntryExpires \/ LockExpires \/ UNCHANGED vars
       PROVE  \/ UNCHANGED <<entry, pc, got>>
              \/ entry' = None /\ UNCHANGED <<pc, got>>
  BY <1>17 DEF EntryExpires, LockExpires, vars, readers
<1> QED
  BY <1>1, <1>5, <1>6, <1>7, <1>8, <1>9, <1>10, <1>11, <1>12, <1>13, <1>14,
     <1>15, <1>16, <1>17
  DEF Next, Step

(* A get answers with what was kept or with a row of its time, and fills   *)
(* the key with nothing else, for any number of readers and writers.       *)
THEOREM GetKeepsItsPromise == Spec => ImplementsCacheAside
<1>1. Init => Get!AsideInit
  BY Phases DEF Init, Get!AsideInit
<1> QED
  BY <1>1, GetStep, CacheInductive, PTL
     DEF Spec, ImplementsCacheAside, Get!AsideSpec
=============================================================================
