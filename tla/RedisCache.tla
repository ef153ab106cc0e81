----------------------------- MODULE RedisCache -----------------------------
(***************************************************************************)
(* One key of RedisService: cache-aside reads with a single-flight lock    *)
(* (get), and writers that commit to Postgres and then flush the key       *)
(* (invalidate, invalidatePattern).                                        *)
(*                                                                         *)
(* The row behind the key is a version, raised by every commit; a cached   *)
(* null is a version like any other.  Each Redis command and each query is *)
(* one step.  late and overstayed are history, read by properties alone.   *)
(* An X_Y before an X is a mutation of X that tests the properties.        *)
(***************************************************************************)
EXTENDS Naturals, FiniteSets

CONSTANTS
    Readers,    \* callers of get; a reader may call again
    Writers,    \* services that write the row, once each
    None        \* nil of Redis

(* A cached version, and whether it was out of date when it was stored.    *)
Entries == [v : Nat, late : BOOLEAN]

ASSUME CacheAssumption == None \notin Readers \union Nat \union Entries

VARIABLES
    row,        \* version in the database
    entry,      \* the key: version, and if it was late when stored
    lock,       \* lock:<key>: the reader whose token it holds, or None
    pc, got,    \* per reader: next step, value it will return
    blocked,    \* readers that wait since before the lock last fell free
    wpc, wrote, \* per writer: next step, version it committed
    overstayed  \* a lock has expired under a live holder

readers == <<pc, got, blocked>>
writers == <<wpc, wrote>>
vars    == <<row, entry, lock, readers, writers, overstayed>>

(* The lock is held from SET NX to the end of the finally block.           *)
Holding == {"load", "store", "compare", "unlock"}
Steps   == {"idle", "peek", "acquire", "wait", "alone", "done"}
              \union Holding

Init ==
    /\ row        = 0
    /\ entry      = None
    /\ lock       = None
    /\ pc         = [r \in Readers |-> "idle"]
    /\ got        = [r \in Readers |-> None]
    /\ blocked    = {}
    /\ wpc        = [w \in Writers |-> "idle"]
    /\ wrote      = [w \in Writers |-> 0]
    /\ overstayed = FALSE

Goto(r, step) == pc' = [pc EXCEPT ![r] = step]
Take(r, v)    == got' = [got EXCEPT ![r] = v]

-----------------------------------------------------------------------------
(* get.                                                                    *)

Call(r) ==
    /\ pc[r] \in {"idle", "done"}
    /\ Goto(r, "peek") /\ Take(r, None)
    /\ UNCHANGED <<row, entry, lock, blocked, writers, overstayed>>

(* peek: GET key.                                                          *)
Peek(r) ==
    /\ pc[r] = "peek"
    /\ \/ entry = None /\ Goto(r, "acquire") /\ UNCHANGED got
       \/ entry # None /\ Goto(r, "done") /\ Take(r, entry.v)
    /\ UNCHANGED <<row, entry, lock, blocked, writers, overstayed>>

(* SET lock:<key> token NX EX 10.                                          *)
Acquire_WithoutNX(r) ==
    /\ pc[r] = "acquire"
    /\ lock' = r /\ Goto(r, "load")
    /\ UNCHANGED <<row, entry, got, blocked, writers, overstayed>>
Acquire(r) ==
    /\ pc[r] = "acquire"
    /\ \/ lock = None /\ lock' = r /\ Goto(r, "load") /\ UNCHANGED blocked
       \/ /\ lock # None /\ Goto(r, "wait")
          /\ blocked' = blocked \union {r}
          /\ UNCHANGED lock
    /\ UNCHANGED <<row, entry, got, writers, overstayed>>

(* loader(): a query, which may throw (an unknown id, a lost connection).  *)
Load(r) ==
    /\ pc[r] = "load"
    /\ \/ Goto(r, "store") /\ Take(r, row)
       \/ Goto(r, "compare") /\ UNCHANGED got
    /\ UNCHANGED <<row, entry, lock, blocked, writers, overstayed>>

(* set: SET key value EX ttl, whatever happened since the load.  A SET     *)
(* that throws, with or without effect, rejects the get.                   *)
Store(r) ==
    /\ pc[r] = "store"
    /\ \/ entry' = [v |-> got[r], late |-> got[r] < row] /\ UNCHANGED got
       \/ /\ entry' \in {[v |-> got[r], late |-> got[r] < row], entry}
          /\ Take(r, None)
    /\ Goto(r, "compare")
    /\ UNCHANGED <<row, lock, blocked, writers, overstayed>>

(* finally: GET lock:<key>, and DEL in a step of its own.                  *)
Compare(r) ==
    /\ pc[r] = "compare"
    /\ Goto(r, IF lock = r THEN "unlock" ELSE "done")
    /\ UNCHANGED <<row, entry, lock, got, blocked, writers, overstayed>>

Unlock(r) ==
    /\ pc[r] = "unlock"
    /\ lock' = None /\ blocked' = {}
    /\ Goto(r, "done")
    /\ UNCHANGED <<row, entry, got, writers, overstayed>>

(* waitForCacheFill: a poll that hits.                                     *)
Poll_LockKey(r) ==
    /\ pc[r] = "wait" /\ lock # None
    /\ Goto(r, "done") /\ Take(r, lock)
    /\ blocked' = blocked \ {r}
    /\ UNCHANGED <<row, entry, lock, writers, overstayed>>
Poll(r) ==
    /\ pc[r] = "wait" /\ entry # None
    /\ Goto(r, "done") /\ Take(r, entry.v)
    /\ blocked' = blocked \ {r}
    /\ UNCHANGED <<row, entry, lock, writers, overstayed>>

(* WAIT_BUDGET_MS is LOCK_TTL_SEC: when it is over, the lock that was met  *)
(* is gone, by release or by expiry.                                       *)
GiveUp_OnceFilled(r) ==
    /\ pc[r] = "wait" /\ r \notin blocked /\ entry # None
    /\ Goto(r, "alone")
    /\ UNCHANGED <<row, entry, lock, got, blocked, writers, overstayed>>
GiveUp(r) ==
    /\ pc[r] = "wait" /\ r \notin blocked
    /\ Goto(r, "alone")
    /\ UNCHANGED <<row, entry, lock, got, blocked, writers, overstayed>>

(* The loader without a cache fill; it may throw, too.                     *)
LoadAlone(r) ==
    /\ pc[r] = "alone"
    /\ Goto(r, "done")
    /\ Take(r, row) \/ UNCHANGED got
    /\ UNCHANGED <<row, entry, lock, blocked, writers, overstayed>>

(* Redis throws at the caller, who answers 500, in the finally block also. *)
(* A lost reply to SET NX leaves a lock nobody will release.               *)
RedisFails(r) ==
    /\ pc[r] \in {"peek", "acquire", "wait", "compare", "unlock"}
    /\ Goto(r, "done") /\ Take(r, None)
    /\ \/ UNCHANGED lock
       \/ pc[r] = "acquire" /\ lock = None /\ lock' = r
    /\ blocked' = blocked \ {r}
    /\ UNCHANGED <<row, entry, writers, overstayed>>

(* A reader's process dies: nothing is released.                           *)
Crash(r) ==
    /\ pc[r] \notin {"idle", "done"}
    /\ Goto(r, "idle") /\ Take(r, None)
    /\ blocked' = blocked \ {r}
    /\ UNCHANGED <<row, entry, lock, writers, overstayed>>

-----------------------------------------------------------------------------
(* A write: commit, then the flush.  SCAN meets the key at one instant and *)
(* DEL follows in another; a direct DEL is the two without a gap.          *)

Commit(w) ==
    /\ wpc[w] = "idle"
    /\ row'   = row + 1
    /\ wrote' = [wrote EXCEPT ![w] = row + 1]
    /\ wpc'   = [wpc EXCEPT ![w] = "scan"]
    /\ UNCHANGED <<entry, lock, readers, overstayed>>

Scan_OtherPattern(w) ==
    /\ wpc[w] = "scan"
    /\ wpc' = [wpc EXCEPT ![w] = "flushed"]
    /\ UNCHANGED <<row, entry, lock, readers, wrote, overstayed>>
Scan(w) ==
    /\ wpc[w] = "scan"
    /\ wpc' = [wpc EXCEPT ![w] = IF entry = None THEN "flushed" ELSE "del"]
    /\ UNCHANGED <<row, entry, lock, readers, wrote, overstayed>>

Del(w) ==
    /\ wpc[w] = "del"
    /\ entry' = None
    /\ wpc' = [wpc EXCEPT ![w] = "flushed"]
    /\ UNCHANGED <<row, lock, readers, wrote, overstayed>>

(* The process or Redis fails between the commit and the flush.            *)
FlushLost(w) ==
    /\ wpc[w] \in {"scan", "del"}
    /\ wpc' = [wpc EXCEPT ![w] = "lost"]
    /\ UNCHANGED <<row, entry, lock, readers, wrote, overstayed>>

-----------------------------------------------------------------------------
(* Time.                                                                   *)

EntryExpires ==
    /\ entry # None
    /\ entry' = None
    /\ UNCHANGED <<row, lock, readers, writers, overstayed>>

(* Ten seconds after SET NX, a loader that is still running or not.        *)
LockExpires ==
    /\ lock # None
    /\ lock' = None /\ blocked' = {}
    /\ overstayed' = (overstayed \/ pc[lock] \in Holding)
    /\ UNCHANGED <<row, entry, pc, got, writers>>

Step(r) ==
    \/ Peek(r) \/ Acquire(r) \/ Load(r) \/ Store(r) \/ Compare(r) \/ Unlock(r)
    \/ Poll(r) \/ GiveUp(r) \/ LoadAlone(r)

Write(w) == Commit(w) \/ Scan(w) \/ Del(w) \/ FlushLost(w)

Next ==
    \/ \E r \in Readers : Call(r) \/ Step(r) \/ RedisFails(r) \/ Crash(r)
    \/ \E w \in Writers : Write(w)
    \/ EntryExpires
    \/ LockExpires

Spec == Init /\ [][Next]_vars

(* Node runs what is runnable, queries and Redis commands return or throw, *)
(* and Redis drops the lock at its TTL.                                    *)
FairSpec ==
    Spec /\ WF_vars(LockExpires) /\ \A r \in Readers : WF_vars(Step(r))

-----------------------------------------------------------------------------
(* Properties.                                                             *)

(* Every variable keeps its type.                                          *)
TypeOK ==
    /\ row     \in Nat
    /\ entry   \in Entries \union {None}
    /\ lock    \in Readers \union {None}
    /\ pc      \in [Readers -> Steps]
    /\ got     \in [Readers -> Nat \union {None}]
    /\ blocked \in SUBSET Readers
    /\ wpc     \in [Writers -> {"idle", "scan", "del", "flushed", "lost"}]
    /\ wrote   \in [Writers -> Nat]
    /\ overstayed \in BOOLEAN

(* A stale entry has one of two causes: the flush of a later write has yet *)
(* to delete it or was lost, or the loader was overtaken by a write before *)
(* it stored its value.                                                    *)
StaleHasCause ==
    entry # None /\ entry.v < row =>
      \/ entry.late
      \/ \E w \in Writers : wpc[w] \in {"scan", "del", "lost"}
                              /\ wrote[w] > entry.v

(* As long as no loader outlives its lock, only one caller at a time loads *)
(* to fill the key, whatever crashes, expires or throws.                   *)
OneFiller ==
    ~overstayed => Cardinality({r \in Readers : pc[r] \in Holding}) <= 1

(* A get without its commands.                                             *)
Asking == {"peek", "acquire", "load", "wait", "alone"}

Phase(step) ==
    CASE step = "idle" -> "away"
      [] step \in Asking -> "asked"
      [] step = "store" -> "loaded"
      [] step \in {"compare", "unlock"} -> "closing"
      [] OTHER -> "ended"

Get == INSTANCE CacheAside WITH
    kept  <- IF entry = None THEN None ELSE entry.v,
    at    <- [r \in Readers |-> Phase(pc[r])],
    value <- got

(* Whatever interleaves, expires, throws or dies, a get answers with what  *)
(* is kept or with the row of one moment after it was called, and the key  *)
(* is filled by nothing but a row that its caller has loaded itself.       *)
ImplementsCacheAside == Get!AsideSpec

(* A get ends, be the holder of the lock dead, slow or unable to load.     *)
EveryGetEnds ==
    \A r \in Readers : pc[r] = "peek" ~> pc[r] \in {"done", "idle"}

-----------------------------------------------------------------------------
(* For the proofs.                                                         *)

CacheInv ==
    /\ TypeOK
    /\ \A r \in Readers : got[r] # None => got[r] <= row
    /\ \A r \in Readers : pc[r] = "store" => got[r] # None
    /\ \A r \in Readers : pc[r] \in Asking \union {"idle"} => got[r] = None
    /\ \A w \in Writers : wrote[w] <= row
    /\ entry # None => entry.v <= row
    /\ StaleHasCause
    /\ ~overstayed => \A r \in Readers : pc[r] \in Holding => lock = r
=============================================================================
