---------------------------- MODULE ReportProofs ----------------------------
(***************************************************************************)
(* TLAPS proofs about the accounting reports, for every set of sales,      *)
(* loads and writers, every finite set of profits and every choice of the  *)
(* buckets of a report.                                                    *)
(***************************************************************************)
EXTENDS Reports, FiniteSetTheorems, TLAPS

-----------------------------------------------------------------------------
(* The least and the greatest profit of a bucket.                          *)

(* The members of T on one side of one of them form a smaller set of the   *)
(* same kind, and strict inclusion of finite sets is well founded.         *)
LEMMA FiniteSetHasMax ==
    ASSUME NEW T \in SUBSET Nat, IsFiniteSet(T), T # {}
    PROVE  Max(T) \in T
<1> DEFINE Above(x) == {y \in T : y > x}
           Tops == {Above(x) : x \in T}
<1>1. IsWellFoundedOn(StrictSubsetOrdering(T), FiniteSubsetsOf(T))
  BY FS_StrictSubsetOrderingWellFounded
<1>2. Tops \subseteq FiniteSubsetsOf(T) /\ Tops # {}
  <2>1. \A x \in T : Above(x) \in SUBSET T /\ IsFiniteSet(Above(x))
    BY FS_Subset
  <2> QED
    BY <2>1 DEF FiniteSubsetsOf
<1>3. PICK U \in Tops :
        \A V \in Tops : <<V, U>> \notin StrictSubsetOrdering(T)
  <2> HIDE DEF Tops
  <2> QED
    BY <1>1, <1>2, WFMin
<1>4. PICK m \in T : U = Above(m)
  BY <1>3
<1>5. ASSUME NEW y \in T, y > m PROVE FALSE
  <2>1. y \in Nat /\ m \in Nat /\ \A z \in T : z \in Nat
    OBVIOUS
  <2>2. ~(y > y) /\ \A z \in T : z > y => z > m
    BY <1>5, <2>1
  <2>3. Above(y) \subseteq Above(m) /\ y \in Above(m) /\ y \notin Above(y)
    BY <1>5, <2>2
  <2>4. <<Above(y), U>> \in StrictSubsetOrdering(T)
    BY <1>4, <2>3 DEF StrictSubsetOrdering
  <2> QED
    BY <1>3, <2>4
<1>6. \A y \in T : m >= y
  BY <1>5
<1> QED
  BY <1>6 DEF Max

LEMMA FiniteSetHasMin ==
    ASSUME NEW T \in SUBSET Nat, IsFiniteSet(T), T # {}
    PROVE  Min(T) \in T
<1> DEFINE Below(x) == {y \in T : y < x}
           Bottoms == {Below(x) : x \in T}
<1>1. IsWellFoundedOn(StrictSubsetOrdering(T), FiniteSubsetsOf(T))
  BY FS_StrictSubsetOrderingWellFounded
<1>2. Bottoms \subseteq FiniteSubsetsOf(T) /\ Bottoms # {}
  <2>1. \A x \in T : Below(x) \in SUBSET T /\ IsFiniteSet(Below(x))
    BY FS_Subset
  <2> QED
    BY <2>1 DEF FiniteSubsetsOf
<1>3. PICK U \in Bottoms :
        \A V \in Bottoms : <<V, U>> \notin StrictSubsetOrdering(T)
  <2> HIDE DEF Bottoms
  <2> QED
    BY <1>1, <1>2, WFMin
<1>4. PICK m \in T : U = Below(m)
  BY <1>3
<1>5. ASSUME NEW y \in T, y < m PROVE FALSE
  <2>1. y \in Nat /\ m \in Nat /\ \A z \in T : z \in Nat
    OBVIOUS
  <2>2. ~(y < y) /\ \A z \in T : z < y => z < m
    BY <1>5, <2>1
  <2>3. Below(y) \subseteq Below(m) /\ y \in Below(m) /\ y \notin Below(y)
    BY <1>5, <2>2
  <2>4. <<Below(y), U>> \in StrictSubsetOrdering(T)
    BY <1>4, <2>3 DEF StrictSubsetOrdering
  <2> QED
    BY <1>3, <2>4
<1>6. \A y \in T : m =< y
  BY <1>5
<1> QED
  BY <1>6 DEF Min

-----------------------------------------------------------------------------
(* Buckets.                                                                *)

LEMMA BucketNames ==
    /\ "pending" \in Buckets
    /\ \A b \in Buckets : /\ StatusesOf[b] \subseteq Live
                          /\ "PENDING" \in StatusesOf[b] <=> b = "pending"
                          /\ "UNUSED" \notin StatusesOf[b]
BY DEF Buckets, StatusesOf, Live

LEMMA BucketType ==
    ASSUME TypeOK
    PROVE  \A b \in Buckets : InBucket(b) \subseteq Entry
BY DEF TypeOK, InBucket, SalesIn, Entry

(* Reading one more bucket.                                                *)
LEMMA GotGrows ==
    ASSUME NEW g \in Got, NEW b \in Buckets, NEW S \in SUBSET Entry
    PROVE  [x \in DOMAIN g \union {b} |-> IF x = b THEN S ELSE g[x]] \in Got
<1>1. PICK B \in SUBSET Buckets : g \in [B -> SUBSET Entry]
  BY DEF Got
<1>2. [x \in DOMAIN g \union {b} |-> IF x = b THEN S ELSE g[x]]
        \in [B \union {b} -> SUBSET Entry]
  BY <1>1
<1> QED
  BY <1>2 DEF Got

LEMMA GotNothing == << >> \in Got /\ DOMAIN << >> = {}
<1>1. << >> \in [{} -> SUBSET Entry] /\ DOMAIN << >> = {}
  OBVIOUS
<1> QED
  BY <1>1 DEF Got

LEMMA BucketFrame ==
    ASSUME UNCHANGED <<status, profit>>
    PROVE  \A b \in Buckets : InBucket(b)' = InBucket(b)
BY DEF InBucket, SalesIn

(* A new sale joins the pending bucket and no other.                       *)
LEMMA AddSaleBuckets ==
    ASSUME TypeOK, NEW s \in Sales, NEW amount \in Profits, AddSale(s, amount)
    PROVE  /\ \A b \in Buckets \ {"pending"} : InBucket(b)' = InBucket(b)
           /\ InBucket("pending") \subseteq InBucket("pending")'
           /\ \A e \in InBucket("pending")' \ InBucket("pending") : e.sale = s
<1>1. /\ status[s] = "UNUSED" /\ status'[s] = "PENDING"
      /\ \A x \in Sales \ {s} : status'[x] = status[x] /\ profit'[x] = profit[x]
  BY DEF AddSale, TypeOK
<1>2. ASSUME NEW b \in Buckets \ {"pending"} PROVE InBucket(b)' = InBucket(b)
  BY <1>1, BucketNames DEF InBucket, SalesIn
<1>3. /\ InBucket("pending") \subseteq InBucket("pending")'
      /\ \A e \in InBucket("pending")' \ InBucket("pending") : e.sale = s
  BY <1>1, BucketNames DEF InBucket, SalesIn
<1> QED
  BY <1>2, <1>3

-----------------------------------------------------------------------------
(* Types.                                                                  *)

LEMMA LoadTyped ==
    ASSUME TypeOK, NEW l \in Loads, load[l] # None
    PROVE  load[l] \in Load
BY DEF TypeOK

(* A step of one load, typed by the record it leaves behind.               *)
LEMMA StepTypes ==
    ASSUME TypeOK, NEW l \in Loads, NEW n \in Load, Step(l, n),
           list' \in List \union {None}
    PROVE  TypeOK'
BY DEF TypeOK, Step, database, ghosts

LEMMA LoadTypes ==
    ASSUME ReportsAssumption, TypeOK, NEW l \in Loads,
           \/ \E k \in Keys : Begin(l, k)
           \/ \E b \in Buckets : Aggregate(l, b) \/ LookUp(l, b)
           \/ ListHit(l) \/ ListMiss(l) \/ ListFill(l) \/ Done(l) \/ Failed(l)
    PROVE  TypeOK'
<1>1. CASE \E k \in Keys : Begin(l, k)
  <2>1. PICK k \in Keys : Begin(l, k)
    BY <1>1
  <2>2. [key |-> k, got |-> << >>, found |-> {}, read |-> None,
         passes |-> None, raced |-> FALSE, failed |-> FALSE] \in Load
    BY GotNothing DEF Load
  <2> QED
    BY <2>1, <2>2 DEF TypeOK, Begin, database, caches, ghosts
<1>2. ASSUME NEW b \in Buckets, Aggregate(l, b) PROVE TypeOK'
  <2>1. load[l] \in Load /\ load[l].got \in Got
    BY <1>2, LoadTyped DEF Aggregate, Loading, Load
  <2>2. PICK g : g = [x \in DOMAIN load[l].got \union {b} |->
                        IF x = b THEN InBucket(b) ELSE load[l].got[x]]
    OBVIOUS
  <2>3. g \in Got
    BY <2>1, <2>2, GotGrows, BucketType
  <2>4. PICK n : n = [load[l] EXCEPT !.got = g]
    OBVIOUS
  <2>5. n \in Load
    BY <2>1, <2>3, <2>4 DEF Load
  <2>6. Step(l, n) /\ UNCHANGED list
    BY <1>2, <2>2, <2>4 DEF Aggregate, Step
  <2> QED
    BY <2>5, <2>6, StepTypes DEF TypeOK
<1>3. ASSUME NEW b \in Buckets, LookUp(l, b) PROVE TypeOK'
  <2>1. load[l] \in Load
    BY <1>3, LoadTyped DEF LookUp, Loading
  <2>2. PICK n : /\ n \in {[load[l] EXCEPT !.found = @ \union {b}],
                          [load[l] EXCEPT !.failed = TRUE]}
                 /\ Step(l, n)
    BY <1>3 DEF LookUp, Step
  <2>3. n \in Load
    <3>1. [load[l] EXCEPT !.found = @ \union {b}] \in Load
      BY <2>1 DEF Load
    <3>2. [load[l] EXCEPT !.failed = TRUE] \in Load
      BY <2>1 DEF Load
    <3> QED
      BY <2>2, <3>1, <3>2
  <2>4. UNCHANGED list
    BY <1>3 DEF LookUp
  <2> QED
    BY <2>2, <2>3, <2>4, StepTypes DEF TypeOK
<1>4. CASE ListHit(l)
  <2>1. load[l] \in Load /\ list \in List
    BY <1>4, LoadTyped DEF ListHit, Asks, TypeOK
  <2>2. PICK n : n = [load[l] EXCEPT !.passes = list.passes,
                                     !.raced = @ \/ list.raced]
    OBVIOUS
  <2>3. n \in Load
    BY <2>1, <2>2 DEF Load, List
  <2>4. Step(l, n) /\ UNCHANGED list
    BY <1>4, <2>2 DEF ListHit, Step
  <2> QED
    BY <2>3, <2>4, StepTypes DEF TypeOK
<1>5. CASE ListMiss(l)
  <2>1. load[l] \in Load /\ passes \in Nat
    BY <1>5, LoadTyped DEF ListMiss, Asks, TypeOK
  <2>2. PICK n : /\ n \in {[load[l] EXCEPT !.read = passes],
                          [load[l] EXCEPT !.passes = passes]}
                 /\ Step(l, n)
    BY <1>5 DEF ListMiss, Step
  <2>3. n \in Load
    <3>1. [load[l] EXCEPT !.read = passes] \in Load
      BY <2>1 DEF Load
    <3>2. [load[l] EXCEPT !.passes = passes] \in Load
      BY <2>1 DEF Load
    <3> QED
      BY <2>2, <3>1, <3>2
  <2>4. Step(l, n) /\ UNCHANGED list
    BY <1>5, <2>2 DEF ListMiss
  <2> QED
    BY <2>3, <2>4, StepTypes DEF TypeOK
<1>6. CASE ListFill(l)
  <2>1. load[l] \in Load /\ load[l].read \in Nat /\ load[l].raced \in BOOLEAN
    BY <1>6, LoadTyped DEF ListFill, Reads, Load
  <2>2. PICK n : n = [load[l] EXCEPT !.passes = load[l].read]
    OBVIOUS
  <2>3. n \in Load
    BY <2>1, <2>2 DEF Load
  <2>4. Step(l, n) /\ list' \in List
    BY <1>6, <2>1, <2>2 DEF ListFill, Step, List
  <2> QED
    BY <2>3, <2>4, StepTypes
<1>7. CASE Done(l)
  <2>1. load[l] \in Load
    BY <1>7, LoadTyped DEF Done, Loading
  <2>2. /\ load[l].key \in Keys /\ load[l].got \in Got
        /\ load[l].passes \in Nat /\ load[l].raced \in BOOLEAN
    BY <1>7, <2>1 DEF Done, Load
  <2>3. report' \in [Keys -> [got : Got, passes : Nat, raced : BOOLEAN]
                               \union {None}]
    BY <1>7, <2>2 DEF Done, TypeOK
  <2> QED
    BY <1>7, <2>3 DEF Done, TypeOK, database, ghosts
<1>8. CASE Failed(l)
  BY <1>8 DEF Failed, TypeOK, database, caches, ghosts
<1> QED
  BY <1>1, <1>2, <1>3, <1>4, <1>5, <1>6, <1>7, <1>8

LEMMA RaceTypes ==
    ASSUME TypeOK, Race
    PROVE  load' \in [Loads -> Load \union {None}]
<1>1. ASSUME NEW l \in Loads, load[l] # None
      PROVE  [load[l] EXCEPT !.raced = TRUE] \in Load
  <2>1. load[l] \in Load
    BY <1>1 DEF TypeOK
  <2> QED
    BY <2>1 DEF Load
<1> QED
  BY <1>1 DEF Race

LEMMA FlushReportsTypes ==
    ASSUME TypeOK, FlushReports
    PROVE  /\ report' \in [Keys -> [got : Got, passes : Nat, raced : BOOLEAN]
                                     \union {None}]
           /\ load' \in [Loads -> Load \union {None}]
           /\ listed' \subseteq Sales /\ missed' \in BOOLEAN
BY RaceTypes DEF FlushReports

(* What is left of the flushes of a writer.                                *)
LEMMA FlushShortens ==
    ASSUME TypeOK, NEW w \in Writers, Flush(w)
    PROVE  \/ /\ flush[w] = <<"list", "report">>
              /\ flush' = [flush EXCEPT ![w] = <<"report">>]
              /\ list' = None /\ Race /\ UNCHANGED <<report, ghosts>>
           \/ /\ flush[w] = <<"report">>
              /\ flush' = [flush EXCEPT ![w] = << >>]
              /\ FlushReports /\ UNCHANGED list
<1>1. flush[w] \in {<<"list", "report">>, <<"report">>}
  BY DEF TypeOK, Flush
<1>2. CASE flush[w] = <<"list", "report">>
  <2>1. Head(flush[w]) = "list" /\ Tail(flush[w]) = <<"report">>
    BY <1>2
  <2> QED
    BY <1>2, <2>1 DEF Flush
<1>3. CASE flush[w] = <<"report">>
  <2>1. Head(flush[w]) = "report" /\ Tail(flush[w]) = << >>
    BY <1>3
  <2> QED
    BY <1>3, <2>1 DEF Flush
<1> QED
  BY <1>1, <1>2, <1>3

LEMMA WriteTypes ==
    ASSUME ReportsAssumption, TypeOK,
           \/ \E s \in Sales, amount \in Profits :
                \/ AddSale(s, amount)
                \/ \E w \in Writers, target \in (Live \ {"CANCELLED"})
                                         \union {status[s], "DELETED"} :
                     WriteSale(w, s, target, amount)
           \/ \E w \in Writers : WritePass(w) \/ Flush(w) \/ FlushLost(w)
           \/ FlushUserCache \/ CronRead \/ CronCancel \/ CronFlush \/ Expire
    PROVE  TypeOK'
<1>1. ASSUME NEW s \in Sales, NEW amount \in Profits, AddSale(s, amount)
      PROVE  TypeOK'
  BY <1>1 DEF AddSale, TypeOK, caches, Live
<1>2. ASSUME NEW s \in Sales, NEW amount \in Profits, NEW w \in Writers,
             NEW target \in (Live \ {"CANCELLED"}) \union {status[s], "DELETED"},
             WriteSale(w, s, target, amount)
      PROVE  TypeOK'
  <2>1. target \in Live \union {"DELETED"}
    BY <1>2 DEF WriteSale, Live
  <2> QED
    BY <1>2, <2>1, RaceTypes DEF WriteSale, TypeOK, caches, ghosts
<1>3. ASSUME NEW w \in Writers, WritePass(w) PROVE TypeOK'
  BY <1>3, RaceTypes
     DEF WritePass, TypeOK, caches, ghosts, PassFlushes, ReportsAssumption
<1>4. ASSUME NEW w \in Writers, Flush(w) PROVE TypeOK'
  <2>1. UNCHANGED <<database, cron>>
    BY <1>4 DEF Flush
  <2> QED
    BY <1>4, <2>1, FlushShortens, RaceTypes, FlushReportsTypes
       DEF TypeOK, database, ghosts
<1>5. ASSUME NEW w \in Writers, FlushLost(w) PROVE TypeOK'
  BY <1>5, RaceTypes DEF FlushLost, TypeOK, database, List
<1>6. CASE FlushUserCache
  BY <1>6, RaceTypes, FlushReportsTypes
     DEF FlushUserCache, TypeOK, database, ghosts
<1>7. CASE CronRead
  BY <1>7 DEF CronRead, TypeOK, database, caches, ghosts
<1>8. CASE CronCancel
  <2>1. status' \in [Sales -> Live \union {"UNUSED", "DELETED"}]
    BY <1>8 DEF CronCancel, TypeOK, Live
  <2>2. missed' \in BOOLEAN /\ cron' \in {"flush", "idle"}
    BY <1>8, Zenon DEF CronCancel
  <2> QED
    BY <1>8, <2>1, <2>2, RaceTypes DEF CronCancel, TypeOK, caches
<1>9. CASE CronFlush
  <2>1. /\ UNCHANGED <<database, list, flush>> /\ cron' = "idle"
        /\ \/ FlushReports
           \/ missed' = TRUE /\ UNCHANGED <<report, load, listed>>
    BY <1>9 DEF CronFlush
  <2> QED
    BY <2>1, FlushReportsTypes DEF TypeOK, database
<1>10. CASE Expire
  BY <1>10 DEF Expire, TypeOK, database, ghosts
<1> QED
  BY <1>1, <1>2, <1>3, <1>4, <1>5, <1>6, <1>7, <1>8, <1>9, <1>10

LEMMA TypesStep ==
    ASSUME ReportsAssumption, TypeOK, [Next]_vars
    PROVE  TypeOK'
<1>1. CASE UNCHANGED vars
  BY <1>1 DEF vars, TypeOK, database, caches, ghosts
<1>2. CASE Next
  BY <1>2, LoadTypes, WriteTypes DEF Next
<1> QED
  BY <1>1, <1>2

-----------------------------------------------------------------------------
(* What a load has read.                                                   *)

LEMMA GotBuckets ==
    ASSUME TypeOK
    PROVE  \A l \in Loads : load[l] # None =>
             /\ DOMAIN load[l].got \subseteq Buckets
             /\ \A b \in DOMAIN load[l].got : load[l].got[b] \subseteq Entry
<1>1. ASSUME NEW l \in Loads, load[l] # None
      PROVE  /\ DOMAIN load[l].got \subseteq Buckets
             /\ \A b \in DOMAIN load[l].got : load[l].got[b] \subseteq Entry
  <2>1. load[l].got \in Got
    BY <1>1, LoadTyped DEF Load
  <2> QED
    BY <2>1 DEF Got
<1> QED
  BY <1>1

LEMMA WantedBuckets ==
    ASSUME ReportsAssumption
    PROVE  \A k \in Keys : Wanted[k] \subseteq Buckets
BY DEF ReportsAssumption

(* A step that races with every load leaves nothing to promise of them.    *)
LEMMA RaceInv ==
    ASSUME Race
    PROVE  \A l \in Loads : LoadInv(l)'
<1>1. ASSUME NEW l \in Loads, load'[l] # None PROVE load'[l].raced
  BY <1>1 DEF Race
<1> QED
  BY <1>1 DEF LoadInv

(* A step of one load leaves the others, the reports and the flushes be.   *)
LEMMA StepFrame ==
    ASSUME ReportsAssumption, ReportsInv, NEW l \in Loads, NEW n,
           Step(l, n)
    PROVE  /\ OldReportHasCause'
           /\ \A x \in Loads \ {l} : LoadInv(x)'
           /\ load'[l] = n
           /\ ListDue' = ListDue
<1>1. /\ UNCHANGED <<status, profit, passes, report, flush, cron, listed, missed>>
      /\ load' = [load EXCEPT ![l] = n]
  BY DEF Step, database, ghosts
<1>2. \A b \in Buckets : InBucket(b)' = InBucket(b)
  BY <1>1, BucketFrame
<1>3. load'[l] = n /\ \A x \in Loads \ {l} : load'[x] = load[x]
  BY <1>1 DEF ReportsInv, TypeOK
<1>4. ListDue' = ListDue /\ FlushDue' = FlushDue
  BY <1>1 DEF ListDue, FlushDue
<1>5. OldReportHasCause'
  BY <1>1, <1>2, <1>4, WantedBuckets, GotBuckets
     DEF ReportsInv, OldReportHasCause, Shows
<1>6. ASSUME NEW x \in Loads \ {l} PROVE LoadInv(x)'
  BY <1>1, <1>2, <1>3, <1>4, <1>6, GotBuckets
     DEF ReportsInv, LoadInv, Shows
<1> QED
  BY <1>3, <1>4, <1>5, <1>6

(* The sales with the least and the greatest profit of a bucket that       *)
(* nothing has raced with are still there.                                 *)
LEMMA ExtremesAreThere ==
    ASSUME ReportsAssumption, ReportsInv, NEW l \in Loads, Loading(l),
           ~load[l].raced, NEW b \in NeedsLookup(l)
    PROVE  {Min({e.profit : e \in load[l].got[b]}),
            Max({e.profit : e \in load[l].got[b]})}
             \subseteq {e.profit : e \in SalesIn(LookupScope(b))}
<1> DEFINE P == {e.profit : e \in load[l].got[b]}
<1>1. /\ load[l] # None /\ b \in DOMAIN load[l].got
      /\ load[l].got[b] # {} /\ load[l].got[b] \subseteq Entry
  BY GotBuckets DEF Loading, NeedsLookup, ReportsInv
<1>2. P \in SUBSET Nat /\ IsFiniteSet(P) /\ P # {}
  <2>1. P \subseteq Profits /\ P # {}
    BY <1>1 DEF Entry
  <2> QED
    BY <2>1, FS_Subset DEF ReportsAssumption
<1>3. Min(P) \in P /\ Max(P) \in P
  <2> HIDE DEF P
  <2> QED
    BY <1>2, FiniteSetHasMin, FiniteSetHasMax
<1>4. load[l].got[b] \subseteq InBucket(b)
  <2>1. Shows(load[l].got, DOMAIN load[l].got)
    BY <1>1 DEF ReportsInv, LoadInv
  <2> QED
    BY <1>1, <2>1 DEF Shows
<1>5. P \subseteq {e.profit : e \in SalesIn(LookupScope(b))}
  BY <1>4 DEF InBucket, LookupScope
<1> QED
  BY <1>3, <1>5

(* A step of a load keeps what its load and the list have read.            *)
LEMMA LoadStep ==
    ASSUME ReportsAssumption, ReportsInv, NEW l \in Loads,
           \/ \E b \in Buckets : Aggregate(l, b) \/ LookUp(l, b)
           \/ ListHit(l) \/ ListMiss(l) \/ ListFill(l)
    PROVE  /\ ListInv' /\ OldReportHasCause'
           /\ \A x \in Loads : LoadInv(x)'
<1> USE DEF Loading
<1>1. ASSUME NEW n, Step(l, n), LoadInv(l)', ListInv'
      PROVE  /\ ListInv' /\ OldReportHasCause'
             /\ \A x \in Loads : LoadInv(x)'
  BY <1>1, StepFrame
<1>2. ASSUME NEW n, Step(l, n), UNCHANGED list
      PROVE  ListInv'
  <2>1. UNCHANGED passes /\ ListDue' = ListDue
    BY <1>2, StepFrame DEF Step, database
  <2> QED
    BY <1>2, <2>1 DEF ReportsInv, ListInv
<1>3. load[l] # None => load[l] \in Load
  BY LoadTyped DEF ReportsInv
<1>4. ASSUME NEW b \in Buckets, Aggregate(l, b)
      PROVE  /\ ListInv' /\ OldReportHasCause'
             /\ \A x \in Loads : LoadInv(x)'
  <2>1. PICK g : g = [x \in DOMAIN load[l].got \union {b} |->
                        IF x = b THEN InBucket(b) ELSE load[l].got[x]]
    OBVIOUS
  <2>2. PICK n : n = [load[l] EXCEPT !.got = g]
    OBVIOUS
  <2>3. Step(l, n) /\ UNCHANGED list /\ load[l] # None
    BY <1>4, <2>1, <2>2 DEF Aggregate, Step
  <2>4. /\ n.got = g /\ n.raced = load[l].raced /\ n.failed = load[l].failed
        /\ n.read = load[l].read /\ n.passes = load[l].passes
    BY <1>3, <2>2, <2>3 DEF Load
  <2>5. /\ UNCHANGED <<status, profit, passes, listed>>
        /\ ListDue' = ListDue /\ load'[l] = n
    BY <2>3, StepFrame DEF Step, database, ghosts
  <2>6. \A x \in Buckets : InBucket(x)' = InBucket(x)
    BY <2>5, BucketFrame
  <2>7. DOMAIN g \subseteq Buckets
    BY <2>1, <2>3, GotBuckets DEF ReportsInv
  <2>8. Shows(load[l].got, DOMAIN load[l].got) => Shows(g, DOMAIN g)
    BY <2>1 DEF Shows
  <2>9. Shows(g, DOMAIN g) => Shows(g, DOMAIN g)'
    BY <2>5, <2>6, <2>7 DEF Shows
  <2>10. LoadInv(l)'
    <3>1. Shows(g, DOMAIN g)' => Shows(load[l].got, DOMAIN load[l].got)'
      BY <2>4, <2>5 DEF Shows
    <3> QED
      BY <2>3, <2>4, <2>5, <2>8, <2>9, <3>1 DEF ReportsInv, LoadInv
  <2> QED
    BY <1>1, <1>2, <2>3, <2>10
<1>5. ASSUME NEW n, Step(l, n), UNCHANGED list, load[l] # None,
             n.got = load[l].got,
             ~n.raced => /\ ~load[l].raced /\ ~n.failed
                         /\ n.read # None => n.read = passes
                         /\ n.passes # None /\ ~ListDue => n.passes = passes
      PROVE  /\ ListInv' /\ OldReportHasCause'
             /\ \A x \in Loads : LoadInv(x)'
  <2>1. /\ UNCHANGED <<status, profit, passes, listed>>
        /\ ListDue' = ListDue /\ load'[l] = n
    BY <1>5, StepFrame DEF Step, database, ghosts
  <2>2. \A x \in Buckets : InBucket(x)' = InBucket(x)
    BY <2>1, BucketFrame
  <2>3. DOMAIN load[l].got \subseteq Buckets
    BY <1>5, GotBuckets DEF ReportsInv
  <2>4. Shows(load[l].got, DOMAIN load[l].got)
          => Shows(load[l].got, DOMAIN load[l].got)'
    BY <1>5, <2>1, <2>2, <2>3 DEF Shows
  <2>5. LoadInv(l)'
    BY <1>5, <2>1, <2>4 DEF ReportsInv, LoadInv
  <2> QED
    BY <1>1, <1>2, <1>5, <2>5
<1>6. ASSUME NEW b \in Buckets, LookUp(l, b)
      PROVE  /\ ListInv' /\ OldReportHasCause'
             /\ \A x \in Loads : LoadInv(x)'
  <2>1. load[l] # None /\ b \in NeedsLookup(l) /\ UNCHANGED list
    BY <1>6 DEF LookUp
  <2>2. CASE load[l].raced
    <3>1. PICK n : /\ \/ n = [load[l] EXCEPT !.found = @ \union {b}]
                      \/ n = [load[l] EXCEPT !.failed = TRUE]
                   /\ Step(l, n)
      BY <1>6 DEF LookUp, Step
    <3>2. n.got = load[l].got /\ n.raced
      BY <1>3, <2>1, <2>2, <3>1 DEF Load
    <3> QED
      BY <1>5, <2>1, <3>1, <3>2
  <2>3. CASE ~load[l].raced
    <3>1. PICK n : n = [load[l] EXCEPT !.found = @ \union {b}]
      OBVIOUS
    <3>2. Step(l, n)
      BY <1>6, <2>1, <2>3, <3>1, ExtremesAreThere DEF LookUp, Step
    <3>3. /\ n.got = load[l].got /\ n.raced = load[l].raced
          /\ n.failed = load[l].failed /\ n.read = load[l].read
          /\ n.passes = load[l].passes
      BY <1>3, <2>1, <3>1 DEF Load
    <3> QED
      BY <1>5, <2>1, <2>3, <3>2, <3>3 DEF ReportsInv, LoadInv
  <2> QED
    BY <2>2, <2>3
<1>7. CASE ListHit(l)
  <2>1. PICK n : n = [load[l] EXCEPT !.passes = list.passes,
                                     !.raced = @ \/ list.raced]
    OBVIOUS
  <2>2. load[l] # None /\ list # None /\ Step(l, n) /\ UNCHANGED list
    BY <1>7, <2>1 DEF ListHit, Asks, Step
  <2>3. /\ n.got = load[l].got /\ n.raced = (load[l].raced \/ list.raced)
        /\ n.failed = load[l].failed /\ n.read = load[l].read
        /\ n.passes = list.passes
    BY <1>3, <2>1, <2>2 DEF Load
  <2> QED
    BY <1>5, <2>2, <2>3 DEF ReportsInv, LoadInv, ListInv
<1>8. CASE ListMiss(l)
  <2>1. PICK n : /\ n \in {[load[l] EXCEPT !.read = passes],
                          [load[l] EXCEPT !.passes = passes]}
                 /\ Step(l, n)
    BY <1>8 DEF ListMiss, Step
  <2>2. load[l] # None /\ UNCHANGED list
    BY <1>8 DEF ListMiss, Asks
  <2>3. /\ n.got = load[l].got /\ n.raced = load[l].raced
        /\ n.failed = load[l].failed
        /\ n.read \in {load[l].read, passes}
        /\ n.passes \in {load[l].passes, passes}
    BY <1>3, <2>1, <2>2 DEF Load
  <2> QED
    BY <1>5, <2>1, <2>2, <2>3 DEF ReportsInv, LoadInv
<1>9. CASE ListFill(l)
  <2>1. PICK n : n = [load[l] EXCEPT !.passes = load[l].read]
    OBVIOUS
  <2>2. /\ load[l] # None /\ load[l].read # None /\ Step(l, n)
        /\ list' = [passes |-> load[l].read, raced |-> load[l].raced]
    BY <1>9, <2>1 DEF ListFill, Reads, Step
  <2>3. /\ n.got = load[l].got /\ n.raced = load[l].raced
        /\ n.failed = load[l].failed /\ n.read = load[l].read
        /\ n.passes = load[l].read
    BY <1>3, <2>1, <2>2 DEF Load
  <2>4. /\ UNCHANGED <<status, profit, passes, listed>>
        /\ ListDue' = ListDue /\ load'[l] = n
    BY <2>2, StepFrame DEF Step, database, ghosts
  <2>5. \A x \in Buckets : InBucket(x)' = InBucket(x)
    BY <2>4, BucketFrame
  <2>6. DOMAIN load[l].got \subseteq Buckets
    BY <2>2, GotBuckets DEF ReportsInv
  <2>7. Shows(load[l].got, DOMAIN load[l].got)
          => Shows(load[l].got, DOMAIN load[l].got)'
    BY <2>3, <2>4, <2>5, <2>6 DEF Shows
  <2>8. LoadInv(l)'
    BY <2>2, <2>3, <2>4, <2>7 DEF ReportsInv, LoadInv
  <2>9. ListInv'
    BY <2>2, <2>4 DEF ReportsInv, LoadInv, ListInv
  <2> QED
    BY <1>1, <2>2, <2>8, <2>9
<1> QED
  BY <1>4, <1>6, <1>7, <1>8, <1>9

(* With sales, passes and flushes as they were, a load that ends or none   *)
(* that starts promises no more than before.                               *)
LEMMA QuietStep ==
    ASSUME ReportsAssumption, ReportsInv,
           UNCHANGED <<status, profit, passes, flush, listed>>,
           \A l \in Loads : load'[l] \in {load[l], None},
           list' \in {list, None}
    PROVE  /\ ListInv' /\ \A l \in Loads : LoadInv(l)'
           /\ \A b \in Buckets : InBucket(b)' = InBucket(b)
<1>1. \A b \in Buckets : InBucket(b)' = InBucket(b)
  BY BucketFrame
<1>2. ListDue' = ListDue
  BY DEF ListDue
<1>3. ListInv'
  BY <1>2 DEF ReportsInv, ListInv
<1>4. ASSUME NEW l \in Loads PROVE LoadInv(l)'
  BY <1>1, <1>2, GotBuckets DEF ReportsInv, LoadInv, Shows
<1> QED
  BY <1>1, <1>3, <1>4

LEMMA BeginStep ==
    ASSUME ReportsAssumption, ReportsInv, NEW l \in Loads, NEW k \in Keys,
           Begin(l, k)
    PROVE  /\ ListInv' /\ OldReportHasCause'
           /\ \A x \in Loads : LoadInv(x)'
<1>1. PICK n : n = [key |-> k, got |-> << >>, found |-> {}, read |-> None,
                    passes |-> None, raced |-> FALSE, failed |-> FALSE]
  OBVIOUS
<1>2. Step(l, n) /\ UNCHANGED <<list, passes>>
  BY <1>1 DEF Begin, Step, database, caches
<1>3. load'[l] = n /\ ListDue' = ListDue
  BY <1>2, StepFrame
<1>4. n.got = << >> /\ n.read = None /\ n.passes = None /\ ~n.failed
  BY <1>1
<1>5. LoadInv(l)'
  BY <1>3, <1>4, GotNothing DEF LoadInv, Shows
<1>6. ListInv'
  BY <1>2, <1>3 DEF ReportsInv, ListInv
<1> QED
  BY <1>2, <1>5, <1>6, StepFrame

(* A load that ends well publishes what it has read.                       *)
LEMMA DoneStep ==
    ASSUME ReportsAssumption, ReportsInv, NEW l \in Loads, Done(l)
    PROVE  /\ ListInv' /\ OldReportHasCause'
           /\ \A x \in Loads : LoadInv(x)'
<1>1. /\ load[l] # None /\ DOMAIN load[l].got = Wanted[load[l].key]
      /\ load[l].passes # None /\ load[l].key \in Keys
  BY LoadTyped DEF Done, Loading, ReportsInv, Load
<1>2. /\ UNCHANGED <<status, profit, passes, list, flush, cron, listed, missed>>
      /\ load' = [load EXCEPT ![l] = None]
      /\ report' = [report EXCEPT ![load[l].key] =
                      [got |-> load[l].got, passes |-> load[l].passes,
                       raced |-> load[l].raced]]
  BY DEF Done, database, ghosts
<1>3. \A x \in Loads : load'[x] \in {load[x], None}
  BY <1>2 DEF ReportsInv, TypeOK
<1>4. /\ ListInv' /\ \A x \in Loads : LoadInv(x)'
      /\ \A b \in Buckets : InBucket(b)' = InBucket(b)
  BY <1>2, <1>3, QuietStep
<1>5. FlushDue' = FlushDue /\ (ListDue => FlushDue)
  BY <1>2 DEF FlushDue, ListDue
<1>6. ASSUME NEW k \in Keys,
             report'[k] # None, ~report'[k].raced, ~missed', ~FlushDue'
      PROVE  report'[k].passes = passes' /\ Shows(report[k].got, Wanted[k])'
  <2>1. CASE k # load[l].key
    <3>1. report'[k] = report[k]
      BY <1>2, <2>1 DEF ReportsInv, TypeOK
    <3>2. report[k].passes = passes /\ Shows(report[k].got, Wanted[k])
      BY <1>2, <1>5, <1>6, <3>1 DEF ReportsInv, OldReportHasCause
    <3> QED
      BY <1>2, <1>4, <3>1, <3>2, WantedBuckets DEF Shows
  <2>2. CASE k = load[l].key
    <3>1. /\ report'[k].got = load[l].got /\ report'[k].passes = load[l].passes
          /\ report'[k].raced = load[l].raced
      BY <1>2, <2>2 DEF ReportsInv, TypeOK
    <3>2. load[l].passes = passes /\ Shows(load[l].got, Wanted[k])
      BY <1>1, <1>5, <1>6, <2>2, <3>1 DEF ReportsInv, LoadInv
    <3> QED
      BY <1>2, <1>4, <3>1, <3>2, WantedBuckets DEF Shows
  <2> QED
    BY <2>1, <2>2
<1> QED
  BY <1>4, <1>6 DEF OldReportHasCause

LEMMA EndStep ==
    ASSUME ReportsAssumption, ReportsInv,
           \/ \E l \in Loads : Failed(l)
           \/ CronRead \/ Expire
    PROVE  /\ ListInv' /\ OldReportHasCause'
           /\ \A x \in Loads : LoadInv(x)'
<1>1. /\ UNCHANGED <<status, profit, passes, flush, listed, missed>>
      /\ list' \in {list, None}
  BY DEF Failed, CronRead, Expire, database, caches, ghosts
<1>2. \A l \in Loads : load'[l] \in {load[l], None}
  BY DEF Failed, CronRead, Expire, ReportsInv, TypeOK
<1>3. \A k \in Keys : report'[k] \in {report[k], None}
  BY DEF Failed, CronRead, Expire, caches, ReportsInv, TypeOK
<1>4. FlushDue' = FlushDue
  BY DEF Failed, CronRead, Expire, FlushDue
<1>5. /\ ListInv' /\ \A x \in Loads : LoadInv(x)'
      /\ \A b \in Buckets : InBucket(b)' = InBucket(b)
  BY <1>1, <1>2, QuietStep
<1>6. OldReportHasCause'
  BY <1>1, <1>3, <1>4, <1>5, WantedBuckets
     DEF ReportsInv, OldReportHasCause, Shows
<1> QED
  BY <1>5, <1>6

-----------------------------------------------------------------------------
(* Writes and flushes.                                                     *)

(* A sale that is added races with nothing: it may only be missing from    *)
(* the pending bucket, and it is listed.                                   *)
LEMMA AddSaleStep ==
    ASSUME ReportsAssumption, ReportsInv, NEW s \in Sales,
           NEW amount \in Profits, AddSale(s, amount)
    PROVE  /\ ListInv' /\ OldReportHasCause'
           /\ \A x \in Loads : LoadInv(x)'
<1>1. /\ UNCHANGED <<passes, list, report, load, flush, cron, missed>>
      /\ listed' = listed \union {s}
  BY DEF AddSale, caches
<1>2. /\ \A b \in Buckets \ {"pending"} : InBucket(b)' = InBucket(b)
      /\ InBucket("pending") \subseteq InBucket("pending")'
      /\ \A e \in InBucket("pending")' \ InBucket("pending") : e.sale = s
  BY AddSaleBuckets DEF ReportsInv
<1>3. ASSUME NEW g, NEW B \in SUBSET Buckets, Shows(g, B)
      PROVE  Shows(g, B)'
  BY <1>1, <1>2, <1>3 DEF Shows
<1>4. ListDue' = ListDue /\ FlushDue' = FlushDue
  BY <1>1 DEF ListDue, FlushDue
<1>5. ListInv'
  BY <1>1, <1>4 DEF ReportsInv, ListInv
<1>6. ASSUME NEW x \in Loads PROVE LoadInv(x)'
  <2>1. PICK g : g = load[x].got
    OBVIOUS
  <2>2. load[x] # None => DOMAIN g \subseteq Buckets
    BY <2>1, GotBuckets DEF ReportsInv
  <2>3. load[x] # None /\ Shows(g, DOMAIN g) => Shows(g, DOMAIN g)'
    BY <1>3, <2>2
  <2>4. Shows(load[x].got, DOMAIN load[x].got)' = Shows(g, DOMAIN g)'
    BY <1>1, <2>1 DEF Shows
  <2> QED
    BY <1>1, <1>4, <2>1, <2>3, <2>4 DEF ReportsInv, LoadInv
<1>7. ASSUME NEW k \in Keys, report[k] # None, ~report[k].raced, ~missed,
             ~FlushDue
      PROVE  Shows(report[k].got, Wanted[k])'
  <2>1. PICK g : g = report[k].got
    OBVIOUS
  <2>2. Shows(g, Wanted[k])'
    BY <1>3, <1>7, <2>1, WantedBuckets DEF ReportsInv, OldReportHasCause
  <2> QED
    BY <1>1, <2>1, <2>2 DEF Shows
<1>8. OldReportHasCause'
  BY <1>1, <1>4, <1>7 DEF ReportsInv, OldReportHasCause
<1> QED
  BY <1>5, <1>6, <1>8

(* After a flush of the reports there is none to promise anything of.      *)
LEMMA FlushReportsStep ==
    ASSUME ReportsInv, FlushReports, UNCHANGED <<passes, list>>,
           ListDue' = ListDue
    PROVE  /\ ListInv' /\ OldReportHasCause'
           /\ \A x \in Loads : LoadInv(x)'
<1>1. ListInv'
  BY DEF ReportsInv, ListInv
<1>2. OldReportHasCause'
  BY DEF FlushReports, OldReportHasCause
<1>3. \A x \in Loads : LoadInv(x)'
  BY RaceInv DEF FlushReports
<1> QED
  BY <1>1, <1>2, <1>3

(* Every other write races with the loads; its flush is still to come, or  *)
(* it is missed.                                                           *)
LEMMA WriteStep ==
    ASSUME ReportsAssumption, ReportsInv,
           \/ \E s \in Sales, amount \in Profits :
                \E w \in Writers, target \in (Live \ {"CANCELLED"})
                                         \union {status[s], "DELETED"} :
                  WriteSale(w, s, target, amount)
           \/ \E w \in Writers : WritePass(w) \/ Flush(w) \/ FlushLost(w)
           \/ FlushUserCache \/ CronCancel \/ CronFlush
    PROVE  /\ ListInv' /\ OldReportHasCause'
           /\ \A x \in Loads : LoadInv(x)'
<1>1. ASSUME NEW s \in Sales, NEW amount \in Profits, NEW w \in Writers,
             NEW target, WriteSale(w, s, target, amount)
      PROVE  /\ ListInv' /\ OldReportHasCause'
             /\ \A x \in Loads : LoadInv(x)'
  <2>1. /\ flush[w] = << >> /\ UNCHANGED <<passes, list>> /\ Race
        /\ flush' = [flush EXCEPT ![w] = <<"report">>]
    BY <1>1 DEF WriteSale, caches
  <2>2. FlushDue' /\ (ListDue => ListDue')
    BY <2>1 DEF FlushDue, ListDue, ReportsInv, TypeOK
  <2> QED
    BY <2>1, <2>2, RaceInv DEF ReportsInv, ListInv, OldReportHasCause
<1>2. ASSUME NEW w \in Writers, WritePass(w)
      PROVE  /\ ListInv' /\ OldReportHasCause'
             /\ \A x \in Loads : LoadInv(x)'
  <2>1. FlushDue' /\ ListDue'
    BY <1>2 DEF WritePass, PassFlushes, FlushDue, ListDue, ReportsInv, TypeOK
  <2> QED
    BY <1>2, <2>1, RaceInv DEF WritePass, ListInv, OldReportHasCause
<1>3. ASSUME NEW w \in Writers, Flush(w)
      PROVE  /\ ListInv' /\ OldReportHasCause'
             /\ \A x \in Loads : LoadInv(x)'
  <2>1. UNCHANGED passes
    BY <1>3 DEF Flush, database
  <2>2. CASE /\ flush' = [flush EXCEPT ![w] = <<"report">>]
             /\ list' = None /\ Race /\ UNCHANGED <<report, ghosts>>
    <3>1. FlushDue'
      BY <2>2 DEF FlushDue, ReportsInv, TypeOK
    <3> QED
      BY <2>2, <3>1, RaceInv DEF ListInv, OldReportHasCause
  <2>3. CASE /\ flush[w] = <<"report">>
             /\ flush' = [flush EXCEPT ![w] = << >>]
             /\ FlushReports /\ UNCHANGED list
    <3>1. ListDue' = ListDue
      BY <2>3 DEF ListDue, ReportsInv, TypeOK
    <3> QED
      BY <2>1, <2>3, <3>1, FlushReportsStep
  <2> QED
    BY <1>3, <2>2, <2>3, FlushShortens DEF ReportsInv
<1>4. ASSUME NEW w \in Writers, FlushLost(w)
      PROVE  /\ ListInv' /\ OldReportHasCause'
             /\ \A x \in Loads : LoadInv(x)'
  <2>1. list' = None \/ list'.raced
    BY <1>4 DEF FlushLost, ReportsInv, TypeOK
  <2> QED
    BY <1>4, <2>1, RaceInv DEF FlushLost, ListInv, OldReportHasCause
<1>5. CASE FlushUserCache
  <2>1. UNCHANGED <<status, profit, passes, flush, cron>>
    BY <1>5 DEF FlushUserCache, database
  <2>2. ListDue' = ListDue /\ FlushDue' = FlushDue
    BY <2>1 DEF ListDue, FlushDue
  <2>3. CASE FlushReports /\ UNCHANGED list
    BY <2>1, <2>2, <2>3, FlushReportsStep
  <2>4. CASE list' = None /\ Race /\ UNCHANGED <<report, ghosts>>
    <3>1. \A b \in Buckets : InBucket(b)' = InBucket(b)
      BY <2>1, BucketFrame
    <3>2. OldReportHasCause'
      BY <2>1, <2>2, <2>4, <3>1, WantedBuckets
         DEF ReportsInv, OldReportHasCause, Shows, ghosts
    <3> QED
      BY <2>4, <3>2, RaceInv DEF ListInv
  <2> QED
    BY <1>5, <2>3, <2>4 DEF FlushUserCache
<1>6. CASE CronCancel
  <2>1. UNCHANGED <<profit, passes, list, report, flush, listed>> /\ Race
    BY <1>6 DEF CronCancel, caches
  <2>2. ListInv'
    BY <2>1 DEF ReportsInv, ListInv, ListDue
  <2>3. PICK S \in SUBSET Sales :
          /\ status' = [s \in Sales |->
                          IF s \in S THEN "CANCELLED" ELSE status[s]]
          /\ missed' = (missed \/ (cron = "unseen" /\ S # {}))
    BY <1>6 DEF CronCancel
  <2>4. ASSUME cron = "seen" PROVE OldReportHasCause'
    BY <1>6, <2>4 DEF CronCancel, OldReportHasCause, FlushDue
  <2>5. ASSUME cron = "unseen", S # {} PROVE OldReportHasCause'
    BY <2>3, <2>5 DEF OldReportHasCause
  <2>6. ASSUME cron = "unseen", S = {} PROVE OldReportHasCause'
    <3>1. UNCHANGED status /\ missed' = missed
      BY <2>3, <2>6 DEF ReportsInv, TypeOK
    <3>2. FlushDue' = FlushDue
      BY <1>6, <2>1, <2>6 DEF CronCancel, FlushDue
    <3>3. \A b \in Buckets : InBucket(b)' = InBucket(b)
      BY <2>1, <3>1, BucketFrame
    <3> QED
      BY <2>1, <3>1, <3>2, <3>3, WantedBuckets
         DEF ReportsInv, OldReportHasCause, Shows
  <2>7. OldReportHasCause'
    BY <1>6, <2>4, <2>5, <2>6 DEF CronCancel
  <2> QED
    BY <2>1, <2>2, <2>7, RaceInv
<1>7. CASE CronFlush
  <2>1. UNCHANGED <<database, list, flush>>
    BY <1>7 DEF CronFlush
  <2>2. ListDue' = ListDue
    BY <2>1 DEF ListDue
  <2>3. CASE FlushReports
    BY <2>1, <2>2, <2>3, FlushReportsStep DEF database
  <2>4. CASE missed' = TRUE /\ UNCHANGED <<report, load, listed>>
    <3>1. \A b \in Buckets : InBucket(b)' = InBucket(b)
      BY <2>1, BucketFrame DEF database
    <3>2. ListInv' /\ OldReportHasCause'
      BY <2>1, <2>2, <2>4
         DEF ReportsInv, ListInv, OldReportHasCause, database
    <3>3. ASSUME NEW x \in Loads PROVE LoadInv(x)'
      BY <2>1, <2>2, <2>4, <3>1
         DEF ReportsInv, TypeOK, LoadInv, Load, Got, Shows, database
    <3> QED
      BY <3>2, <3>3
  <2> QED
    BY <1>7, <2>3, <2>4 DEF CronFlush
<1> QED
  BY <1>1, <1>2, <1>3, <1>4, <1>5, <1>6, <1>7

-----------------------------------------------------------------------------
(* The theorems.                                                           *)

LEMMA ReportsStep ==
    ASSUME ReportsAssumption, ReportsInv, [Next]_vars
    PROVE  ReportsInv'
<1>1. TypeOK'
  BY TypesStep DEF ReportsInv
<1>2. /\ ListInv' /\ OldReportHasCause'
      /\ \A x \in Loads : LoadInv(x)'
  <2>1. CASE UNCHANGED vars
    <3>1. \A l \in Loads : load'[l] \in {load[l], None}
      BY <2>1 DEF vars
    <3>2. /\ ListInv' /\ \A x \in Loads : LoadInv(x)'
          /\ \A b \in Buckets : InBucket(b)' = InBucket(b)
      BY <2>1, <3>1, QuietStep DEF vars, database, caches, ghosts
    <3>3. OldReportHasCause'
      BY <2>1, <3>2, WantedBuckets
         DEF vars, database, caches, ghosts, ReportsInv, OldReportHasCause,
             Shows, FlushDue
    <3> QED
      BY <3>2, <3>3
  <2>2. CASE Next
    BY <2>2, BeginStep, LoadStep, DoneStep, EndStep, AddSaleStep, WriteStep
       DEF Next
  <2> QED
    BY <2>1, <2>2
<1> QED
  BY <1>1, <1>2 DEF ReportsInv

LEMMA ReportsStart ==
    ASSUME ReportsAssumption, Init
    PROVE  ReportsInv
<1>1. Min(Profits) \in Profits
  BY FiniteSetHasMin DEF ReportsAssumption
<1>2. TypeOK
  <2>1. profit \in [Sales -> Profits] /\ load \in [Loads -> Load \union {None}]
    BY <1>1 DEF Init
  <2>2. flush \in [Writers -> {<<"list", "report">>, <<"report">>, << >>}]
    BY DEF Init
  <2>3. /\ status \in [Sales -> Live \union {"UNUSED", "DELETED"}]
        /\ report \in [Keys -> [got : Got, passes : Nat, raced : BOOLEAN]
                                \union {None}]
    BY DEF Init
  <2>4. passes \in 0 .. MaxPassWrites
    <3>1. passes = 0 /\ MaxPassWrites \in Nat
      BY DEF Init, ReportsAssumption
    <3> QED
      BY <3>1
  <2>5. /\ list = None /\ cron \in {"idle", "seen", "unseen", "flush"}
        /\ listed \subseteq Sales /\ missed \in BOOLEAN
    BY DEF Init
  <2> QED
    BY <2>1, <2>2, <2>3, <2>4, <2>5 DEF TypeOK
<1>3. ListInv /\ OldReportHasCause
  BY DEF ListInv, OldReportHasCause, Init
<1>4. \A x \in Loads : LoadInv(x)
  BY DEF LoadInv, Init
<1> QED
  BY <1>2, <1>3, <1>4 DEF ReportsInv

(* The inductive invariant of the reports: what a load, or the cached list *)
(* of passes, has read is what there is as long as nothing has raced with  *)
(* it.                                                                     *)
THEOREM ReportsInductive == Spec => []ReportsInv
<1>1. Init => ReportsInv
  BY ReportsStart, ReportsAssumption
<1>2. ReportsInv /\ [Next]_vars => ReportsInv'
  BY ReportsStep, ReportsAssumption
<1> QED
  BY <1>1, <1>2, PTL DEF Spec

(* Every variable keeps its type (src/src/api/accounting).                 *)
THEOREM ReportTypes == Spec => []TypeOK
<1>1. ReportsInv => TypeOK
  BY DEF ReportsInv
<1> QED
  BY <1>1, ReportsInductive, PTL

(* A report that stays in the cache for a day while its loads and the list *)
(* of passes it was built from were not raced with, and every change has   *)
(* been flushed, shows every bucket as it is, but for sales added since:   *)
(* addSale flushes the sales keys and not the reports.                     *)
THEOREM OldReportsHaveCause == Spec => []OldReportHasCause
<1>1. ReportsInv => OldReportHasCause
  BY DEF ReportsInv
<1> QED
  BY <1>1, ReportsInductive, PTL

(* findFirstOrThrow of the extremes of a bucket throws, and the report     *)
(* answers 500, only when a sale was written while it loaded.              *)
THEOREM FailuresAreRaces == Spec => []FailsOnlyWhenRaced
<1>1. ReportsInv => FailsOnlyWhenRaced
  BY DEF ReportsInv, LoadInv, FailsOnlyWhenRaced
<1> QED
  BY <1>1, ReportsInductive, PTL
-----------------------------------------------------------------------------
(* The list of passes, as a get.                                           *)

(* What a load has learnt of the passes, and the list, as they were; or    *)
(* the list is gone.                                                       *)
Stays ==
    /\ \A l \in Loads : Stage(l)' = Stage(l) /\ Learnt(l)' = Learnt(l)
    /\ \/ UNCHANGED list
       \/ list' = None
       \/ list # None /\ list' # None /\ list'.passes = list.passes

LEMMA ListStays ==
    ASSUME Stays
    PROVE  [PassesBySeason!AsideNext]_(PassesBySeason!aside)
<1>1. UNCHANGED <<[l \in Loads |-> Stage(l)], [l \in Loads |-> Learnt(l)]>>
  BY DEF Stays
<1>2. CASE list' = None
  <2>1. PassesBySeason!Forget BY <1>1, <1>2 DEF PassesBySeason!Forget
  <2> QED BY <2>1 DEF PassesBySeason!AsideNext
<1>3. CASE list' # None
  BY <1>1, <1>3 DEF Stays, PassesBySeason!aside
<1> QED BY <1>2, <1>3

(* A reader that goes on leaves the others where they are.                 *)
LEMMA OneTakes ==
    ASSUME NEW l \in Loads, NEW s, NEW v,
           \A x \in Loads \ {l} : load'[x] = load[x],
           Stage(l)' = s, Learnt(l)' = v
    PROVE  PassesBySeason!Gets(l, s, v)
<1>1. \A x \in Loads \ {l} : Stage(x)' = Stage(x) /\ Learnt(x)' = Learnt(x)
  BY DEF Stage, Learnt
<1>2. [x \in Loads |-> Stage(x)]'
        = [[x \in Loads |-> Stage(x)] EXCEPT ![l] = s]
  BY <1>1
<1>3. [x \in Loads |-> Learnt(x)]'
        = [[x \in Loads |-> Learnt(x)] EXCEPT ![l] = v]
  BY <1>1
<1> QED BY <1>2, <1>3 DEF PassesBySeason!Gets

LEMMA RaceStays ==
    ASSUME TypeOK, Race
    PROVE  \A l \in Loads : Stage(l)' = Stage(l) /\ Learnt(l)' = Learnt(l)
<1>1. ASSUME NEW l \in Loads, load[l] # None
      PROVE  Stage(l)' = Stage(l) /\ Learnt(l)' = Learnt(l)
  <2>1. load'[l] = [load[l] EXCEPT !.raced = TRUE] BY <1>1 DEF Race
  <2>2. load[l] \in Load BY <1>1, LoadTyped
  <2>3. /\ load'[l] \in Load
        /\ load'[l].read = load[l].read /\ load'[l].passes = load[l].passes
    BY <2>1, <2>2 DEF Load
  <2>4. load'[l] # None BY <2>3, NoneAssumption
  <2> QED BY <1>1, <2>3, <2>4 DEF Stage, Learnt
<1>2. ASSUME NEW l \in Loads, load[l] = None
      PROVE  Stage(l)' = Stage(l) /\ Learnt(l)' = Learnt(l)
  <2>1. load'[l] = None BY <1>2 DEF Race
  <2> QED BY <1>2, <2>1 DEF Stage, Learnt
<1> QED BY <1>1, <1>2

(* A step of a load, by what it leaves behind.                             *)
LEMMA StepTakes ==
    ASSUME TypeOK, NEW l \in Loads, NEW n \in Load, Step(l, n)
    PROVE  /\ load'[l] = n /\ n # None /\ \A x \in Loads \ {l} : load'[x] = load[x]
           /\ Stage(l)' = IF n.passes # None THEN "ended"
                          ELSE IF n.read # None THEN "loaded" ELSE "asked"
           /\ Learnt(l)' = IF n.passes = None THEN n.read ELSE n.passes
<1>1. load'[l] = n /\ \A x \in Loads \ {l} : load'[x] = load[x]
  BY DEF Step, TypeOK
<1>2. n # None BY NoneAssumption
<1> QED BY <1>1, <1>2 DEF Stage, Learnt

LEMMA LoadTakes ==
    ASSUME TypeOK, NEW l \in Loads,
           \/ \E k \in Keys : Begin(l, k)
           \/ \E b \in Buckets : Aggregate(l, b) \/ LookUp(l, b)
           \/ ListHit(l) \/ ListMiss(l) \/ ListFill(l) \/ Done(l) \/ Failed(l)
    PROVE  [PassesBySeason!AsideNext]_(PassesBySeason!aside)
<1> DEFINE Goal == [PassesBySeason!AsideNext]_(PassesBySeason!aside)
           kept == IF list = None THEN None ELSE list.passes
<1>0. load[l] # None => load[l] \in Load BY LoadTyped
<1>1. ASSUME NEW k \in Keys, Begin(l, k) PROVE Goal
  <2>1. PICK n : n = [key |-> k, got |-> << >>, found |-> {}, read |-> None,
                      passes |-> None, raced |-> FALSE, failed |-> FALSE]
    OBVIOUS
  <2>2. n \in Load BY <2>1, GotNothing DEF Load
  <2>3. Step(l, n) /\ UNCHANGED list /\ load[l] = None
    BY <1>1, <2>1 DEF Begin, Step, database, caches
  <2>4. n.read = None /\ n.passes = None BY <2>1
  <2>5. PassesBySeason!Gets(l, "asked", None)
    BY <2>2, <2>3, <2>4, StepTakes, OneTakes
  <2>6. PassesBySeason!Ask(l)
    BY <2>3, <2>5 DEF PassesBySeason!Ask, Stage
  <2> QED BY <2>6 DEF PassesBySeason!AsideNext
<1>2. ASSUME NEW n \in Load, Step(l, n), UNCHANGED list, load[l] # None,
             n.read = load[l].read, n.passes = load[l].passes
      PROVE  Goal
  <2>1. Stage(l)' = Stage(l) /\ Learnt(l)' = Learnt(l)
    BY <1>2, StepTakes DEF Stage, Learnt
  <2>2. \A x \in Loads \ {l} : Stage(x)' = Stage(x) /\ Learnt(x)' = Learnt(x)
    BY <1>2, StepTakes DEF Stage, Learnt
  <2>3. Stays BY <1>2, <2>1, <2>2 DEF Stays
  <2> QED BY <2>3, ListStays
<1>3. ASSUME NEW b \in Buckets, Aggregate(l, b) PROVE Goal
  <2>1. load[l] # None /\ load[l].got \in Got
    BY <1>0, <1>3 DEF Aggregate, Loading, Load
  <2>2. PICK g : g = [x \in DOMAIN load[l].got \union {b} |->
                        IF x = b THEN InBucket(b) ELSE load[l].got[x]]
    OBVIOUS
  <2>3. g \in Got BY <2>1, <2>2, GotGrows, BucketType
  <2>4. PICK n : n = [load[l] EXCEPT !.got = g] OBVIOUS
  <2>5. n \in Load /\ n.read = load[l].read /\ n.passes = load[l].passes
    BY <1>0, <2>1, <2>3, <2>4 DEF Load
  <2>6. Step(l, n) /\ UNCHANGED list
    BY <1>3, <2>2, <2>4 DEF Aggregate, Step
  <2> QED BY <1>2, <2>1, <2>5, <2>6
<1>4. ASSUME NEW b \in Buckets, LookUp(l, b) PROVE Goal
  <2>1. PICK n : /\ n \in {[load[l] EXCEPT !.found = @ \union {b}],
                          [load[l] EXCEPT !.failed = TRUE]}
                 /\ Step(l, n)
    BY <1>4 DEF LookUp, Step
  <2>2. load[l] # None /\ UNCHANGED list BY <1>4 DEF LookUp, Loading
  <2>3. n \in Load /\ n.read = load[l].read /\ n.passes = load[l].passes
    <3>1. CASE n = [load[l] EXCEPT !.found = @ \union {b}]
      BY <1>0, <2>2, <3>1 DEF Load
    <3>2. CASE n = [load[l] EXCEPT !.failed = TRUE]
      BY <1>0, <2>2, <3>2 DEF Load
    <3> QED BY <2>1, <3>1, <3>2
  <2> QED BY <1>2, <2>1, <2>2, <2>3
<1>5. CASE ListHit(l)
  <2>1. /\ load[l] \in Load /\ list \in List /\ load[l] # None /\ list # None
        /\ load[l].passes = None /\ load[l].read = None
    BY <1>0, <1>5 DEF ListHit, Asks, TypeOK
  <2>2. PICK n : n = [load[l] EXCEPT !.passes = list.passes,
                                     !.raced = @ \/ list.raced]
    OBVIOUS
  <2>3. list.passes \in Nat /\ list.passes # None
    BY <2>1, NoneAssumption DEF List
  <2>4. n \in Load /\ n.passes = list.passes
    BY <2>1, <2>2 DEF Load, List
  <2>5. Step(l, n) /\ UNCHANGED list
    BY <1>5, <2>2 DEF ListHit, Step
  <2>6. PICK v : v = kept OBVIOUS
  <2>7. Stage(l)' = "ended" /\ Learnt(l)' = v
    BY <2>1, <2>3, <2>4, <2>5, <2>6, StepTakes
  <2>8. PassesBySeason!Gets(l, "ended", v) BY <2>4, <2>5, <2>7, StepTakes, OneTakes
  <2>9. Stage(l) = "asked" BY <2>1 DEF Stage
  <2>10. PassesBySeason!Hit(l)
    BY <2>1, <2>3, <2>5, <2>6, <2>8, <2>9
       DEF PassesBySeason!Hit, PassesBySeason!Gets
  <2> QED BY <2>10 DEF PassesBySeason!AsideNext
<1>6. CASE ListMiss(l)
  <2>1. /\ load[l] \in Load /\ load[l] # None /\ passes \in Nat /\ passes # None
        /\ load[l].passes = None /\ load[l].read = None /\ UNCHANGED list
    BY <1>0, <1>6, NoneAssumption DEF ListMiss, Asks, TypeOK
  <2>2. PICK n : /\ \/ n = [load[l] EXCEPT !.read = passes]
                    \/ n = [load[l] EXCEPT !.passes = passes]
                 /\ Step(l, n)
    BY <1>6 DEF ListMiss, Step
  <2>3. /\ n \in Load
        /\ \/ n.passes = passes
           \/ n.read = passes /\ n.passes = None
    BY <2>1, <2>2 DEF Load
  <2>4. PICK v : v = passes OBVIOUS
  <2>5. Stage(l)' \in {"loaded", "ended"} /\ Learnt(l)' = v
    BY <2>1, <2>2, <2>3, <2>4, StepTakes
  <2>6. \/ PassesBySeason!Gets(l, "loaded", v)
        \/ PassesBySeason!Gets(l, "ended", v)
    BY <2>2, <2>3, <2>5, StepTakes, OneTakes
  <2>7. Stage(l) = "asked" BY <2>1 DEF Stage
  <2>8. PassesBySeason!Load(l)
    BY <2>1, <2>4, <2>6, <2>7 DEF PassesBySeason!Load, PassesBySeason!Gets
  <2> QED BY <2>8 DEF PassesBySeason!AsideNext
<1>7. CASE ListFill(l)
  <2>1. /\ load[l] \in Load /\ load[l] # None /\ load[l].passes = None
        /\ load[l].read \in Nat /\ load[l].read # None
        /\ load[l].raced \in BOOLEAN
    BY <1>0, <1>7, NoneAssumption DEF ListFill, Reads, Load
  <2>2. PICK n : n = [load[l] EXCEPT !.passes = load[l].read] OBVIOUS
  <2>3. n \in Load /\ n.passes = load[l].read
    BY <2>1, <2>2 DEF Load
  <2>4. Step(l, n) /\ list' = [passes |-> load[l].read, raced |-> load[l].raced]
    BY <1>7, <2>2 DEF ListFill, Step
  <2>5. list' \in List /\ list'.passes = load[l].read
    BY <2>1, <2>4 DEF List
  <2>6. list' # None BY <2>5, NoneAssumption
  <2>7. PICK v : v = load[l].read OBVIOUS
  <2>8. Stage(l)' = "ended" /\ Learnt(l)' = v
    BY <2>1, <2>3, <2>4, <2>7, StepTakes
  <2>9. PassesBySeason!Gets(l, "ended", v)
    BY <2>3, <2>4, <2>8, StepTakes, OneTakes
  <2>10. Stage(l) = "loaded" /\ Learnt(l) = v
    BY <2>1, <2>7 DEF Stage, Learnt
  <2>11. kept' = v BY <2>5, <2>6, <2>7
  <2>12. PassesBySeason!Keep(l)
    BY <2>9, <2>10, <2>11 DEF PassesBySeason!Keep, PassesBySeason!Gets
  <2> QED BY <2>12 DEF PassesBySeason!AsideNext
<1>8. CASE Done(l) \/ Failed(l)
  <2>1. load' = [load EXCEPT ![l] = None] /\ UNCHANGED list
    BY <1>8 DEF Done, Failed, caches
  <2>2. load'[l] = None /\ \A x \in Loads \ {l} : load'[x] = load[x]
    BY <2>1 DEF TypeOK
  <2>3. Stage(l)' = "away" /\ Learnt(l)' = None BY <2>2 DEF Stage, Learnt
  <2>4. PassesBySeason!Gets(l, "away", None) BY <2>2, <2>3, OneTakes
  <2>5. PassesBySeason!Leave(l) BY <2>1, <2>4 DEF PassesBySeason!Leave
  <2> QED BY <2>5 DEF PassesBySeason!AsideNext
<1> QED BY <1>1, <1>3, <1>4, <1>5, <1>6, <1>7, <1>8

LEMMA OthersStay ==
    ASSUME TypeOK,
           \/ \E s \in Sales, amount \in Profits :
                \/ AddSale(s, amount)
                \/ \E w \in Writers, target \in (Live \ {"CANCELLED"})
                                         \union {status[s], "DELETED"} :
                     WriteSale(w, s, target, amount)
           \/ \E w \in Writers : WritePass(w) \/ Flush(w) \/ FlushLost(w)
           \/ FlushUserCache \/ CronRead \/ CronCancel \/ CronFlush \/ Expire
           \/ UNCHANGED vars
    PROVE  Stays
<1>1. CASE UNCHANGED load /\ (UNCHANGED list \/ list' = None)
  BY <1>1 DEF Stays, Stage, Learnt
<1>2. CASE Race /\ (UNCHANGED list \/ list' = None)
  BY <1>2, RaceStays DEF Stays
<1>3. ASSUME NEW w \in Writers, FlushLost(w) PROVE Stays
  <2>1. Race /\ list' = IF list = None THEN None
                        ELSE [list EXCEPT !.raced = TRUE]
    BY <1>3 DEF FlushLost
  <2>2. CASE list # None
    <3>1. list' \in List /\ list'.passes = list.passes
      BY <2>1, <2>2 DEF TypeOK, List
    <3>2. list' # None BY <3>1, NoneAssumption
    <3> QED BY <2>1, <2>2, <3>1, <3>2, RaceStays DEF Stays
  <2>3. CASE list = None BY <2>1, <2>3, RaceStays DEF Stays
  <2> QED BY <2>2, <2>3
<1>4. ASSUME NEW w \in Writers, Flush(w)
      PROVE  Race /\ (UNCHANGED list \/ list' = None)
  BY <1>4, FlushShortens DEF FlushReports
<1>5. ASSUME NEW s, NEW amount, NEW w, NEW target,
             \/ AddSale(s, amount) \/ WriteSale(w, s, target, amount)
             \/ WritePass(w)
      PROVE  (UNCHANGED load \/ Race) /\ UNCHANGED list
  BY <1>5 DEF AddSale, WriteSale, WritePass, caches
<1>6. ASSUME FlushUserCache \/ CronRead \/ CronCancel \/ CronFlush \/ Expire
             \/ UNCHANGED vars
      PROVE  (UNCHANGED load \/ Race) /\ (UNCHANGED list \/ list' = None)
  BY <1>6 DEF FlushUserCache, CronRead, CronCancel, CronFlush, Expire, vars,
              caches, FlushReports
<1> QED BY <1>1, <1>2, <1>3, <1>4, <1>5, <1>6

(* A report takes the season's passes as any reader of the cache does, for *)
(* any number of loads and writers, and of reports that fail meanwhile.    *)
THEOREM PassesAreGets == Spec => ReadsPassesThroughTheCache
<1>1. Init => PassesBySeason!AsideInit
  <2> SUFFICES ASSUME Init PROVE PassesBySeason!AsideInit OBVIOUS
  <2>1. \A l \in Loads : load[l] = None BY DEF Init
  <2> QED BY <2>1 DEF Init, PassesBySeason!AsideInit, Stage, Learnt
<1>2. TypeOK /\ [Next]_vars
        => [PassesBySeason!AsideNext]_(PassesBySeason!aside)
  BY LoadTakes, OthersStay, ListStays DEF Next
<1> QED
  BY <1>1, <1>2, ReportTypes, PTL
     DEF Spec, ReadsPassesThroughTheCache, PassesBySeason!AsideSpec
=============================================================================
