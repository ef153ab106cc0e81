------------------------------ MODULE Reports ------------------------------
(***************************************************************************)
(* The accounting reports of one user and one season                       *)
(* (src/src/api/accounting): the season's figures and the amortization of  *)
(* its passes, each put together from several queries that run at          *)
(* different moments, cached for a day, and built in part from a list of   *)
(* season passes that has a cache entry of its own.  Around them, the      *)
(* writes of sales and season passes, which flush after they commit, the   *)
(* flush by the administrator, and the nightly cron, which flushes for the *)
(* users it had read before it cancels.                                    *)
(*                                                                         *)
(* A definition named X_Y is a mutation of X, the definition after it; the *)
(* specification uses none of them.                                        *)
(*                                                                         *)
(* Abstracted: a bucket's sums and averages are the sales they are taken   *)
(* over, with their profits; the two lookups of a bucket are one step; the *)
(* single-flight lock of the cache, so more loads run at once than the     *)
(* code lets (RedisCache has the lock); the sales and passes of other      *)
(* users but for the cron's; recipients, sales lists and the cached pass.  *)
(***************************************************************************)
EXTENDS Naturals, Sequences, FiniteSets, FiniteSetsExt

CONSTANTS
    Sales,         \* sales whose match is in the report's window
    Profits,       \* the profits a sale may have
    Wanted,        \* the buckets of each report
    Loads,         \* requests that load a report
    Writers,       \* requests that write
    MaxPassWrites, \* bound: writes of the season's passes
    None

Live == {"PENDING", "SOLD", "CANCELLED", "GIFTED"}
Keys == DOMAIN Wanted

(* statusConverter, and the SOLD sales lead times and amortization read.   *)
StatusesOf ==
    [realized   |-> {"SOLD"},
     unrealized |-> {"CANCELLED", "GIFTED"},
     pending    |-> {"PENDING"},
     gifted     |-> {"GIFTED"},
     leadTime   |-> {"SOLD"},
     perMatch   |-> {"SOLD"}]
Buckets == DOMAIN StatusesOf
(* The buckets that name their least and most profitable sale.             *)
HasExtremes(b) == b \in {"realized", "unrealized", "pending", "gifted"}

ASSUME ReportsAssumption ==
    /\ Profits \subseteq Nat /\ Profits # {} /\ IsFiniteSet(Profits)
    /\ MaxPassWrites \in Nat
    /\ \A k \in Keys : Wanted[k] \subseteq Buckets

VARIABLES
    status, profit, \* of each sale
    passes,         \* the season's passes: how often they were written
    list,           \* cached list of them: [passes, raced], or None
    report,         \* cached report of each key, or None
    load,           \* what each load is doing, or None
    flush,          \* the flushes each writer has still to do
    cron,           \* where cancelMany is
    listed,         \* ghost: sales listed since the last flush of reports
    missed          \* ghost: a change whose flush of the reports was lost,
                    \* or that nobody meant to flush them for

database == <<status, profit, passes>>
caches   == <<list, report>>
ghosts   == <<listed, missed>>
vars     == <<database, caches, load, flush, cron, ghosts>>

(* A load: the buckets read so far, those whose extremes were found, the   *)
(* list of passes; raced: something was written or flushed since it began. *)
Entry == [sale : Sales, profit : Profits]
Got   == UNION {[B -> SUBSET Entry] : B \in SUBSET Buckets}
Load  == [key : Keys, got : Got, found : SUBSET Buckets,
          read : Nat \union {None}, passes : Nat \union {None},
          raced : BOOLEAN, failed : BOOLEAN]
List  == [passes : Nat, raced : BOOLEAN]

ASSUME NoneAssumption == None \notin Nat \union List \union Load

Init ==
    /\ status = [s \in Sales |-> "UNUSED"]
    /\ profit \in [Sales -> {Min(Profits)}]
    /\ passes = 0
    /\ list = None /\ report = [k \in Keys |-> None]
    /\ load \in [Loads -> {None}]
    /\ flush = [w \in Writers |-> << >>]
    /\ cron = "idle"
    /\ listed = {} /\ missed = FALSE

-----------------------------------------------------------------------------
(* Loading a report.                                                       *)

SalesIn(statuses) ==
    {[sale |-> s, profit |-> profit[s]] :
        s \in {x \in Sales : status[x] \in statuses}}
InBucket(b) == SalesIn(StatusesOf[b])

LookupScope_One(b) == {CHOOSE st \in StatusesOf[b] : TRUE}
LookupScope(b) == StatusesOf[b]

Begin(l, k) ==
    /\ load[l] = None /\ report[k] = None
    /\ load' = [load EXCEPT ![l] =
                  [key |-> k, got |-> << >>, found |-> {}, read |-> None,
                   passes |-> None, raced |-> FALSE, failed |-> FALSE]]
    /\ UNCHANGED <<database, caches, flush, cron, ghosts>>

Loading(l) == load[l] # None /\ ~load[l].failed
Step(l, next) ==
    /\ load' = [load EXCEPT ![l] = next]
    /\ UNCHANGED <<database, report, flush, cron, ghosts>>

(* The aggregate of a bucket, null if it is empty.                         *)
Aggregate(l, b) ==
    /\ Loading(l) /\ b \in Wanted[load[l].key] \ DOMAIN load[l].got
    /\ Step(l, [load[l] EXCEPT !.got =
                  [x \in DOMAIN load[l].got \union {b} |->
                     IF x = b THEN InBucket(b) ELSE load[l].got[x]]])
    /\ UNCHANGED list

NeedsLookup(l) ==
    {b \in DOMAIN load[l].got :
        HasExtremes(b) /\ load[l].got[b] # {} /\ b \notin load[l].found}

(* getOneByWithFullMatch, findFirstOrThrow: a sale with the least profit   *)
(* and one with the greatest are still there, or the report fails.         *)
LookUp(l, b) ==
    LET profits == {e.profit : e \in load[l].got[b]}
        there   == {e.profit : e \in SalesIn(LookupScope(b))}
    IN /\ Loading(l) /\ b \in NeedsLookup(l)
       /\ \/ /\ {Min(profits), Max(profits)} \subseteq there
             /\ Step(l, [load[l] EXCEPT !.found = @ \union {b}])
          \/ /\ ~({Min(profits), Max(profits)} \subseteq there)
             /\ Step(l, [load[l] EXCEPT !.failed = TRUE])
       /\ UNCHANGED list

(* findBySeason, through the cache of the list.  It goes on when another   *)
(* query has failed the report.                                            *)
Asks(l) == load[l] # None /\ load[l].passes = None /\ load[l].read = None

ListHit(l) ==
    /\ Asks(l) /\ list # None
    /\ Step(l, [load[l] EXCEPT !.passes = list.passes,
                               !.raced = @ \/ list.raced])
    /\ UNCHANGED list

(* The passes themselves, whatever has been stored since the miss: to be   *)
(* stored, but not by who has waited for another in vain.                  *)
ListMiss(l) ==
    /\ Asks(l)
    /\ \/ Step(l, [load[l] EXCEPT !.read = passes])
       \/ Step(l, [load[l] EXCEPT !.passes = passes])
    /\ UNCHANGED list

Reads(l) == load[l] # None /\ load[l].read # None /\ load[l].passes = None

ListFill(l) ==
    /\ Reads(l)
    /\ list' = [passes |-> load[l].read, raced |-> load[l].raced]
    /\ Step(l, [load[l] EXCEPT !.passes = load[l].read])

Done(l) ==
    /\ Loading(l)
    /\ DOMAIN load[l].got = Wanted[load[l].key] /\ NeedsLookup(l) = {}
    /\ load[l].passes # None
    /\ report' = [report EXCEPT ![load[l].key] =
                    [got |-> load[l].got, passes |-> load[l].passes,
                     raced |-> load[l].raced]]
    /\ load' = [load EXCEPT ![l] = None]
    /\ UNCHANGED <<database, list, flush, cron, ghosts>>

(* The rejected Promise.all answers 500; nothing is cached.                *)
Failed(l) ==
    /\ load[l] # None /\ load[l].failed
    /\ load' = [load EXCEPT ![l] = None]
    /\ UNCHANGED <<database, caches, flush, cron, ghosts>>

Expire ==
    /\ \/ list # None /\ list' = None /\ UNCHANGED report
       \/ /\ \E k \in Keys : /\ report[k] # None
                             /\ report' = [report EXCEPT ![k] = None]
          /\ UNCHANGED list
    /\ UNCHANGED <<database, load, flush, cron, ghosts>>

-----------------------------------------------------------------------------
(* Writes.                                                                 *)

(* Every load under way has seen, or may yet see, another state.           *)
Race == load' = [l \in Loads |-> IF load[l] = None THEN None
                                 ELSE [load[l] EXCEPT !.raced = TRUE]]

(* addSale flushes the sales keys, not the reports.                        *)
AddSale(s, amount) ==
    /\ status[s] = "UNUSED"
    /\ status' = [status EXCEPT ![s] = "PENDING"]
    /\ profit' = [profit EXCEPT ![s] = amount]
    /\ listed' = listed \union {s}
    /\ UNCHANGED <<passes, caches, load, flush, cron, missed>>

(* update, un-gift and delete of a sale; afterWrite flushes the reports.   *)
WriteSale(w, s, target, amount) ==
    /\ flush[w] = << >> /\ status[s] \in Live
    /\ status' = [status EXCEPT ![s] = target]
    /\ profit' = [profit EXCEPT ![s] = amount]
    /\ flush' = [flush EXCEPT ![w] = <<"report">>]
    /\ Race
    /\ UNCHANGED <<passes, caches, cron, ghosts>>

PassFlushes_Reversed == <<"report", "list">>
PassFlushes == <<"list", "report">>

(* create, update and remove of a season pass.                             *)
WritePass(w) ==
    /\ flush[w] = << >> /\ passes < MaxPassWrites
    /\ passes' = passes + 1
    /\ flush' = [flush EXCEPT ![w] = PassFlushes]
    /\ Race
    /\ UNCHANGED <<status, profit, caches, cron, ghosts>>

FlushReports ==
    /\ report' = [k \in Keys |-> None]
    /\ listed' = {} /\ missed' = FALSE
    /\ Race

Flush(w) ==
    /\ flush[w] # << >>
    /\ flush' = [flush EXCEPT ![w] = Tail(@)]
    /\ \/ Head(flush[w]) = "report" /\ FlushReports /\ UNCHANGED list
       \/ /\ Head(flush[w]) = "list" /\ list' = None /\ Race
          /\ UNCHANGED <<report, ghosts>>
    /\ UNCHANGED <<database, cron>>

(* The process, or Redis, goes away after the commit.                      *)
FlushLost(w) ==
    /\ flush[w] # << >>
    /\ flush' = [flush EXCEPT ![w] = << >>]
    /\ list' = IF list = None THEN None ELSE [list EXCEPT !.raced = TRUE]
    /\ missed' = TRUE
    /\ Race
    /\ UNCHANGED <<database, report, cron, listed>>

(* flushUserCache of the administrator: its flushes run at the same time,  *)
(* and any of them may fail.                                               *)
FlushUserCache ==
    /\ \/ FlushReports /\ UNCHANGED list
       \/ list' = None /\ Race /\ UNCHANGED <<report, ghosts>>
    /\ UNCHANGED <<database, flush, cron>>

(* Which of the listed sales have a match that has kicked off is left      *)
(* open; more of them may have by the second statement.                    *)
Due(S) == S \subseteq {s \in Sales : status[s] = "PENDING"}

(* findMany: with no sale due, this user's or another's, cancelMany ends.  *)
CronRead ==
    /\ cron = "idle"
    /\ \E S \in SUBSET Sales :
         /\ Due(S)
         /\ cron' \in IF S # {} THEN {"seen"} ELSE {"unseen", "idle"}
    /\ UNCHANGED <<database, caches, load, flush, ghosts>>

(* updateMany cancels what is due now, not what was due at the read.       *)
CronCancel ==
    /\ cron \in {"seen", "unseen"}
    /\ cron' = IF cron = "seen" THEN "flush" ELSE "idle"
    /\ \E S \in SUBSET Sales :
         /\ Due(S)
         /\ status' = [s \in Sales |->
                         IF s \in S THEN "CANCELLED" ELSE status[s]]
         /\ missed' = (missed \/ (cron = "unseen" /\ S # {}))
    /\ Race
    /\ UNCHANGED <<profit, passes, caches, flush, listed>>

(* The cron's flushes run at the same time; one that fails is swallowed,   *)
(* and nobody will do it again.                                            *)
CronFlush ==
    /\ cron = "flush" /\ cron' = "idle"
    /\ \/ FlushReports
       \/ missed' = TRUE /\ UNCHANGED <<report, load, listed>>
    /\ UNCHANGED <<database, list, flush>>

Next ==
    \/ \E l \in Loads :
         \/ \E k \in Keys : Begin(l, k)
         \/ \E b \in Buckets : Aggregate(l, b) \/ LookUp(l, b)
         \/ ListHit(l) \/ ListMiss(l) \/ ListFill(l) \/ Done(l) \/ Failed(l)
    \/ \E s \in Sales, amount \in Profits :
         \/ AddSale(s, amount)
         \/ \E w \in Writers, target \in (Live \ {"CANCELLED"})
                                  \union {status[s], "DELETED"} :
              WriteSale(w, s, target, amount)
    \/ \E w \in Writers : WritePass(w) \/ Flush(w) \/ FlushLost(w)
    \/ FlushUserCache
    \/ CronRead \/ CronCancel \/ CronFlush \/ Expire

Spec == Init /\ [][Next]_vars

-----------------------------------------------------------------------------
(* Properties.                                                             *)

(* Every variable keeps its type.                                          *)
TypeOK ==
    /\ status \in [Sales -> Live \union {"UNUSED", "DELETED"}]
    /\ profit \in [Sales -> Profits]
    /\ passes \in 0 .. MaxPassWrites
    /\ list \in List \union {None}
    /\ report \in [Keys -> [got : Got, passes : Nat, raced : BOOLEAN]
                             \union {None}]
    /\ load \in [Loads -> Load \union {None}]
    /\ flush \in [Writers -> {<<"list", "report">>, <<"report">>, << >>}]
    /\ cron \in {"idle", "seen", "unseen", "flush"}
    /\ listed \subseteq Sales /\ missed \in BOOLEAN

(* A write is committed and its flush of the reports is still to come.     *)
FlushDue == cron = "flush" \/ \E w \in Writers : flush[w] # << >>

(* What was read of some buckets is what they hold, but for sales listed   *)
(* since, which may be missing from the pending one.                       *)
Shows(got, buckets) ==
    /\ \A b \in buckets \ {"pending"} : got[b] = InBucket(b)
    /\ "pending" \in buckets =>
         /\ got["pending"] \subseteq InBucket("pending")
         /\ \A e \in InBucket("pending") \ got["pending"] : e.sale \in listed

(* A cached report that nothing raced with shows every bucket and the      *)
(* passes as they are, unless a flush is still to come, was lost (with the *)
(* process, or swallowed by the cron) or was never meant (the cron has     *)
(* cancelled for a user it had not read); only sales listed since may be   *)
(* missing, and only from the pending bucket.                              *)
OldReportHasCause ==
    \A k \in Keys :
      report[k] # None /\ ~report[k].raced /\ ~missed /\ ~FlushDue =>
        report[k].passes = passes /\ Shows(report[k].got, Wanted[k])

(* A report fails over a missing extreme only if a sale was written while  *)
(* it loaded.                                                              *)
FailsOnlyWhenRaced ==
    \A l \in Loads : load[l] # None /\ load[l].failed => load[l].raced

(* A load as a reader of the list.                                         *)
Stage(l) ==
    IF load[l] = None THEN "away"
    ELSE IF load[l].passes # None THEN "ended"
    ELSE IF load[l].read # None THEN "loaded" ELSE "asked"

Learnt(l) ==
    IF load[l] = None THEN None
    ELSE IF load[l].passes = None THEN load[l].read ELSE load[l].passes

PassesBySeason == INSTANCE CacheAside WITH
    Readers <- Loads,
    row     <- passes,
    kept    <- IF list = None THEN None ELSE list.passes,
    at      <- [l \in Loads |-> Stage(l)],
    value   <- [l \in Loads |-> Learnt(l)]

(* A report takes the passes as the cache lets any reader take them, and   *)
(* a report that fails meanwhile leaves nothing else in their cache than   *)
(* what it has read of them.                                               *)
ReadsPassesThroughTheCache == PassesBySeason!AsideSpec

-----------------------------------------------------------------------------
(* The inductive invariant: what a load or the list has read, nothing      *)
(* having raced with it, is what there is.                                 *)

(* The passes have changed and the flush of their list is still to come.   *)
ListDue == \E w \in Writers : flush[w] = <<"list", "report">>

ListInv ==
    list # None /\ ~list.raced /\ ~ListDue => list.passes = passes

LoadInv(l) ==
    load[l] # None /\ ~load[l].raced =>
      /\ Shows(load[l].got, DOMAIN load[l].got)
      /\ load[l].read # None => load[l].read = passes
      /\ load[l].passes # None /\ ~ListDue => load[l].passes = passes
      /\ ~load[l].failed

ReportsInv ==
    /\ TypeOK
    /\ ListInv
    /\ \A l \in Loads : LoadInv(l)
    /\ OldReportHasCause
=============================================================================
