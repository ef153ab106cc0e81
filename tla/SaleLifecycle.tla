--------------------------- MODULE SaleLifecycle ---------------------------
(***************************************************************************)
(* The life of one user's sales: the requests that update, gift, un-gift   *)
(* and delete a sale (src/src/api/sales/usecases), the nightly cron that   *)
(* cancels sales whose match has been played (cancelMany in                *)
(* src/src/db/sales/sales.db.ts), the rows they write and the Redis entry  *)
(* an update reads its sale from.                                          *)
(*                                                                         *)
(* A request is a process that first reads the sale (an update through the *)
(* cache, un-gift and delete from the database), decides on that snapshot, *)
(* and then runs one Prisma interactive transaction (READ COMMITTED).  The *)
(* transaction is modelled statement by statement with Postgres' row locks *)
(* because un-gift and delete touch the child rows before the sale row.    *)
(* Uncommitted writes live in view[r] and are published by Commit.         *)
(*                                                                         *)
(* A definition named X_Y is a mutation of X, the definition after it; the *)
(* specification uses none of them.                                        *)
(*                                                                         *)
(* Abstracted: prices and names, list caches and the accounting and        *)
(* recipients caches, the single-flight lock of the cache.  A sale's match *)
(* date does not move; "played" is the set of sales whose match date has   *)
(* passed.  A timestamp is only present (TRUE) or null (FALSE).            *)
(***************************************************************************)
EXTENDS SaleRules, Naturals, Sequences, FiniteSets, Functions

CONSTANTS
    Requests,    \* request identities; each is used for one request
    Sales,       \* sale ids
    Recipients,  \* recipient names, one per case-insensitive name
    Passes,      \* the user's season passes of the matches' season
    MaxTickets,  \* bound: tickets allocated to one pass
    Payloads,    \* the requests the environment may send
    None         \* the null of a nullable column, a free lock, a cache miss

SaleStatus == {"PENDING", "SOLD", "CANCELLED", "GIFTED"}
Targets    == {"PENDING", "SOLD", "GIFTED"}
(* "UNUSED": no such row yet; "DELETED": the row has been deleted.         *)
RowStatus  == SaleStatus \union {"UNUSED", "DELETED"}

NoAllocs    == [p \in Passes |-> 0]
Allocations == [Passes -> 0 .. MaxTickets] \ {NoAllocs}
sumTickets(allocs) == FoldFunction(+, 0, allocs)
Counts == {sumTickets(allocs) : allocs \in Allocations}

(* UpdateSaleDto, or a bare un-gift or delete; "NONE", None and NoAllocs   *)
(* are absent fields.                                                      *)
Payload ==
    {p \in [op        : {"update", "ungift", "delete"},
            sale      : Sales,
            target    : Targets \union {"NONE"},
            recipient : Recipients \union {None},
            byId      : BOOLEAN,
            allocs    : Allocations \union {NoAllocs}] :
       p.op # "update" => p.allocs = NoAllocs}

ASSUME ConstantsAssumption ==
    /\ None \notin Requests \union Recipients
    /\ MaxTickets \in Nat
    /\ Payloads \subseteq Payload

Tables    == {"sales", "gifts", "sale_histories", "sale_pass_allocations"}
(* What a transaction can hold a row lock on.                              *)
Resources == (Tables \X Sales) \union ({"recipients"} \X Recipients)

VARIABLES
    sale,     \* sales rows: status, soldAt, cancelledAt, nbTickets
    gift,     \* gifts row of a sale: its recipient, or None
    alloc,    \* sale_pass_allocations rows of a sale: tickets per pass
    hist,     \* sale_histories rows of a sale: the recorded statuses
    recips,   \* recipients rows
    played,   \* sales whose match date is in the past
    cache,    \* Redis key user:id:<u>:sales:id:<s>, or None
    lock,     \* holder of each row lock, or None
    pc, req, snap, view, \* per request: next step, payload, snapshot, view
    cron                 \* next step of cancelMany

db   == <<sale, gift, alloc, hist, recips>>
vars == <<sale, gift, alloc, hist, recips, played, cache, lock,
          pc, req, snap, view, cron>>

Row == [status: RowStatus, soldAt: BOOLEAN, cancelledAt: BOOLEAN,
        nbTickets: Counts \union {0}]
EmptyRow(status) ==
    [status |-> status, soldAt |-> FALSE, cancelledAt |-> FALSE,
     nbTickets |-> 0]
Live(row) == row.status \in SaleStatus

Snapshot  == [row: Row, gift: Recipients \union {None}]
View      == [row: Row, gift: Recipients \union {None},
              alloc: Allocations \union {NoAllocs}, hist: Seq(SaleStatus)]
BlankView == [row |-> EmptyRow("UNUSED"), gift |-> None,
              alloc |-> NoAllocs, hist |-> << >>]
Stored(s) == [row |-> sale[s], gift |-> gift[s]]
Unread    == [row |-> EmptyRow("UNUSED"), gift |-> None]

TxSteps == {"delGift", "delHist", "delAlloc", "lockSale", "row",
            "children", "gift", "commit"}
(* A 400; the 404s of an unknown recipient and of the sale; a 500.         *)
Answers == {"ok", "refused", "noRecipient", "notFound", "failed"}
Steps   == {"idle", "read", "fill", "check", "inval"} \union TxSteps
              \union Answers

Init ==
    /\ sale   = [s \in Sales |-> EmptyRow("UNUSED")]
    /\ gift   = [s \in Sales |-> None]
    /\ alloc  = [s \in Sales |-> NoAllocs]
    /\ hist   = [s \in Sales |-> << >>]
    /\ recips = {}
    /\ played = {}
    /\ cache  = [s \in Sales |-> None]
    /\ lock   = [x \in Resources |-> None]
    /\ pc     = [r \in Requests |-> "idle"]
    /\ req    \in [Requests -> {None}]
    /\ snap   = [r \in Requests |-> Unread]
    /\ view   = [r \in Requests |-> BlankView]
    /\ cron   = "idle"

-----------------------------------------------------------------------------
(* The decisions of UpdateSaleUsecase, on the snapshot.                    *)

targetsExistingGift(current, p) ==
    /\ current = "GIFTED"
    /\ p.target = "GIFTED" \/ (p.target = "NONE" /\ p.recipient # None)

(* Which transaction a request runs: the intent of an update, or its op.   *)
Intent(current, p) ==
    IF p.op # "update" THEN p.op
    ELSE IF targetsExistingGift(current, p) THEN "updateGift"
    ELSE IF p.target = "GIFTED" THEN "enterGift"
    ELSE "plain"

Kind(r)   == Intent(snap[r].row.status, req[r])
SaleOf(r) == req[r].sale

(* resolveNewGiftRecipient: entering GIFTED needs someone to give to.      *)
LacksRecipient_Unchecked(current, p) == FALSE
LacksRecipient(current, p) ==
    Intent(current, p) = "enterGift" /\ p.recipient = None

(* The 400s of UpdateSaleUsecase.execute, every one a check made before    *)
(* the recipient is looked up.                                             *)
Refused(current, p) ==
    \/ p.target # "NONE" /\ p.target \notin LEGAL_TRANSITIONS[current]
    \/ isKickoffGuarded(current, p.target) /\ p.sale \in played
    \/ /\ p.recipient # None /\ p.target # "GIFTED"
       /\ ~targetsExistingGift(current, p)
    \/ LacksRecipient(current, p)

(* assertOwnedRecipient: the 404 of SALE_GIFT_RECIPIENT_NOT_FOUND.         *)
UnknownRecipient(p) == p.recipient # None /\ p.byId /\ p.recipient \notin recips

(* timestampPatch: a stamp follows the move from the snapshot's status to  *)
(* the written one, not the row's own.                                     *)
Mirror(status, from, to, stamp) ==
    IF (from = status) = (to = status) THEN stamp ELSE to = status

PatchedTickets_Forgotten(r) == view[r].row.nbTickets
PatchedTickets(r) ==
    IF req[r].allocs = NoAllocs THEN view[r].row.nbTickets
    ELSE sumTickets(req[r].allocs)

(* The sale row as the transaction of r leaves it.                         *)
PatchedRow(r) ==
    LET row  == view[r].row
        from == snap[r].row.status
        to   == CASE Kind(r) = "ungift"    -> "PENDING"
                  [] Kind(r) = "updateGift" -> "NONE"
                  [] OTHER -> req[r].target
        next == IF to = "NONE" THEN from ELSE to
    IN IF Kind(r) = "ungift" THEN [row EXCEPT !.status = "PENDING"]
       ELSE [status      |-> IF to = "NONE" THEN row.status ELSE to,
             soldAt      |-> Mirror("SOLD", from, next, row.soldAt),
             cancelledAt |-> Mirror("CANCELLED", from, next, row.cancelledAt),
             nbTickets   |-> PatchedTickets(r)]

-----------------------------------------------------------------------------
(* Row locks.                                                              *)

(* tx.gifts.create / .update meets the gift row, findUniqueOrThrow only    *)
(* reads it; a recipient another transaction is creating is waited for on  *)
(* its unique index.                                                       *)
GiftNeeds_AllSales(r) == {"sales"} \X Sales
GiftNeeds(r) ==
    {x \in {<<"gifts", SaleOf(r)>>} :
        gift[SaleOf(r)] # None /\ req[r].recipient # None}
    \union ({"recipients"} \X ({req[r].recipient} \ (recips \union {None})))

(* The rows the next statement of r locks, or waits for.                   *)
Needs(r) ==
    LET s == SaleOf(r)
        giftRow == {x \in {<<"gifts", s>>} : gift[s] # None}
    IN CASE pc[r] = "delGift"  -> giftRow
         [] pc[r] = "delHist"  ->
              {x \in {<<"sale_histories", s>>} : hist[s] # << >>}
         [] pc[r] = "delAlloc" ->
              {x \in {<<"sale_pass_allocations", s>>} : alloc[s] # NoAllocs}
         [] pc[r] = "lockSale" -> {<<"sales", s>>}
         [] pc[r] = "row"      ->   \* cascade, or the foreign key's check
              {x \in giftRow : \/ req[r].op = "delete"
                               \/ PatchedRow(r).status # view[r].row.status}
         [] pc[r] = "children" ->
              {x \in {<<"sale_pass_allocations", s>>} :
                  req[r].allocs # NoAllocs}
         [] pc[r] = "gift"     -> GiftNeeds(r)
         [] OTHER -> {}

Waits(r, q) == q # r /\ \E x \in Needs(r) : lock[x] = q
CanLock_OtherConnection(r) == \A x \in Needs(r) : lock[x] = None
CanLock(r)  == \A x \in Needs(r) : lock[x] \in {None, r}
Acquire(r)  ==
    lock' = [x \in Resources |-> IF x \in Needs(r) THEN r ELSE lock[x]]
Release(r)  ==
    lock' = [x \in Resources |-> IF lock[x] = r THEN None ELSE lock[x]]

(* A set of requests each of which waits for another of the set: Postgres  *)
(* finds such a cycle after deadlock_timeout and aborts one of it.         *)
WaitCycle(S) ==
    /\ S # {}
    /\ \A r \in S : \E q \in S : Waits(r, q)
    /\ \A q \in S : \E r \in S : Waits(r, q)

Goto(r, step) == pc' = [pc EXCEPT ![r] = step]

(* The request ends; whatever its transaction wrote is rolled back.        *)
Answer(r, answer) ==
    /\ Goto(r, answer)
    /\ Release(r)
    /\ view' = [view EXCEPT ![r] = BlankView]
    /\ snap' = [snap EXCEPT ![r] = Unread]
    /\ req' = [req EXCEPT ![r] = None]
    /\ UNCHANGED <<db, played, cache, cron>>

-----------------------------------------------------------------------------
(* Requests: arrival, the read of the sale, the decision.                  *)

(* POST sales: SalesService.addSale, one nested create; the flush that     *)
(* follows, unless it is lost, is FlushSales.                              *)
AddSale(s, allocs) ==
    /\ sale[s].status = "UNUSED"
    /\ sale' = [sale EXCEPT ![s] =
                  [status |-> "PENDING", soldAt |-> FALSE,
                   cancelledAt |-> FALSE, nbTickets |-> sumTickets(allocs)]]
    /\ alloc' = [alloc EXCEPT ![s] = allocs]
    /\ UNCHANGED <<gift, hist, recips, played, cache, lock, pc, req, snap,
                   view, cron>>

(* A request names a sale id the API has handed out.                       *)
Start(r, p) ==
    /\ pc[r] = "idle"
    /\ sale[p.sale].status # "UNUSED"
    /\ req' = [req EXCEPT ![r] = p]
    /\ Goto(r, "read")
    /\ UNCHANGED <<db, played, cache, lock, snap, view, cron>>

(* getOneSale of an update: a hit returns the cached row, a miss loads it. *)
ReadCached(r) ==
    LET s == SaleOf(r) IN
    /\ pc[r] = "read" /\ req[r].op = "update"
    /\ \/ /\ cache[s] # None
          /\ snap' = [snap EXCEPT ![r] = cache[s]]
          /\ Goto(r, "check")
       \/ /\ cache[s] = None
          /\ snap' = [snap EXCEPT ![r] = Stored(s)]
          /\ Goto(r, "fill")
    /\ UNCHANGED <<db, played, cache, lock, req, view, cron>>

FillCache(r) ==
    /\ pc[r] = "fill"
    /\ cache' = [cache EXCEPT ![SaleOf(r)] = snap[r]]
    /\ Goto(r, "check")
    /\ UNCHANGED <<db, played, lock, req, snap, view, cron>>

Check(r) ==
    LET current == snap[r].row.status IN
    /\ pc[r] = "check"
    /\ \/ ~Live(snap[r].row) /\ Answer(r, "notFound")
       \/ /\ Live(snap[r].row) /\ Refused(current, req[r])
          /\ Answer(r, "refused")
       \/ /\ Live(snap[r].row) /\ ~Refused(current, req[r])
          /\ UnknownRecipient(req[r])
          /\ Answer(r, "noRecipient")
       \/ /\ Live(snap[r].row) /\ ~Refused(current, req[r])
          /\ ~UnknownRecipient(req[r])
          /\ Goto(r, "lockSale")
          /\ UNCHANGED <<db, played, cache, lock, req, snap, view, cron>>

(* loadSale of un-gift and delete: a direct read, checked at once.         *)
ReadDb(r) ==
    LET s == SaleOf(r) IN
    /\ pc[r] = "read" /\ req[r].op # "update"
    /\ \/ ~Live(sale[s]) /\ Answer(r, "notFound")
       \/ /\ Live(sale[s])
          /\ req[r].op = "ungift" /\ sale[s].status # "GIFTED"
          /\ Answer(r, "refused")
       \/ /\ Live(sale[s])
          /\ req[r].op = "ungift" => sale[s].status = "GIFTED"
          /\ snap' = [snap EXCEPT ![r] = Stored(s)]
          /\ Goto(r, "delGift")
          /\ UNCHANGED <<db, played, cache, lock, req, view, cron>>

-----------------------------------------------------------------------------
(* Statements of a transaction.                                            *)

Statement(r, step) == pc[r] = step /\ CanLock(r)
Locked(r, next) ==
    /\ Acquire(r)
    /\ Goto(r, next)
    /\ UNCHANGED <<db, played, cache, req, snap, cron>>

(* tx.gifts.deleteMany: a row that exists is locked and, for r, gone.      *)
DeleteGiftRow_OutsideTx(r) ==
    /\ Statement(r, "delGift")
    /\ gift' = [gift EXCEPT ![SaleOf(r)] = None]
    /\ Goto(r, IF req[r].op = "ungift" THEN "lockSale" ELSE "delHist")
    /\ UNCHANGED <<sale, alloc, hist, recips, played, cache, lock, req, snap,
                   view, cron>>
DeleteGiftRow(r) ==
    /\ Statement(r, "delGift")
    /\ Locked(r, IF req[r].op = "ungift" THEN "lockSale" ELSE "delHist")
    /\ UNCHANGED view

(* tx.saleHistories.deleteMany: the rows visible to this statement.        *)
DeleteHistories(r) ==
    /\ Statement(r, "delHist")
    /\ Locked(r, "delAlloc")
    /\ view' = [view EXCEPT ![r].hist = hist[SaleOf(r)]]

DeleteAllocations(r) ==
    /\ Statement(r, "delAlloc")
    /\ Locked(r, "lockSale")
    /\ UNCHANGED view

(* tx.sales.update / tx.sales.delete reaches the row: P2025 if it is gone, *)
(* which delete alone does not catch.  From here the committed rows of the *)
(* sale change only through r.                                             *)
LockSale(r) ==
    LET s == SaleOf(r) IN
    /\ Statement(r, "lockSale")
    /\ \/ ~Live(sale[s])
          /\ Answer(r, IF req[r].op = "delete" THEN "failed" ELSE "notFound")
       \/ /\ Live(sale[s])
          /\ Locked(r, "row")
          /\ view' = [view EXCEPT ![r] =
               [row   |-> sale[s],
                gift  |-> IF lock[<<"gifts", s>>] = r THEN None ELSE gift[s],
                alloc |-> alloc[s],
                hist  |-> IF req[r].op = "delete" THEN view[r].hist
                          ELSE hist[s]]]

(* gifts_sale_id_sale_status_fkey, ON UPDATE RESTRICT: the status cannot   *)
(* change under a gift row.                                                *)
PinnedByGift_NoStatusInKey(r, row) == FALSE
PinnedByGift(r, row) ==
    view[r].gift # None /\ row.status # view[r].row.status

WriteRow(r) ==
    /\ Statement(r, "row") /\ req[r].op # "delete"
    /\ \/ PinnedByGift(r, PatchedRow(r)) /\ Answer(r, "failed")
       \/ /\ ~PinnedByGift(r, PatchedRow(r))
          /\ view' = [view EXCEPT ![r].row = PatchedRow(r)]
          /\ Goto(r, "children")
          /\ UNCHANGED <<db, played, cache, lock, req, snap, cron>>

(* A history row that the earlier deleteMany did not see restricts the     *)
(* delete (sale_histories_sale_id_fkey).                                   *)
UnseenHistory(r) ==
    SubSeq(hist[SaleOf(r)], Len(view[r].hist) + 1, Len(hist[SaleOf(r)]))
HistoryRestricts_NoKey(r) == FALSE
HistoryRestricts(r) == UnseenHistory(r) # << >>

(* tx.sales.delete: gifts and allocations cascade.                         *)
DeleteRow(r) ==
    /\ Statement(r, "row") /\ req[r].op = "delete"
    /\ \/ HistoryRestricts(r) /\ Answer(r, "failed")
       \/ /\ ~HistoryRestricts(r)
          /\ view' = [view EXCEPT ![r] =
               [row |-> EmptyRow("DELETED"), gift |-> None,
                alloc |-> NoAllocs, hist |-> UnseenHistory(r)]]
          /\ Goto(r, "commit")
          /\ UNCHANGED <<db, played, cache, lock, req, snap, cron>>

(* Replaces the allocations if the payload has some; records the snapshot. *)
WriteChildren(r) ==
    /\ Statement(r, "children")
    /\ Locked(r, IF Kind(r) \in {"enterGift", "updateGift"} THEN "gift"
                 ELSE "commit")
    /\ view' = [view EXCEPT
         ![r].alloc = IF req[r].allocs = NoAllocs THEN @ ELSE req[r].allocs,
         ![r].hist  = Append(@, snap[r].row.status)]

(* P2002 of tx.gifts.create, P2025 of tx.gifts.update.                     *)
GiftExists(r) == Kind(r) = "enterGift" /\ view[r].gift # None
GiftMissing_AnyCode(r) == Kind(r) = "enterGift" <=> view[r].gift # None
GiftMissing(r) == Kind(r) = "updateGift" /\ view[r].gift = None

(* Resolves or creates the recipient, then tx.gifts.create / .update.      *)
WriteGift(r) ==
    /\ Statement(r, "gift")
    /\ \/ GiftExists(r) /\ Answer(r, "failed")
       \/ GiftMissing(r) /\ Answer(r, "notFound")
       \/ /\ ~GiftExists(r) /\ ~GiftMissing(r)
          /\ Locked(r, "commit")
          /\ view' = [view EXCEPT ![r].gift =
                        IF req[r].recipient = None THEN @
                        ELSE req[r].recipient]

NewRecipients_WithNull(r) == {view[r].gift}
NewRecipients(r) == {view[r].gift} \ {None}

(* COMMIT: the view becomes the committed rows, the locks are released.  A *)
(* recipient the transaction created appears with the gift that names it.  *)
Commit(r) ==
    LET s == SaleOf(r) IN
    /\ pc[r] = "commit"
    /\ sale'   = [sale  EXCEPT ![s] = view[r].row]
    /\ gift'   = [gift  EXCEPT ![s] = view[r].gift]
    /\ alloc'  = [alloc EXCEPT ![s] = view[r].alloc]
    /\ hist'   = [hist  EXCEPT ![s] = view[r].hist]
    /\ recips' = recips \union NewRecipients(r)
    /\ Release(r)
    /\ Goto(r, "inval")
    /\ UNCHANGED <<played, cache, req, snap, view, cron>>

(* invalidatePattern(user:id:<u>:sales star) flushes the key of every sale.*)
Invalidate(r) ==
    /\ pc[r] = "inval"
    /\ cache' = [s \in Sales |-> None]
    /\ Goto(r, "ok")
    /\ view' = [view EXCEPT ![r] = BlankView]
    /\ snap' = [snap EXCEPT ![r] = Unread]
    /\ req' = [req EXCEPT ![r] = None]
    /\ UNCHANGED <<db, played, lock, cron>>

-----------------------------------------------------------------------------
(* Failures.                                                               *)

(* The request dies where it is: the process or its connection is lost,    *)
(* Redis throws after the commit, or the 5 s transaction timeout strikes.  *)
Crash(r) ==
    /\ pc[r] \notin {"idle"} \union Answers
    /\ Answer(r, "failed")

(* Postgres aborts a request of a wait cycle; Prisma rejects, the API says *)
(* 500.                                                                    *)
DeadlockVictim(r) ==
    /\ \E S \in SUBSET Requests : r \in S /\ WaitCycle(S)
    /\ Answer(r, "failed")

-----------------------------------------------------------------------------
(* The cron, time and the cache's TTL.                                     *)

Due_NeverCancelled ==
    {s \in played : sale[s].status = "PENDING" /\ ~sale[s].cancelledAt}
Due == {s \in played : sale[s].status = "PENDING"}

(* cancelMany's findMany: returns early when nothing is due.               *)
CronRead ==
    /\ cron = "idle"
    /\ cron' = IF Due = {} THEN "idle" ELSE "update"
    /\ UNCHANGED <<db, played, cache, lock, pc, req, snap, view>>

CancelledRow_KeepsSoldAt(row) ==
    [row EXCEPT !.status = "CANCELLED", !.cancelledAt = TRUE]
CancelledRow(row) ==
    [row EXCEPT !.status = "CANCELLED", !.soldAt = FALSE, !.cancelledAt = TRUE]

(* Its updateMany, one statement over whatever is due by now.              *)
CronUpdate ==
    /\ cron = "update"
    /\ \A s \in Due : lock[<<"sales", s>>] = None
    /\ sale' = [s \in Sales |->
                  IF s \in Due THEN CancelledRow(sale[s]) ELSE sale[s]]
    /\ cron' = "inval"
    /\ UNCHANGED <<gift, alloc, hist, recips, played, cache, lock, pc, req,
                   snap, view>>

(* Promise.allSettled over the user's keys: a failure is swallowed, and    *)
(* any of them may stay.                                                   *)
CronInvalidate ==
    /\ cron = "inval"
    /\ \E S \in SUBSET Sales :
         cache' = [s \in Sales |-> IF s \in S THEN None ELSE cache[s]]
    /\ cron' = "idle"
    /\ UNCHANGED <<db, played, lock, pc, req, snap, view>>

Kickoff(s) ==
    /\ s \notin played
    /\ played' = played \union {s}
    /\ UNCHANGED <<db, cache, lock, pc, req, snap, view, cron>>

Expire(s) ==
    /\ cache[s] # None
    /\ cache' = [cache EXCEPT ![s] = None]
    /\ UNCHANGED <<db, played, lock, pc, req, snap, view, cron>>

(* The flush after an addSale, or after a write of the user that is not    *)
(* modelled here: at some moment, or never.                                *)
FlushSales ==
    /\ cache' = [s \in Sales |-> None]
    /\ UNCHANGED <<db, played, lock, pc, req, snap, view, cron>>

-----------------------------------------------------------------------------
Step(r) ==
    \/ ReadCached(r) \/ FillCache(r) \/ Check(r) \/ ReadDb(r)
    \/ DeleteGiftRow(r) \/ DeleteHistories(r) \/ DeleteAllocations(r)
    \/ LockSale(r) \/ WriteRow(r) \/ DeleteRow(r) \/ WriteChildren(r)
    \/ WriteGift(r) \/ Commit(r) \/ Invalidate(r)

Cron == CronRead \/ CronUpdate \/ CronInvalidate

Next ==
    \/ \E r \in Requests :
         \/ \E p \in Payloads : Start(r, p)
         \/ Step(r)
         \/ Crash(r)
         \/ DeadlockVictim(r)
    \/ \E s \in Sales :
         \/ \E a \in Allocations : AddSale(s, a)
         \/ Kickoff(s)
         \/ Expire(s)
    \/ FlushSales
    \/ Cron

Spec == Init /\ [][Next]_vars

(* Node runs what is runnable, Postgres breaks deadlocks, the cron fires   *)
(* every night.  Nothing obliges a request to arrive, a match to kick off  *)
(* or a key to expire or to be flushed.                                    *)
Fairness ==
    /\ \A r \in Requests : WF_vars(Step(r)) /\ WF_vars(DeadlockVictim(r))
    /\ WF_vars(Cron)

FairSpec == Spec /\ Fairness

(* Every variable keeps its type; what a request has not read is blank.    *)
TypeOK ==
    /\ sale   \in [Sales -> Row]
    /\ gift   \in [Sales -> Recipients \union {None}]
    /\ alloc  \in [Sales -> Allocations \union {NoAllocs}]
    /\ hist   \in [Sales -> Seq(SaleStatus)]
    /\ recips \subseteq Recipients
    /\ played \subseteq Sales
    /\ cache  \in [Sales -> Snapshot \union {None}]
    /\ lock   \in [Resources -> Requests \union {None}]
    /\ pc     \in [Requests -> Steps]
    /\ req    \in [Requests -> Payloads \union {None}]
    /\ snap   \in [Requests -> Snapshot]
    /\ view   \in [Requests -> View]
    /\ cron   \in {"idle", "update", "inval"}
=============================================================================
