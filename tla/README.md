# A verification of psg_inventory

psg_inventory keeps the sales of season-ticket seats: a user lists tickets of a
match, marks them sold, gives them away, or lets a nightly job cancel them once
the match has been played. This directory holds TLA+ models of its API and of
the web pages that write through it, TLC configurations that check them on
small instances, and proofs checked by TLAPS. Paths below are relative to the
repository.

## The system

| part | state it keeps | operations | what makes it correct |
|---|---|---|---|
| **Sale lifecycle** (`src/api/sales`, `src/db/sales`, `src/crons`) | `sales`, `gifts`, `sale_histories`, `sale_pass_allocations` | add, update (sell, unlist, gift, re-gift, edit), delete, un-gift, cancel after the match | status and gift row agree; a gift is not lost to a stale update; ticket totals match; every request ends |
| **Recipients** (`src/db/recipients`, `src/api/recipients`) | `recipients` | find or create by name, list with counts | one row per name; a rolled-back gift leaves none |
| **Redis cache** (`src/redis`) | one entry and one lock per key | single-flight `get`, `invalidate`, `invalidatePattern`, counters | one loader at a time; no entry outlives the row it copies without a cause; no lock is kept for ever |
| **Sales import** (`src/api/sales-import`, `src/db/sales-import`, `web/src/lib/ui/ImportSales*`) | batches of sales; the wizard and its draft | preview, edit, commit, revert | a batch is all or nothing and is imported once; the commit finds what the preview showed; undone is gone |
| **Season passes** (`src/api/season-passes`) | `season_passes` | add, edit, remove | a pass with allocations is not removed; reports follow |
| **Matches** (`src/db/matches`, `src/football-data`, `src/api/admin`) | `matches`, `opponents` | sync, create by hand | one row per match; copies of moved matches are flushed; answers are true |
| **Accounting** (`src/api/accounting`) | cached reports | season report, amortization | a report is one picture of the ledger or will be replaced |
| **Ask** (`src/api/ask`, `src/llm`) | an hourly counter in Redis | consume, answer, give back | the quota is never exceeded, and failures are not charged |
| **Auth and users** (`src/auth`, `src/db/users`) | `users`, refresh tokens in Redis | register, sign in, refresh, log out | who registered is let in; a refresh token is used once |
| **Web frontend** (`web/src`) | open pages, session cookie, showcase | forms, wizard, sign-in | a form does what it says, however old its page; buttons come back |
| **Glue, seeds, scripts** | | | start-up and tooling |

Requests run as asynchronous handlers of one Node process; they share Postgres
(Prisma interactive transactions at READ COMMITTED) and Redis. Nothing else
serialises them. A service reads rows, often through Redis, decides, runs one
transaction, then deletes the cache keys it knows about. The cron and an
operator's script (`scripts/ungift-sale.ts`) write the same rows. The web
application renders pages on a server of its own from what the API answers, and
the pages stay open in tabs while the rows move.

What is hard about it: decisions taken on snapshots (from a one-hour cache, from
a query before the transaction, from a page drawn an hour ago) that the write
does not re-check; transactions that lock the same rows in different orders;
foreign keys that carry half of an invariant and application code the other
half; a database commit followed by a separate cache flush that may fail, and
reports built from several queries around it; a cron and a provider's feed that
rewrite rows under the requests; answers that are lost, late, or reach a
component that is gone. The hazards are listed with their lines in
`PROJECT.json`.

## Modules

```
SaleRules         the status rules of UpdateSaleUsecase (pure)
SaleLedger        what the database promises (abstract)
SaleLifecycle     requests, transactions, row locks, cache entry, cron
  SaleProperties  properties, refinement of SaleLedger, inductive invariant
    MCSale, SaleProofs
SaleForms         the sale pages in several tabs, over a cached copy and the ledger
  MCForms, FormsProofs

ImportRows        what preview and commit say of a row (pure)
SalesImport       wizard, draft, preview, commit, revert, passes
  MCImport, ImportProofs

MatchSync         loads, creations by hand, copies of matches in caches
  MCMatch, MatchProofs
Reports           accounting reports, their caches, their flushes
  MCReports, ReportProofs
CacheAside        what a get promises about one key (abstract)
RedisCache        one key: get, its lock, commit-then-flush writers
  MCCache, CacheProofs

Accounts          registration, sign-in, sessions, cached absence of a user
  MCAccounts
RefreshTokens     rotation and revocation, command by command
  MCTokens
AuthProofs        the proofs about these two
HourQuota         what /ask promises about an hour (abstract)
AskRateLimit      the hourly quota of /ask, retries and refunds
  MCAsk, AskProofs
```

An `MC` module instantiates for TLC, a `Proofs` module holds TLAPS proofs. A
definition named `X_Y` placed before `X` is a mutation of `X`, used to test that
a property can fail; the specification does not use it.

How they meet. `SaleLedger` is the interface between the API and the pages:
`SaleLifecycle`, with its snapshots, locks and failures, is shown to implement
it, and `SaleForms` puts tabs and the API's cached copy in front of it. There a
write is one move of the ledger, which is what the refinement allows it to take
for granted. `SaleRules` is shared by the two.
`RedisCache` takes one key apart, down to the commands of `get`; the modules that
have other things to say (`Reports`, `MatchSync`, `Accounts`) take a `get` in one
or two steps. `CacheAside` is the interface there: `RedisCache` implements it,
and what `Accounts` lets its lookups do, and `Reports` its loads with the list of
passes, is no more than it offers (`LooksUpThroughTheCache`,
`ReadsPassesThroughTheCache`). `SaleLifecycle` sees the cache entry of a sale as a
set of values a read may return.

### SaleLifecycle

A *request* is an update (`UpdateSaleUsecase`), an un-gift
(`UngiftSaleUsecase`) or a delete (`DeleteSaleUsecase`). `pc[r]` is its next
step:

| step | action | code |
|---|---|---|
| `idle` | `Start` | the controller, or the repair script |
| `read`, `fill` | `ReadCached`, `FillCache` | `SalesDb.getOneSale` through `RedisService.get` |
| `read` | `ReadDb` | `loadSale` of un-gift and delete, and the checks after it |
| `check` | `Check` | `UpdateSaleUsecase.execute` up to the transaction |
| `delGift` | `DeleteGiftRow` | `tx.gifts.deleteMany` (un-gift, delete) |
| `delHist`, `delAlloc` | `DeleteHistories`, `DeleteAllocations` | the next two `deleteMany` of delete |
| `lockSale`, `row` | `LockSale`, then `WriteRow` or `DeleteRow` | `tx.sales.update` / `tx.sales.delete`: the wait for the row, then the write and its foreign keys |
| `children` | `WriteChildren` | allocations and `saleHistories.create` |
| `gift` | `WriteGift` | recipient and `gifts.create` / `.update` / `.findUniqueOrThrow` |
| `commit` | `Commit` | the end of `$transaction` |
| `inval` | `Invalidate` | the `redisService.invalidate*` calls |

It ends in `ok`, `refused` (a domain error), `notFound` (404: no such sale),
`noRecipient` (404 as well: `SALE_GIFT_RECIPIENT_NOT_FOUND`, an id that names no
recipient of the user, the sale being there) or `failed` (500). Of the other
codes that map to 404, an unknown pass is answered 400 by an update
(`SaleAllocationsValidator`), and the match of a live sale exists. `sale`,
`gift`, `alloc`, `hist` and `recips` are the *committed* rows; `view[r]` is what
r's transaction makes of the rows of its sale, published by `Commit` and dropped
by a failure. `snap[r]` is the row its decision was taken on. Locks are
exclusive and per sale and table, and per recipient name that is being created.
A sale keeps a match date that does not move; `played` grows as matches kick
off.

`lockSale` and `row` are one SQL statement in two steps. It takes the sale's row
first and then the gift row, through the foreign key's check or the cascade; the
model needs both steps because the deadlocks of un-gift and delete against an
update happen between them.

Abstractions: prices and names; allocations are already valid for the match's
season (`SaleAllocationsValidator` reads tables that are not in this model);
timestamps are present or null; the ordering of the checks of an update, which
decides only the error code. `Crash` may strike at any step of a request: the
process, the connection or Redis fails, or the transaction times out. The flush
of the cron leaves any of the keys behind (`Promise.allSettled` hides a failure),
and that of an `AddSale` comes at some moment or never (`FlushSales`).

### SaleLedger

The moves the committed rows make: create, edit or sell, give, re-give,
un-gift, remove, cancel. It is what `SaleLifecycle` implements
(`ImplementsLedger`), and shows what the snapshot-based checks are worth:
`Give` starts from *any* status but GIFTED, because the transition matrix is
tested on the snapshot, while `GIFTED` is left by un-gift and delete alone,
because a foreign key says so.

### SaleForms

`tab[t]` is the page in a tab (the panel of the list, the detail page, the form
of a new sale) with the status it shows and the side of the kickoff it was drawn
on; `sent[t]` is the request the tab waits for, with what the person chose
(`asked`) next to the status field the form posts (`target`), and what the API
has seen (`seen`). `kept` is the copy of a sale in Redis, an hour old at most and
not flushed by everything that moves the sale.

| action | code |
|---|---|
| `OpenPanel`, `OpenDetail`, `OpenNew`, `Close` | `load` of the pages |
| `Revert`, `MarkSold`, `GiveAway`, `SaveNumbers`, `SaveDetail`, `DeleteSale`, `CreateSale` | the forms, with the conditions under which they are shown |
| `ReadKept`, `ReadRow`, `Store` | `getOneSale`: a hit, a miss, the fill |
| `Draw` | the page, drawn from that answer |
| `Refuse`, `Clear` | `UpdateSaleUsecase.execute` up to the transaction, on that answer |
| `WriteSale`, `RemoveSale`, `AddSale`, `Flush` | the write, on the row of *its* moment, and `invalidateSaleCaches` |
| `Fail` | any other refusal or error, at any step |
| `Elsewhere`, `Forget` | kickoff, cron and un-gift script; their flushes and the TTL |

A page and the API read the copy at different moments, so a form may be refused
although its page is new, and accepted although it is old.

### ImportRows and SalesImport

`ImportRows` has the rules on one row: `ResolveDraftRow` (match by day and
opponent, even allocation over the selected passes, gift and sale dates) for the
preview and `ValidateCommitRow` for the commit, which looks everything up again.
A cell is good or bad; days are numbers.

`SalesImport` has the three places the import lives in. The dialog
(`ImportSalesModal`): pass, file and draft steps, and a preview that may answer
after the dialog was closed or moved on. The draft
(`ImportSalesDraft`): edits of cells and allocations, added and deleted rows,
validate and undo; leaving the step unmounts it, so answers find nobody
(`CommitAnswered`, `RevertAnswer`). The API: `ValidateBatch`, `RefuseBatch`,
`BulkCreate` for the commit, `FindTargets`, `DeleteHistories`, `DeleteSales` for
the revert, whose transaction starts after the batch was read; a step may fail,
and an answer may be lost. Around them a match is added, a pass is counted and
then removed, an imported sale is edited or deleted.

### MatchSync

A load fetches the feed (`Fetch`), runs one transaction per fixture in two steps
(`FindMatch`, then the write), and at the end flushes, whatever happened: the
entries of the matches it updated, the list, and the sales of the users it finds
for the matches whose date moved. A row has its date and its venue (`atHome`,
standing for the competition too): a load writes both and flushes sales and
reports for the first alone, on purpose (matches.db.ts:268), so that copies
there may have `drifted`. Each part of the cleanup may fail alone and is only
reported. A creation by hand looks for its match, creates it and flushes the
list. `cache` says of each key whether it is fresh, drifted, stale, or `lost`
(stale, and the flush that should have removed it has failed). `raced` is a
ghost: two writers of matches were at work at once.

### Reports

A load reads its buckets in any order (`Aggregate`, and `LookUp` of the
extremes), the season's passes through the cache of their list (`ListHit`,
`ListMiss`, `ListFill`: a `get` that goes on when another query has failed the
report), and stores the report (`Done`). Writers commit and then flush
(`WriteSale`, `WritePass`, `Flush`, `FlushLost`); `AddSale` flushes no report, as
in the code; the cron reads whom to flush before it cancels, and a flush of its
own that fails is hidden by `Promise.allSettled` (`CronFlush`). The ghosts: `raced`
marks a load, a list or a report during which something was written or flushed,
`listed` the sales listed since the last flush, `missed` a change that no one
will flush for.

### CacheAside

What is left of `RedisService.get` without commands, locks and polls: a reader
asks, and is answered with what is kept (`Hit`), with the row of one moment after
it asked (`Load`), or not at all (`Fail`); only a row that was read is kept, by
its reader, once, perhaps late (`Keep`), or none (`Close`: the SET or the release
of the lock threw, and so does the get); what is kept may go at any moment
(`Forget`). `row` is an input: the specification constrains what readers get and
what is kept, not what is written. It promises no freshness, which is what
`StaleHasCause` is about.

### RedisCache

One key of `RedisService`. `row` is the version in the database, raised by every
commit; `entry` the cached version, `lock` the reader whose token `lock:<key>`
holds. A reader is a caller of `get`, with one step per Redis command or query:

| step | action | code (`src/redis/redis.service.ts`) |
|---|---|---|
| `idle`, `done` | `Call` | a new `get` |
| `peek` | `Peek` | `peek`, line 68 |
| `acquire` | `Acquire` | `SET NX EX`, line 76 |
| `load`, `store` | `Load`, `Store` | `loader()`, `set` |
| `compare`, `unlock` | `Compare`, `Unlock` | the `finally` block: GET, then DEL |
| `wait` | `Poll`, `GiveUp` | `waitForCacheFill` |
| `alone` | `LoadAlone` | its last line |

A writer commits (`Commit`) and then flushes: `Scan` meets the key or not, `Del`
deletes what it met; `FlushLost` is a failure between. `EntryExpires` and
`LockExpires` are TTLs. `LockExpires` may strike under a live holder, which is
what a loader slower than `LOCK_TTL_SEC` is; `overstayed` remembers it.
`blocked` are the readers that wait since before the lock last fell free: since
`WAIT_BUDGET_MS` is the lock's TTL, `GiveUp` is possible only for the others.
`RedisFails` is a command that throws (a lost reply to `SET NX` leaves the lock),
`Crash` the death of a reader's process.

### Accounts

One e-mail. `entry` is the cached `userByEmail`, which may say that there is no
such user; a lookup is a read and a store, at a sign-in (`ValidateUser`,
`StoreForm`) and for every page with a token (`ValidateToken`, `StoreCall`).
`form[f]` is a registration or sign-in on its way, `Home` the one the home page
makes for its showcase; `call` is a page that loads with the token of a moment.
A lookup that has missed the entry may read the row whatever has been stored
since: it may have waited for a lock meanwhile, or lost one.
A 401 deletes the browser's cookie, whichever it is by then; any other failure
of a page's load leaves it (`CallFails`). A registration whose page was closed
goes on to sign in, as the action runs on the web server. `Seed` is the demo
seed, which creates the account and tells Redis nothing.

### RefreshTokens

A token's life in Redis, command by command: `Login`, `Refresh` (peek), `Delete`,
`FindUser`, `IssueTokenPair`, `Answer`; a token that is not there makes `Scan` and
`Revoke` of its family, and so does `Logout`. `held` are the tokens clients have
received. `rough` is a ghost: the families whose client did not wait for an
answer, lost one, presented an old token, logged out, or let a token expire.

### AskRateLimit

One user of `/ask`. A question is charged to the bucket of the hour it starts in
(`Ask`, `EnforceRateLimit`), the reports are read (`BuildContext`), the model is
called, retried and timed out (`CallGemini`, `Retry`, `Timeout`), and after a
failure the slot goes back to the *same* bucket (`Release`). `keys`, `count` and
`since` are the Redis keys, their values and the hour in which a TTL was set;
`INCREMENT_WITH_TTL` and `DECREMENT` are the two Lua scripts. `Expire` and
`Tick` are time: a TTL of 3600 s set in one hour ends in the next, before the
clock leaves that hour. A question whose increment counts but whose reply is
lost ends in `lost`; one whose slot is not given back ends in `charged`.

`HourQuota` is what a user is promised about the hour it is: one counter that
starts at zero, serves below the limit, refuses at it, may lose a question's
answer, and gives slots back. There are no keys in it, no TTLs and no other
hours, so that `ImplementsQuota` says that none of those shows.

## Properties

| property | claim |
|---|---|
| `GiftIffGifted` | GIFTED if and only if there is a gift row (the schema enforces one direction) |
| `TicketsMatchAllocations` | `nbTickets` is the sum of the allocations |
| `DeletedLeavesNothing` | no orphan rows after a delete |
| `CancelledIsStamped` | a cancelled sale has its cancellation stamp and no sale stamp |
| `UpdatesNeverDeadlock` | cycles of lock waits need a delete or an un-gift |
| `GiftedLeftOnlyByUngift` | no stale update takes a sale out of GIFTED |
| `NotFoundIsHonest` | "no such sale" means the sale, or the gift being edited, is gone |
| `ImplementsLedger` | refinement of `SaleLedger` |
| `EveryRequestEnds`, `PlayedSalesLeavePending` | liveness |
| `StatusMovesAsAsked` | a form moves a sale's status only to what its sender chose, however old the page or the API's copy |
| `SoldOrGivenBeforeKickoff` | the sale of a played match becomes sold or gifted only by a request cleared before the kickoff |
| `RefusedOnlyWhenStale` | where page and copy agree the pages offer what the API accepts, but for "Mark sold" after the match; what it accepts is kept off the row only if the row is not what it saw |
| `PreviewPredictsCommit` | a commit finds the error the draft shows, and no other, while nothing changed |
| `ImportedSalesAreSound` | what is imported is sound, whatever the client edited |
| `PassesInUseStay` | no pass goes from under an imported sale |
| `OneBatchPerDraft` | a draft is imported once, unless an answer was lost |
| `UndoneIsGone` | "Import reverted" means that nothing of the batch is left |
| `ButtonsComeBack` | liveness of the wizard's spinners |
| `OneRowPerDay` | revisions of a kickoff double no match |
| `StaleCopyHasCause` | a stale copy of a match has somebody who will flush it, or a failed flush; copies of an old venue are in sales and reports only |
| `AnswersAreTrue` | a load or a creation that says it succeeded has its matches in the table |
| `OldReportHasCause` | an old report was raced, has a flush to come, or lacks new listings only |
| `FailsOnlyWhenRaced` | a report fails over a missing sale only if one was written meanwhile |
| `AbsenceIsForgotten` | once a new user's absence is neither cached nor about to be, it never is again, and nobody else is told of it |
| `LooksUpThroughTheCache` | refinement of `CacheAside` by the lookups |
| `WhoRegisteredIsKnown` | liveness: a new user is let in from some moment on |
| `FiguresComeUp` | liveness: the showcase recovers from a blank |
| `OneTokenPerFamily` | a well-behaved client's family has one usable token |
| `ImplementsCacheAside` | refinement of `CacheAside`: a get answers with what is kept or with a row of its time, and only what its caller loaded is kept |
| `StaleHasCause` | a stale entry has a pending or lost flush, or an overtaken loader, behind it |
| `OneFiller` | while no loader outlives its lock, one caller at a time fills the key |
| `EveryGetEnds` | liveness of `get`, whoever dies with the lock |
| `HourlyCap` | an hour serves at most the limit |
| `ImplementsQuota` | refinement of `HourQuota` |
| `ChargesAreFair` | a counter, also of an hour that is over, is never above the questions charged and not refunded, nor below zero |
| `KeysExpire` | no counter is left without a TTL, a late refund included |
| `EveryQuestionEnds` | liveness of a question, the provider hanging or not |

Some have exemptions, which are the point of them: each names a cause, and the
claim is that there is no other. `RefusedOnlyWhenStale` exempts what the hour of
the cache allows: page and copy may each be the older one. `StaleCopyHasCause`
exempts the sales keys when two writers raced, because the date that decides
whether to flush is the one a transaction *found*, not the one it replaced;
without the exemption TLC finds two loads of which the second leaves a sale's
copy stale with nobody to flush it. `OldReportHasCause` exempts pending sales
listed since the last flush, because `addSale` flushes no report, and the cron's
cancellations when its `findMany` had seen no sale of the user or its flush
failed (`missed`). `OneRowPerDay` exempts matches created by hand, which are
compared by exact date.

`HourlyCap` is stated for the *current* hour. For an hour that is over it would
not hold: an increment delayed past the end of its hour may find its key expired
and start a new one.

### Runs

| run | instance | distinct states | shows |
|---|---|---|---|
| `sale_requests` | 2 requests, 1 sale, 2 passes, all 19 payloads | 337 000 | types, ticket totals, stamps, "no such sale" |
| `sale_races` | 2 requests, 2 sales, 2 names | 260 000 | status and gift rows with shared recipients, lock order, orphan rows, gifts that survive, the ledger |
| `sale_liveness` | 2 requests, 1 sale, fair | 34 000 | answers, and the cron |
| `sale_forms` | 2 tabs, 1 sale | 2 058 000 | forms over old pages and old copies, the kickoff |
| `import_batches` | 2 passes of 2 seasons, 3 fixtures, 2 files, 2 commits, fair | 144 000 | preview against commit, batches, revert, spinners |
| `match_sync` | 2 loads, 1 creation, 3 rows, 1 user | 620 000 | duplicate rows, stale copies, answers |
| `reports` | 1 report of 3 buckets, 1 sale, 1 load, 1 writer | 2 293 000 | causes of old and failed reports |
| `accounts` | 2 forms and the home page, 1 failure, fair | 93 000 | lookups, cached absence, showcase |
| `refresh_tokens` | 3 requests, 2 families, 4 tokens | 1 286 000 | rotation |
| `cache_reads` | 2 readers, 2 writers, fair | 217 000 | what a get answers and keeps, causes of stale entries, one filler, every get ends |
| `ask_questions` | 3 questions, limit 1, 3 hours, 1 retry, fair | 546 000 | an hour as a counter, cap, charges, TTLs, every question ends |
| `stale_gift` | 2 requests, 1 sale | | a counterexample |

Bounds of the sale runs. Each request identity is used once, so a run covers
every interleaving of that many requests with any number of cron nights. Two
requests meet in every pair of intents and cover a cached snapshot that a write
and the cron have left behind; row locks and cache entries are per sale, so one
sale shows all conflicts but those over a recipient, for which `sale_races` has
two sales. One ticket per pass and two passes already tell a total from a single
allocation. Requests are interchangeable, hence the symmetry (not under
fairness). In `sale_forms` a tab stays on its page while a request of it is in
flight: what it could do elsewhere, the other tab does. Sales do not touch each
other there, but for the flush, which forgets them all.

Bounds of the import: `MaxDrafts = 1` answered preview, `MaxEdits = 1` edit per
draft, `MaxRows = 2`, and two batches, which is what it takes to import a draft
twice. One of the fixtures is not in the database at first and falls on a day
that has a match, so that a commit may meet two matches where the preview saw
one. `Removable` and `Touched` limit which pass is removed and which sales are
edited; one pass is removed in the instance, since removal is per pass.

Bounds of the sync: two of the three writers start (`MaxRequests`), the feed
changes once, `MaxDate = 2` is a day with two kickoff times and the next day,
and sales are listed for the first row. `Stored` starts with no match and with
the first fixture's. Loads are interchangeable.

Bounds of the reports: one sale with two profits, one load at a time, one
writer and one write of the passes (`MaxPassWrites`). `MCWanted` takes three of
the season report's buckets, between which a sale moves; the amortization report
loads and is flushed in the same way, with the bucket `perMatch`.

Bounds of the accounts: two forms, one sign-in of the home page at a time, one
failure. Forms may be used again and again. Bounds of the tokens: families and
tokens are used up, requests are not; four tokens are a sign-in and two
refreshes of one family beside the sign-in of another.

For the cache, a reader may call any number of times, so two of them are
enough for the release race: one overstays its lock, the other takes it, loses
it to the first one's DEL, and the first comes back. Two writers let the flush
of one meet the entry that holds the commit of the other; a writer writes once,
which bounds `row`. For the quota, three questions with limit 1 reach a refusal,
a refund and another refusal; three hours let a key expire, be recreated by a
late increment, be given back to and expire again. `MaxHour` and "each question
is asked once" are the bounds.

Deadlock is not checked where a bound lets the system stop: `ask_questions`,
`match_sync` and `refresh_tokens`.

Fairness. In `SaleLifecycle`, `WF(Step(r))`: Node runs what is runnable and
Postgres completes statements. `WF(DeadlockVictim(r))`: Postgres' deadlock
detector ends a cycle after `deadlock_timeout`. `WF(Cron)`: the job is scheduled
every night (`crons/cancel-sales/cancel-sales.service.ts:9`). Nothing is assumed
of arrivals, kickoffs, expiries or crashes. In `RedisCache`, `WF(Step(r))` is the
same assumption (queries and commands return or throw) and `WF(LockExpires)` is
Redis' TTL: a waiter's budget is counted in it. In `AskRateLimit`, `Step(q)`
leaves out `CallGemini`: nothing is assumed of the provider, and it is the timer
(`GEMINI_TIMEOUT_MS`) that ends a question. In `SalesImport`, a preview and each
batch's requests are answered or fail (`PreviewNext`, `RequestNext(b)`); users
need not do anything. In `Accounts`, a form and a page that are on the API go on,
the cached entry and the showcase expire (an hour, a minute), and the home page
goes on having visitors, without whom nobody would fetch figures.

### Where the repository says otherwise

*"GIFTED is reachable only from PENDING"* (`update-sale.usecase.ts:257`).
`stale_gift`: the transition is tested on the snapshot, and the gift lands on a
sale the cron has cancelled since.

Seen in the same models, without a run of their own:

- *"soldAt / cancelledAt mirror the current status"*
  (`update-sale.usecase.db.ts:124`): an update that read PENDING commits after
  the cron; the sale is PENDING with a `cancelledAt`. The PSG-38 design (item 7)
  accepts the analogous `soldAt` case.
- *"the row prisma writes on every mutation"*, *"source of truth for the full
  transition trail"* (migration `20260605120000_sale_lifecycle_timestamps`):
  `cancelMany` writes no history.
- *"History entry captures the pre-write state"*
  (`ungift-sale.usecase.db.ts:63`): the second of two un-gifts records GIFTED
  although it replaced PENDING.
- *"worst case is one redundant cache fill"* (`redis.service.ts:62`): the token
  guards the release and not the fill, so a slow holder stores an older version
  over a newer one.
- *"give the slot back on every complete() failure, no exceptions"*
  (`ask-question.usecase.ts:122`): refused questions keep their increments,
  which eat the slot that is given back.
- *"an affordance that always fails is worse than none"*
  (`web/src/routes/(app)/sales/+page.svelte:522`): "Mark sold" is offered for a
  sale whose match has been played, which the API refuses; it is the exemption
  of `RefusedOnlyWhenStale`.
- A preview that answers after its dialog was closed still sets the step, so the
  dialog opens again on a draft.

And, as behaviours that no text forbids: an update checked before kickoff is
written after it (`Kickoff` between `Check` and `Commit`); waiters that give up
load beside a new holder (`LoadAlone`); a counter given back to 0 has its TTL
set again (`INCREMENT_WITH_TTL`), which lengthens no hour; a load that is tried
again after a failed flush finds the date as announced and flushes no sales; a
creation that is tried again, or that loses the race for an opponent, is
answered as if it had succeeded and flushes nothing; a P2002 of one fixture ends
the load before the rest of the feed; a postponed match gets a new row, and the
sales of the old one are cancelled; a lookup that began before a registration
may store that there is no such user after it, and a page that loads then loses
its valid cookie; two tabs overwrite each other's prices; a form that creates a
sale and is sent again after a lost answer creates two.

## Proofs

`SaleProofs` proves, for every set of requests, sales, recipients, passes and
payloads that satisfies `ConstantsAssumption` (`None` is no request and no
recipient, `MaxTickets` is a natural number, payloads are well formed):

| theorem | statement |
|---|---|
| `TypeCorrect` | `Spec => []TypeOK` |
| `Inductive` | `Spec => []IInv` |
| `GiftedHasGift` | `Spec => []GiftIffGifted` |
| `TicketsAreAllocated` | `Spec => []TicketsMatchAllocations` |
| `DeleteIsComplete` | `Spec => []DeletedLeavesNothing` |
| `GiftedIsTerminal` | `Spec => GiftedLeftOnlyByUngift` |
| `CancelledKeepsStamp` | `Spec => []CancelledIsStamped` |
| `LifecycleImplementsLedger` | `Spec => ImplementsLedger` |
| `UpdatesAloneNeverDeadlock` | `Spec => []UpdatesNeverDeadlock` |
| `NotFoundIsTrue` | `Spec => NotFoundIsHonest` |

`GiftIffGifted` alone is not inductive: a commit publishes a view that was built
several steps before. `IInv` therefore says what a request may rely on between
the statement that locks the sale row and COMMIT:

- `RequestInv`: its payload passed the checks on its snapshot (entering GIFTED
  has a recipient);
- `LockInv`: it holds the row lock of a live sale; an update touches the gift
  row only after that;
- `ViewInv`: its view agrees with the committed rows it started from, and is
  consistent when it is about to be committed.

`QuietStep` carries the argument for all steps that publish nothing: the part of
every other request survives because locks are not stolen (`OthersKeepLocks`)
and a holder's rows do not move (`HolderFrame`). `CommitIInv` is the only step
that publishes a view, and it may since no other holder is on that sale.
`GiftedIsTerminal` uses that the view of an update at its commit still has the
gift row that the committed sale had.

Four more parts are inductive given `IInv`, each behind one theorem:

- `StampInv`: the row a holder will commit is stamped as the committed ones are
  (`CancelledKeepsStamp`);
- `MoveInv`: what that row may differ in from the committed one, which by then
  may be another than the one that was read. With it each step is a move of
  `SaleLedger` or a stutter, one lemma per move (`LifecycleImplementsLedger`);
- `LockOrder`: at which step a holder may have which lock. An update that waits
  for an update which waits itself can wait for nothing but its sale row, so that
  the second is past that row and waits for something else; but it waits for a
  third, which waits too, so it waits for a sale row. Hence no set of updates, of
  whatever size, waits for itself (`UpdatesAloneNeverDeadlock`);
- `SeenInv`: a sale that a request or the cache has seen dead is gone for good,
  and a request is made only of a sale that exists (`NotFoundIsTrue`).

`FormsProofs` assumes that `None` is neither a page nor a request
(`FormsAssumption`):

| theorem | statement |
|---|---|
| `FormsInvariance` | `Spec => []FormsInv` |
| `FormsTypes` | `Spec => []TypeOK` |
| `RefusedOnlyWhenStaleThm` | `Spec => []RefusedOnlyWhenStale` |
| `StatusMovesAsAskedThm` | `Spec => StatusMovesAsAsked` |
| `SoldOrGivenBeforeKickoffThm` | `Spec => SoldOrGivenBeforeKickoff` |

`FormsInv` ties a request in flight to the page it was sent from (`Sound`): what
it asks for is what that page offers for the status it shows. A refusal then
means that the copy differs from the page, or that the match was played since.
Of a request that was cleared it also says what was checked, and on which copy
(`Cleared`); a write that is kept off the row has therefore met another row than
was seen. `Moves` lists who changes a status and where to: a request to its own
target, which is what was asked, everyone else never to SOLD or GIFTED. With
`Cleared` this gives `SoldOrGivenBeforeKickoff`: SOLD is guarded by the clock,
and GIFTED too unless the copy shows a gift, in which case nothing but a gift is
there to be written.

`AuthProofs` has the theorems of two modules. For `RefreshTokens` it assumes that
the number of tokens is a natural number and that `None` is no family; for
`Accounts`, that `Home` is no form and the page that loads is neither:

| theorem | statement |
|---|---|
| `TokensInvariance` | `Spec => []TokensInv` |
| `TokenTypes` | `Spec => []TypeOK` |
| `OneTokenPerFamilyThm` | `Spec => []OneTokenPerFamily` |
| `AccountsTypes` | `AccountsSpec => []AccountsTypeOK` |
| `AbsenceDiesOut` | `AccountsSpec => AbsenceIsForgotten` |
| `LookupsAreGets` | `AccountsSpec => LooksUpThroughTheCache` |

The count of `OneTokenPerFamily` follows from who may issue: while a family is
not rough at most one request works for it, and the step of that request says
which token is live, or that none is (`FamilyInv`). A request that revokes is
always of a rough family, so it takes nothing from the others.

An absence can come from two places (`Source`): the entry, and a lookup that is
about to store one. With the account in the table and both gone, every lookup
that starts finds the entry of a user or the row, and `AbsenceDiesOut` needs the
types alone. It is the safety half of `WhoRegisteredIsKnown`; that both *do* go is
fairness. `LookupsAreGets` follows a step of a lookup to the step of a get that it
is: since a lookup's answer is only in `read` while it knows one, forms and pages
that end leave their reader (`Leave`).

`CacheProofs` assumes only that `None` is no reader and no value:

| theorem | statement |
|---|---|
| `CacheTypes` | `Spec => []TypeOK` |
| `CacheInductive` | `Spec => []CacheInv` |
| `StaleEntriesHaveCause` | `Spec => []StaleHasCause` |
| `FillerIsAlone` | `Spec => []OneFiller` |
| `GetKeepsItsPromise` | `Spec => ImplementsCacheAside` |

`OneFiller` counts readers; what is inductive is who owns the lock: unless a
lock has expired under its holder, whoever is between SET NX and the end of the
release holds it. `StaleHasCause` needs that loaded, cached and written versions
are never ahead of the row, so that the write that overtakes an entry is one
whose flush is still to come. For `GetKeepsItsPromise` the invariant adds that a
reader which still asks has nothing in its hands: a get that throws then fails
with nothing, and one that has loaded stores that and nothing else.

`AskProofs` assumes a finite set of questions, a positive limit, and natural
numbers of hours and retries (`QuotaAssumption`):

| theorem | statement |
|---|---|
| `QuotaTypes` | `Spec => []TypeOK` |
| `QuotaInductive` | `Spec => []QuotaInv` |
| `HourIsCapped` | `Spec => []HourlyCap` |
| `ChargesAreOwn` | `Spec => []ChargesAreFair` |
| `KeysAlwaysExpire` | `Spec => []KeysExpire` |
| `QuotaImplemented` | `Spec => ImplementsQuota` |

The cap follows because the counter of the *current* hour is exact: its key
cannot have expired (`KeyInv`), so its value is the number of questions charged
and not given back, and whoever is served has met a value within the limit. For
earlier hours it is only a lower bound, which is what `ChargesAreFair` is.

That exactness is also what makes the current hour a plain counter
(`QuotaImplemented`): a step of a question of another hour, the expiry of a key
and a late refund leave the three numbers of `HourQuota` alone, a slot that is
given back has been counted (so the clamp of `DECREMENT` does nothing), and a
new hour starts with no question and no key. The proof counts sets of questions;
its lemmas say how such a count moves when one question moves on.

`ReportProofs` assumes a finite set of profits (so that a bucket has a least and
a most profitable sale), a natural number of writes of the passes, and reports
made of buckets there are (`ReportsAssumption`), and a `None` that is no value
(`NoneAssumption`):

| theorem | statement |
|---|---|
| `ReportsInductive` | `Spec => []ReportsInv` |
| `ReportTypes` | `Spec => []TypeOK` |
| `OldReportsHaveCause` | `Spec => []OldReportHasCause` |
| `FailuresAreRaces` | `Spec => []FailsOnlyWhenRaced` |
| `PassesAreGets` | `Spec => ReadsPassesThroughTheCache` |

A report is stored long after its first bucket was read, so what is inductive is
said of the load (`LoadInv`): nothing having raced with it, what it has read so
far is what there is, except that a listing, which flushes nothing, may be
missing from the bucket of pending sales. Passes are read through a list that is
a cache of its own: it is right while no flush of it is due (`ListInv`), and the
order of `WritePass`' flushes, the list before the reports, makes this enough.
`FailsOnlyWhenRaced` is the last conjunct of `LoadInv`: an extreme that was in
the bucket when it was read is there when it is looked up. `PassesAreGets` maps a
load to a reader of `CacheAside` that has asked, has read, or is done with the
passes; every other step of the reports at most forgets the list. No run checks
it: TLC finds it to hold on the instance of `reports`, but takes over three times
as long for it.

`ImportProofs` assumes finite sets of passes and fixtures, at least one ticket as
bound of a row, files of rows, and edits that put a value of the cell's type into
a cell (`RowsAssumption`, `ImportAssumption`):

| theorem | statement |
|---|---|
| `ImportInductive` | `Spec => []ImportInv` |
| `ImportTypes` | `Spec => []TypeOK` |
| `PreviewPredicts` | `Spec => []PreviewPredictsCommit` |
| `ImportedAreSound` | `Spec => []ImportedSalesAreSound` |
| `PassesStay` | `Spec => []PassesInUseStay` |
| `OneBatch` | `Spec => []OneBatchPerDraft` |
| `UndoneGone` | `Spec => []UndoneIsGone` |

The run checks them under `FairSpec`, which is `Spec` with fairness added.

- *Preview against commit.* The two look a match up in different ways and test
  their rules in different orders. `CommitAgrees` is the lemma on `ImportRows`
  that they find the same error in a row that was resolved and not edited, and
  `DraftInv` says that the rows of a draft without edits are such rows. The
  commit looks at all home matches, the preview at one list of them; hence "while
  nothing changed".
- *What is imported.* The client may send anything. `ValidRowIsSound` shows that
  a row with no error makes a sound sale, which a validated batch keeps until it
  is written (`PayloadInv`). The passes of a sale are there because its
  allocations refer to them: a foreign key refuses the sale or the removal,
  whichever is second, wherever the count of `RemovePass` was taken.
- *One batch per draft.* A draft sends a batch only when it neither waits for an
  answer nor shows one. So of two batches of a draft one is always *spent*
  (`SenderInv`): refused, undone, or its answer lost. That needs to know what the
  mounted draft waits for (`MountedInv`), while a batch whose draft was left is
  never joined by another of it.

`MatchProofs` assumes natural numbers as bounds, rows without duplicates at the
start, and of the provider that its calendar has a team at most once on a day
(`OncePerDay`, in `SyncAssumption`; no revision of the feed that the model makes
leaves this):

| theorem | statement |
|---|---|
| `SyncInductive` | `Spec => []SyncInv` |
| `SyncTypes` | `Spec => []TypeOK` |
| `OneRow` | `Spec => []OneRowPerDay` |
| `StaleCopies` | `Spec => []StaleCopyHasCause` |
| `TrueAnswers` | `Spec => []AnswersAreTrue` |

Finding a match and writing it are two steps of a load. Unless two writers have
raced only one is at work (`Alone`), so what was found is still so when it is
written (`FoundInv`): the row found has the date that was read, and where none
was found there is none. `ProgressInv` carries the fixtures a load is past,
recorded as announced, to its answer; here `OncePerDay` is needed, since a second
fixture of the day would find, and move, the row of the first. `CreationInv` does
the same for the shortcut of a creation that takes a missing opponent for a
missing match. Stale copies need none of this: whoever makes a copy stale has
put its key among what it will flush (`ToFlush`), except the sales of a match
that was read before another writer moved it. That nothing but sales and reports
drifts is `DriftStep`: the list and the entries of a match are flushed whatever
has changed.

### Only model-checked

- Liveness (`EveryRequestEnds`, `PlayedSalesLeavePending`, `ButtonsComeBack`,
  `EveryGetEnds`, `EveryQuestionEnds`, `WhoRegisteredIsKnown`, `FiguresComeUp`):
  under fairness it is out of the prover's reach.
- Sums of allocations are proved to be kept and compared, not computed: an
  induction over data would be needed for what a fold makes of every function.
  In `ImportRows`, where sums must agree with single allocations, they are
  cardinalities, about which the library's theorems on finite sets speak.

### What the proofs changed

The date of a gift in `SaleOf` (`ImportRows`) was a `CASE` with overlapping arms,
whose value TLA+ leaves open (TLC takes the first); it is an `IF` now. The first
error of a row is a chain (`OrElse`) instead of a search in a sequence, which is
also how the code has it. Types of the import's cells and of the reports' buckets
became definitions of their own.

`FindOneByEmail` read the row only while nothing was cached. As a refinement of
`CacheAside` this was suspicious, and wrong: a lookup that missed and then waited
for another's lock reads the row although the entry is there by then. The guard
is gone, and the liveness of `Accounts` holds without it. The same refinement of
`Reports` found the same guard in `ListMiss`, and a second fault: a failed report
stopped its `get` of the passes, which in the code goes on and may still store
what it has read. Both are as in the code now. Of the quota,
`ChargesAreFair` used to be an upper bound, with "never negative" hidden in the
types: a clamp that is dropped is now what it breaks.

In `SaleForms` the API used to decide on the row, which made the ledger's moves
hold by construction and `RefusedOnlyWhenStale` too strong: it decides on a copy.
With the copy in the model, a gift that is edited on a copy older than its undoing
shows why `updateGift` must not create a missing gift row.

## Plan

Modelled: every component that writes. Proved: every invariant, every action
property and every refinement that a run checks. What could follow:

1. **MatchSync**: its copies in caches as gets of `CacheAside`. They are classed
   as fresh, stale or lost there, and would have to be values.
2. **RefreshTokens**: an abstract specification (a family with one token, or
   none), of which `OneTokenPerFamily` is the part that matters.
3. The hazards without a property: the counts of the recipients' list, which are
   not modelled, and the races the code has no defence against (two loads of
   matches, two refreshes of one token, a lock that is released late), which are
   modelled and exempted.

## Not modelled

- Prices, profits and the averages of reports: numbers without control. Of the
  season arithmetic (`shared/utils/season.utils.ts`) one thing is worth knowing:
  the *inclusive* window of a season ends on July 31 at 00:00, so a match later
  on that day is in none.
- The list of sales, its filters and its cache, and the cached listing of
  recipients with gift counts: they are read by pages only. `deleteSale` and
  `updateExistingGift` decide on a snapshot whether to flush the latter, so a
  count may be old for its TTL.
- Password hashing, the token's signature, guards and rate limits of the
  framework; prompts and figures of `/ask`; start-up, configuration and health
  checks; a Redis that restarts and forgets keys; seeds, but for the demo
  account that appears without a flush.
- Pages that only render (season, recipients, passes, ask), themes and toasts.
  The redirect after an edit forgets the season filter (`?/update` replaces the
  query).
- `sale_histories.profit` is an integer column fed from a float: what Prisma
  does with a fraction cannot be read from this repository. Whether its upsert
  of an opponent locks or fails in a race is likewise open, and `MatchSync`
  allows both.
