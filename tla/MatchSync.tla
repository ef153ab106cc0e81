----------------------------- MODULE MatchSync ------------------------------
(***************************************************************************)
(* Matches: the sync with football-data, the creation by hand, and the     *)
(* cache entries that copy a match.  A sync runs one transaction per       *)
(* fixture of the feed it fetched, and whatever happened, a cleanup of the *)
(* caches at its end.  Meanwhile the provider revises its feed, users list *)
(* sales and read through the caches.                                      *)
(*                                                                         *)
(* A date is a day and one of two kickoff times of it.  A get is one step: *)
(* the loads that a flush overtakes are in RedisCache.  An X_Y before an X *)
(* is a mutation of X that tests the properties.                           *)
(***************************************************************************)
EXTENDS Integers, Sequences, FiniteSets

CONSTANTS
    Loads,     \* requests to load the matches
    Creations, \* requests to create a match
    Calendar,  \* fixtures the provider announces at first, in their order
    Users,     \* users with sales
    Stored,    \* rows that may be there from the start
    ByHand,    \* bound: matches that are created by hand
    MaxRows,   \* bound: match rows, numbered from 1
    Sellable,  \* bound: rows of which users have sales
    MaxDate,   \* bound: dates
    MaxRevisions, \* bound: changes of the feed
    MaxRequests,  \* bound: loads and creations that start
    NoRow

Dates  == 0 .. MaxDate
Day(d) == d \div 2

Ids       == 1 .. MaxRows
Fixtures  == 1 .. Len(Calendar)
Opponents == {Calendar[f].opponent : f \in Fixtures}
Entries   == [opponent : Opponents, date : Dates,
              atHome : BOOLEAN,     \* stands for atHome and competition
              played : BOOLEAN,     \* whether it has a result
              known : BOOLEAN]      \* whether its competition is one of ours

Match     == [opponent : Opponents, date : Dates, atHome : BOOLEAN,
              played : BOOLEAN]

SameDay(m, n) == m.opponent = n.opponent /\ Day(m.date) = Day(n.date)

(* A team is met once on a day, in the competitions that are looked at.    *)
OncePerDay(entries) ==
    \A f, g \in Fixtures :
      entries[f].known /\ entries[g].known /\ SameDay(entries[f], entries[g])
      => f = g

ASSUME SyncAssumption ==
    /\ Calendar \in Seq(Entries) /\ Fixtures # {} /\ OncePerDay(Calendar)
    /\ ByHand \subseteq Entries
    /\ \A rows \in Stored :
         /\ rows \in Seq(Match) /\ Len(rows) <= MaxRows
         /\ \A i, j \in DOMAIN rows :
              SameDay(rows[i], rows[j]) => i = j
    /\ MaxDate \in Nat /\ MaxRevisions \in Nat /\ MaxRequests \in Nat
    /\ Loads \intersect Creations = {}
    /\ MaxRows \in Nat /\ Sellable \subseteq Ids
    /\ NoRow \notin Ids

VARIABLES
    feed,      \* what the provider would answer now
    revisions, \* how often it changed
    matches,   \* the rows, by id
    opponents, \* names in the opponents table
    listed,    \* sales, as pairs of a user and a match
    cache,     \* key -> "none", "fresh", "stale", "lost" when it is stale and
               \* its flush has failed, or "drifted" when all that is old in
               \* it is atHome
    pc,        \* step of a load or a creation
    load,      \* variables of a load, see LoadState
    creation,  \* what a creation creates, and whether it saw the opponent
    raced      \* two writers of matches were at work at once

vars == <<feed, revisions, matches, opponents, listed, cache, pc, load,
          creation, raced>>

provider == <<feed, revisions>>
tables   == <<matches, opponents, listed>>

List      == <<"matches", "all">>
Entry(id) == <<"match", id>>
Sales(u)  == <<"sales", u>>    \* with the accounting keys of the user
Owners    == <<"owners", "?">> \* not a key: the query for the users to flush
Keys == {List} \union {Entry(id) : id \in Ids} \union {Sales(u) : u \in Users}

Working(p) == pc[p] \in {"row", "write", "clean", "create", "flush"}

LoadState == [feed : [Fixtures -> Entries], \* what it fetched
              at : 1 .. Len(Calendar) + 1,  \* the fixture it is at
              found : Ids \union {NoRow},   \* the row it found for it
              was : Dates,                  \* the date of that row then
              updated : SUBSET Ids,         \* updatedMatchIds
              moved : SUBSET Ids,           \* dateChangedMatchIds
              failing : BOOLEAN,            \* syncFailed
              todo : SUBSET (Keys \union {Owners})] \* cleanup still to do

Fresh == [feed |-> Calendar, at |-> 1, found |-> NoRow, was |-> 0,
          updated |-> {}, moved |-> {}, failing |-> FALSE, todo |-> {}]

Init ==
    /\ feed      = Calendar
    /\ revisions = 0
    /\ matches   \in Stored
    /\ opponents = {matches[id].opponent : id \in DOMAIN matches}
    /\ listed    = {}
    /\ cache     = [k \in Keys |-> "none"]
    /\ pc        = [p \in Loads \union Creations |-> "idle"]
    /\ load      = [l \in Loads |-> Fresh]
    /\ creation  = [c \in Creations |-> [saw |-> FALSE, want |-> Calendar[1]]]
    /\ raced     = FALSE

Goto(p, s) == pc' = [pc EXCEPT ![p] = s]

(* A request that starts, and one that is over with its variables.         *)
Starts(p) ==
    /\ pc[p] = "idle"
    /\ Cardinality({q \in DOMAIN pc : pc[q] # "idle"}) < MaxRequests
    /\ raced' = (raced \/ \E q \in DOMAIN pc : Working(q))
Forget(l) == load' = [load EXCEPT ![l] = Fresh]

(* What a write makes of the entries that copy what it changed.            *)
Become(keys, from, to) ==
    cache' = [k \in Keys |-> IF k \in keys /\ cache[k] \in from
                             THEN to ELSE cache[k]]
Outdate(keys) == Become(keys, {"fresh", "drifted"}, "stale")
Lose(keys)    == Become(keys, {"stale"}, "lost")
Empty(k)      == cache' = [cache EXCEPT ![k] = "none"]

OwnersOf(ids) == {u \in Users : \E id \in ids : <<u, id>> \in listed}
Copies(id)    == {Sales(u) : u \in OwnersOf({id})}

-----------------------------------------------------------------------------
(* A load.                                                                 *)

(* getTeamMatches                                                          *)
Fetch(l) ==
    /\ Starts(l)
    /\ Goto(l, "row")
    /\ load' = [load EXCEPT ![l].feed = feed]
    /\ UNCHANGED <<provider, tables, cache, creation>>

Current(l)   == load[l].feed[load[l].at]
AtFixture(l) == pc[l] = "row" /\ load[l].at \in Fixtures

SkipUnknown_Returns(l) ==
    /\ AtFixture(l) /\ ~Current(l).known
    /\ load' = [load EXCEPT ![l].at = Len(Calendar) + 1]
    /\ UNCHANGED <<provider, tables, cache, pc, creation, raced>>
SkipUnknown(l) ==
    /\ AtFixture(l) /\ ~Current(l).known
    /\ load' = [load EXCEPT ![l].at = @ + 1]
    /\ UNCHANGED <<provider, tables, cache, pc, creation, raced>>

(* The first statements of the transaction.  An upsert of a new opponent   *)
(* waits for a transaction that has created it.                            *)
CreatesOpponent(l) == pc[l] = "write" /\ Current(l).opponent \notin opponents

SameMatch_ExactDate(id, entry) ==
    matches[id].opponent = entry.opponent /\ matches[id].date = entry.date
SameMatch(id, entry) == SameDay(matches[id], entry)

FindMatch(l) ==
    LET same == {id \in DOMAIN matches : SameMatch(id, Current(l))}
    IN  /\ AtFixture(l) /\ Current(l).known
        /\ \A k \in Loads \ {l} :
             CreatesOpponent(k) => Current(k).opponent # Current(l).opponent
        /\ \/ /\ same = {}
              /\ load' = [load EXCEPT ![l].found = NoRow]
           \/ \E id \in same :
                load' = [load EXCEPT ![l].found = id,
                                     ![l].was = matches[id].date]
        /\ Goto(l, "write")
        /\ UNCHANGED <<provider, tables, cache, creation, raced>>

(* unique (date, opponent)                                                 *)
Taken(entry, id) ==
    \E j \in DOMAIN matches \ {id} :
      matches[j].opponent = entry.opponent /\ matches[j].date = entry.date

Insert(entry) ==
    /\ Len(matches) < MaxRows
    /\ matches' = Append(matches, [opponent |-> entry.opponent,
                                   date |-> entry.date,
                                   atHome |-> entry.atHome,
                                   played |-> entry.played])

(* A result is not taken back; an entry with none keeps the one there is.  *)
Update(id, entry) ==
    matches' = [matches EXCEPT ![id] =
                  [opponent |-> matches[id].opponent, date |-> entry.date,
                   atHome |-> entry.atHome,
                   played |-> matches[id].played \/ entry.played]]

(* It makes the copies of the match stale, those in sales and reports only *)
(* by another date: "competition/atHome edits don't flush sale caches"     *)
(* (matches.db.ts:268), so that these drift.                               *)
UpdateCopies(id, entry) ==
    LET moves  == matches[id].date # entry.date
        drifts == matches[id].atHome # entry.atHome
        old(k) == k \in {List, Entry(id)} \/ (moves /\ k \in Copies(id))
    IN  cache' = [k \in Keys |->
                    IF old(k) /\ cache[k] \in {"fresh", "drifted"}
                    THEN "stale"
                    ELSE IF drifts /\ k \in Copies(id) /\ cache[k] = "fresh"
                    THEN "drifted" ELSE cache[k]]

CommitMatch(l) ==
    LET id    == load[l].found
        entry == Current(l)
    IN  /\ ~Taken(entry, id)
        /\ opponents' = opponents \union {entry.opponent}
        /\ \/ id = NoRow /\ Insert(entry) /\ Outdate({List})
           \/ id # NoRow /\ Update(id, entry) /\ UpdateCopies(id, entry)
        /\ UNCHANGED <<provider, listed>>

(* What the callback pushes, before the transaction commits.               *)
Pushed_Created(l) ==
    [load[l] EXCEPT !.updated = @ \union {load[l].found}]
Pushed(l) ==
    LET id == load[l].found
    IN  IF id = NoRow THEN load[l]
        ELSE [load[l] EXCEPT
                !.updated = @ \union {id},
                !.moved = IF load[l].was # Current(l).date
                          THEN @ \union {id} ELSE @]

WriteMatch(l) ==
    /\ pc[l] = "write"
    /\ CommitMatch(l)
    /\ load' = [load EXCEPT ![l] =
                  [Pushed(l) EXCEPT !.at = @ + 1, !.found = NoRow, !.was = 0]]
    /\ Goto(l, "row")
    /\ UNCHANGED <<creation, raced>>

(* runCleanup: its steps run at once, and all of them settle.              *)
CleanupOf(state) ==
    {List} \union {Entry(id) : id \in state.updated}
           \union (IF state.moved = {} THEN {} ELSE {Owners})

Cleanup(l, state) ==
    /\ Goto(l, "clean")
    /\ load' = [load EXCEPT ![l] = [state EXCEPT !.todo = CleanupOf(state)]]
    /\ UNCHANGED <<creation, raced>>

SyncEnds(l) ==
    /\ pc[l] = "row" /\ load[l].at \notin Fixtures
    /\ Cleanup(l, load[l])
    /\ UNCHANGED <<provider, tables, cache>>

Failing(state) == [state EXCEPT !.failing = TRUE]

(* The transaction throws, and what was committed before stays.            *)
SyncFails(l) ==
    /\ \/ AtFixture(l) /\ Current(l).known
       \/ pc[l] = "write"
    /\ Cleanup(l, Failing(load[l]))
    /\ UNCHANGED <<provider, tables, cache>>

(* Or it was committed and only its answer was lost.                       *)
AnswerLost_PushAfter(l) ==
    /\ pc[l] = "write"
    /\ CommitMatch(l)
    /\ Cleanup(l, Failing(load[l]))
AnswerLost(l) ==
    /\ pc[l] = "write"
    /\ CommitMatch(l)
    /\ Cleanup(l, Failing(Pushed(l)))

Flush(l, k) ==
    /\ pc[l] = "clean" /\ k \in load[l].todo \ {Owners}
    /\ Empty(k)
    /\ load' = [load EXCEPT ![l].todo = @ \ {k}]
    /\ UNCHANGED <<provider, tables, pc, creation, raced>>

(* invalidateSalesCachesForMatches: its query, then its flushes.           *)
SalesOf(l) == {Sales(u) : u \in OwnersOf(load[l].moved)}

FindOwners(l) ==
    /\ pc[l] = "clean" /\ Owners \in load[l].todo
    /\ load' = [load EXCEPT ![l].todo = (@ \ {Owners}) \union SalesOf(l)]
    /\ UNCHANGED <<provider, tables, cache, pc, creation, raced>>

(* The keys that cleanup steps are about.                                  *)
Meant(l, steps) ==
    (steps \ {Owners}) \union (IF Owners \in steps THEN SalesOf(l) ELSE {})

FlushFails(l, step) ==
    /\ pc[l] = "clean" /\ step \in load[l].todo
    /\ Lose(Meant(l, {step}))
    /\ load' = [load EXCEPT ![l].failing = TRUE, ![l].todo = @ \ {step}]
    /\ UNCHANGED <<provider, tables, pc, creation, raced>>

(* reportCleanupFailures, and what AdminService makes of the result.       *)
End(l) ==
    /\ pc[l] = "clean" /\ load[l].todo = {}
    /\ Goto(l, IF load[l].failing THEN "failed"
               ELSE IF \A f \in Fixtures : load[l].feed[f].known
                    THEN "ok" ELSE "unknown")
    /\ Forget(l)
    /\ UNCHANGED <<provider, tables, cache, creation, raced>>

(* What a load that is at work will flush.                                 *)
ToFlush(l) ==
    CASE pc[l] \in {"row", "write"} -> Meant(l, CleanupOf(load[l]))
      [] pc[l] = "clean"            -> Meant(l, load[l].todo)
      [] OTHER                      -> {}

(* The process dies: nobody flushes what the load changed.                 *)
Crash(l) ==
    /\ pc[l] \in {"row", "write", "clean"}
    /\ Goto(l, "dead")
    /\ Lose(ToFlush(l))
    /\ Forget(l)
    /\ UNCHANGED <<provider, tables, creation, raced>>

-----------------------------------------------------------------------------
(* A creation by hand: connectOrCreate reads the opponent and then writes. *)

Create(c) ==
    /\ Starts(c)
    /\ Goto(c, "create")
    /\ \E entry \in ByHand :
         creation' = [creation EXCEPT ![c] =
                        [saw |-> entry.opponent \in opponents, want |-> entry]]
    /\ UNCHANGED <<provider, tables, cache, load>>

(* P2002, of the match or of an opponent that was created meanwhile, ends  *)
(* the creation quietly and without a flush.                               *)
Refused(c) ==
    LET want == creation[c].want
    IN  Taken(want, NoRow) \/ (~creation[c].saw /\ want.opponent \in opponents)

MayCreate(c) ==
    /\ pc[c] = "create"
    /\ \A l \in Loads :
         CreatesOpponent(l) => Current(l).opponent # creation[c].want.opponent

CommitCreated(c) ==
    /\ ~Refused(c)
    /\ Insert(creation[c].want)
    /\ opponents' = opponents \union {creation[c].want.opponent}
    /\ UNCHANGED listed

CreateMatch(c) ==
    /\ MayCreate(c)
    /\ \/ Refused(c) /\ Goto(c, "ok") /\ UNCHANGED <<tables, cache>>
       \/ CommitCreated(c) /\ Goto(c, "flush") /\ Outdate({List})
    /\ UNCHANGED <<provider, load, creation, raced>>

(* The statement throws; it may have been committed all the same.          *)
CreateFails(c) ==
    /\ MayCreate(c)
    /\ Goto(c, "failed")
    /\ \/ UNCHANGED <<tables, cache>>
       \/ CommitCreated(c) /\ Become({List}, {"fresh"}, "lost")
    /\ UNCHANGED <<provider, load, creation, raced>>

FlushList(c) ==
    /\ pc[c] = "flush"
    /\ \/ Empty(List) /\ Goto(c, "ok")
       \/ Lose({List}) /\ Goto(c, "failed")
    /\ UNCHANGED <<provider, tables, load, creation, raced>>

-----------------------------------------------------------------------------
(* Everybody else.                                                         *)

(* The provider moves a kickoff, changes where or in which competition it  *)
(* is played, or knows a result.  What it says of an unknown competition   *)
(* is not looked at.                                                       *)
Revise(f) ==
    /\ revisions < MaxRevisions /\ feed[f].known
    /\ revisions' = revisions + 1
    /\ \/ \E d \in Dates \ {feed[f].date} :
            /\ \A g \in Fixtures \ {f} :
                 feed[g].opponent = feed[f].opponent
                 => Day(feed[g].date) # Day(d)
            /\ feed' = [feed EXCEPT ![f].date = d]
       \/ feed' = [feed EXCEPT ![f].atHome = ~@]
       \/ ~feed[f].played /\ feed' = [feed EXCEPT ![f].played = TRUE]
    /\ UNCHANGED <<tables, cache, pc, load, creation, raced>>

(* A get that misses fills its entry.                                      *)
Read(k) ==
    /\ cache[k] = "none"
    /\ k \notin {Entry(id) : id \in Ids \ DOMAIN matches}
    /\ cache' = [cache EXCEPT ![k] = "fresh"]
    /\ UNCHANGED <<provider, tables, pc, load, creation, raced>>

(* Adding and removing a sale flush the sales of the user.                 *)
ListSale(u, id) ==
    /\ id \in DOMAIN matches \intersect Sellable
    /\ <<u, id>> \notin listed
    /\ listed' = listed \union {<<u, id>>}
    /\ Empty(Sales(u))
    /\ UNCHANGED <<provider, matches, opponents, pc, load, creation, raced>>

RemoveSale(u, id) ==
    /\ <<u, id>> \in listed
    /\ listed' = listed \ {<<u, id>>}
    /\ Empty(Sales(u))
    /\ UNCHANGED <<provider, matches, opponents, pc, load, creation, raced>>

-----------------------------------------------------------------------------

LoadNext(l) ==
    \/ Fetch(l) \/ SkipUnknown(l) \/ FindMatch(l) \/ WriteMatch(l)
    \/ SyncEnds(l) \/ SyncFails(l) \/ AnswerLost(l)
    \/ FindOwners(l) \/ End(l) \/ Crash(l)
    \/ \E k \in Keys : Flush(l, k)
    \/ \E k \in Keys \union {Owners} : FlushFails(l, k)

CreationNext(c) ==
    Create(c) \/ CreateMatch(c) \/ CreateFails(c) \/ FlushList(c)

OthersNext ==
    \/ \E f \in Fixtures : Revise(f)
    \/ \E k \in Keys : Read(k)
    \/ \E u \in Users, id \in Ids : ListSale(u, id) \/ RemoveSale(u, id)

Next ==
    \/ OthersNext
    \/ \E l \in Loads : LoadNext(l)
    \/ \E c \in Creations : CreationNext(c)

Spec == Init /\ [][Next]_vars

-----------------------------------------------------------------------------
(* Properties.                                                             *)

(* Every variable keeps its type.                                          *)
TypeOK ==
    /\ feed \in [Fixtures -> Entries] /\ revisions \in Nat
    /\ matches \in Seq(Match) /\ Len(matches) <= MaxRows
    /\ opponents \subseteq Opponents
    /\ listed \subseteq Users \X DOMAIN matches
    /\ cache \in [Keys -> {"none", "fresh", "stale", "lost", "drifted"}]
    /\ pc \in [Loads \union Creations ->
                 {"idle", "row", "write", "clean", "create", "flush", "ok",
                  "unknown", "failed", "dead"}]
    /\ load \in [Loads -> LoadState]
    /\ \A l \in Loads : load[l].moved \subseteq load[l].updated
    /\ creation \in [Creations -> [saw : BOOLEAN, want : Entries]]

(* "without this, every revision creates a duplicate row"                  *)
(* (matches.db.ts:229): kickoffs that move within their day double no      *)
(* match, unless two writers were at work at once or a match of the day    *)
(* was created by hand.                                                    *)
OneRowPerDay ==
    ~raced /\ (\A c \in Creations : pc[c] = "idle")
    => \A i, j \in DOMAIN matches :
         SameDay(matches[i], matches[j]) => i = j

(* A stale copy of a match has somebody at work who will flush it, or else *)
(* its flush has failed.  Copies in sales and reports are flushed when the *)
(* date that was read has changed, which needs that no two writers raced;  *)
(* they are the only ones where an old competition or atHome is left.      *)
StaleCopyHasCause ==
    \A k \in Keys :
      /\ cache[k] = "stale" =>
           \/ \E l \in Loads : k \in ToFlush(l)
           \/ k = List /\ \E c \in Creations : pc[c] = "flush"
           \/ raced /\ \E u \in Users : k = Sales(u)
      /\ cache[k] = "drifted" => \E u \in Users : k = Sales(u)

(* The rows have an entry as it was announced.                             *)
Recorded(entry) ==
    \E id \in DOMAIN matches :
      /\ matches[id].opponent = entry.opponent
      /\ matches[id].date = entry.date
      /\ matches[id].atHome = entry.atHome
      /\ entry.played => matches[id].played

(* Answers are true, unless another writer was at work: a load that did    *)
(* not fail has every fixture it fetched, as announced; a creation that is *)
(* answered, quietly refused or not, has a match on its day.               *)
AnswersAreTrue ==
    ~raced =>
      /\ \A l \in Loads, f \in Fixtures :
           pc[l] = "clean" /\ ~load[l].failing /\ load[l].feed[f].known
           => Recorded(load[l].feed[f])
      /\ \A c \in Creations :
           LET want == creation[c].want
           IN  pc[c] = "ok" =>
                 \E id \in DOMAIN matches : SameDay(matches[id], want)

-----------------------------------------------------------------------------
(* The inductive invariant: who may be at work, and what a transaction has *)
(* read that nobody changes before it writes.                              *)

Alone == ~raced => \A p, q \in DOMAIN pc : Working(p) /\ Working(q) => p = q

FeedInv == OncePerDay(feed) /\ \A l \in Loads : OncePerDay(load[l].feed)

(* What was read is still so when it is written, if nobody else writes.    *)
FoundBy(l) ==
    LET id == load[l].found
    IN  pc[l] = "write" =>
          /\ load[l].at \in Fixtures /\ Current(l).known
          /\ id # NoRow => id \in DOMAIN matches
          /\ ~raced /\ id # NoRow =>
               SameMatch(id, Current(l)) /\ load[l].was = matches[id].date
          /\ ~raced /\ id = NoRow =>
               \A j \in DOMAIN matches : ~SameMatch(j, Current(l))
FoundInv == \A l \in Loads : FoundBy(l)

(* A load has the fixtures it is past.                                     *)
ProgressOf(l) ==
    /\ pc[l] = "idle" => load[l] = Fresh
    /\ pc[l] \in {"row", "write"} => ~load[l].failing
    /\ pc[l] = "clean" /\ ~load[l].failing => load[l].at \notin Fixtures
    /\ ~raced /\ pc[l] \in {"row", "write", "clean"} /\ ~load[l].failing =>
         \A f \in Fixtures :
           f < load[l].at /\ load[l].feed[f].known => Recorded(load[l].feed[f])
ProgressInv == \A l \in Loads : ProgressOf(l)

(* A creation has seen the opponent, or it creates it; then a match is on  *)
(* its day.                                                                *)
CreationOf(c) ==
    LET want == creation[c].want
    IN  ~raced =>
          /\ pc[c] = "create" /\ ~creation[c].saw => want.opponent \notin opponents
          /\ pc[c] \in {"flush", "ok"} =>
               \E id \in DOMAIN matches : SameDay(matches[id], want)
CreationInv == \A c \in Creations : CreationOf(c)

SyncInv ==
    /\ TypeOK /\ Alone /\ FeedInv /\ FoundInv /\ ProgressInv /\ CreationInv
    /\ OneRowPerDay /\ StaleCopyHasCause
=============================================================================
