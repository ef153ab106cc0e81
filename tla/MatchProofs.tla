---------------------------- MODULE MatchProofs -----------------------------
(***************************************************************************)
(* TLAPS proofs about the match sync, for every number of loads, of        *)
(* creations by hand, of users, rows, dates and revisions of the feed, and *)
(* every calendar.                                                         *)
(***************************************************************************)
EXTENDS MatchSync, TLAPS

-----------------------------------------------------------------------------
(* Rows.                                                                   *)

LEMMA InsertedRow ==
    ASSUME TypeOK, NEW entry \in Entries, Insert(entry)
    PROVE  LET new == Len(matches) + 1
           IN  /\ matches' \in Seq(Match) /\ Len(matches') <= MaxRows
               /\ DOMAIN matches' = DOMAIN matches \union {new}
               /\ new \notin DOMAIN matches
               /\ \A j \in DOMAIN matches : matches'[j] = matches[j]
               /\ matches'[new].opponent = entry.opponent
               /\ matches'[new].date = entry.date
               /\ matches'[new].atHome = entry.atHome
               /\ matches'[new].played = entry.played
<1>1. PICK row : row = [opponent |-> entry.opponent, date |-> entry.date,
                        atHome |-> entry.atHome, played |-> entry.played]
  OBVIOUS
<1>2. row \in Match
  BY <1>1 DEF Entries, Match
<1>3. /\ row.opponent = entry.opponent /\ row.date = entry.date
      /\ row.atHome = entry.atHome /\ row.played = entry.played
  BY <1>1
<1>4. PICK rows \in Seq(Match) : rows = matches
  BY DEF TypeOK
<1>5. Len(rows) < MaxRows /\ MaxRows \in Nat /\ matches' = Append(rows, row)
  BY <1>1, <1>4, SyncAssumption DEF Insert, SyncAssumption
<1>6. /\ Append(rows, row) \in Seq(Match) /\ Len(Append(rows, row)) = Len(rows) + 1
      /\ DOMAIN Append(rows, row) = DOMAIN rows \union {Len(rows) + 1}
      /\ Len(rows) + 1 \notin DOMAIN rows
      /\ \A j \in DOMAIN rows : Append(rows, row)[j] = rows[j]
      /\ Append(rows, row)[Len(rows) + 1] = row
  BY <1>2, <1>4
<1> QED
  BY <1>3, <1>4, <1>5, <1>6

LEMMA UpdatedRow ==
    ASSUME TypeOK, NEW entry \in Entries, NEW id \in DOMAIN matches,
           Update(id, entry)
    PROVE  /\ matches' \in Seq(Match) /\ Len(matches') <= MaxRows
           /\ DOMAIN matches' = DOMAIN matches
           /\ \A j \in DOMAIN matches \ {id} : matches'[j] = matches[j]
           /\ matches'[id].opponent = matches[id].opponent
           /\ matches'[id].date = entry.date
           /\ matches'[id].atHome = entry.atHome
           /\ entry.played => matches'[id].played
           /\ matches[id].played => matches'[id].played
<1>1. PICK rows \in Seq(Match) : rows = matches
  BY DEF TypeOK
<1>2. PICK row : row = [opponent |-> rows[id].opponent, date |-> entry.date,
                        atHome |-> entry.atHome,
                        played |-> rows[id].played \/ entry.played]
  OBVIOUS
<1>3. row \in Match
  <2>1. rows[id] \in Match
    BY <1>1
  <2> QED
    BY <1>2, <2>1 DEF Entries, Match
<1>4. /\ row.opponent = rows[id].opponent /\ row.date = entry.date
      /\ row.atHome = entry.atHome
      /\ entry.played => row.played
      /\ rows[id].played => row.played
  BY <1>2
<1>5. matches' = [rows EXCEPT ![id] = row] /\ Len(rows) <= MaxRows
  BY <1>1, <1>2 DEF Update, TypeOK
<1>6. /\ [rows EXCEPT ![id] = row] \in Seq(Match)
      /\ Len([rows EXCEPT ![id] = row]) = Len(rows)
      /\ DOMAIN [rows EXCEPT ![id] = row] = DOMAIN rows
      /\ [rows EXCEPT ![id] = row][id] = row
      /\ \A j \in DOMAIN rows \ {id} : [rows EXCEPT ![id] = row][j] = rows[j]
  BY <1>1, <1>3
<1> QED
  BY <1>1, <1>4, <1>5, <1>6

(* The fixture a load is at.                                               *)
LEMMA CurrentType ==
    ASSUME TypeOK, NEW l \in Loads, load[l].at \in Fixtures
    PROVE  Current(l) \in Entries
BY DEF TypeOK, LoadState, Current

(* What a transaction of a load has done, once it is committed.  Rows keep *)
(* their opponent, and their day too, if what was found is still so.       *)
LEMMA Committed ==
    ASSUME TypeOK, FoundInv, NEW l \in Loads, pc[l] = "write", CommitMatch(l),
           NEW entry, entry = Current(l)
    PROVE  /\ entry \in Entries
           /\ matches' \in Seq(Match) /\ Len(matches') <= MaxRows
           /\ DOMAIN matches \subseteq DOMAIN matches'
           /\ ~raced => Recorded(entry)'
           /\ \A j \in DOMAIN matches : matches'[j].opponent = matches[j].opponent
           /\ ~raced => \A j \in DOMAIN matches :
                \/ matches'[j] = matches[j]
                \/ SameDay(matches[j], entry) /\ SameDay(matches'[j], entry)
           /\ ~raced => \A i, j \in DOMAIN matches' :
                SameDay(matches'[i], matches'[j])
                /\ (\A m, n \in DOMAIN matches : SameDay(matches[m], matches[n]) => m = n)
                => i = j
<1>1. entry \in Entries
  BY CurrentType DEF FoundInv, FoundBy
<1>2. PICK id : id = load[l].found
  OBVIOUS
<1>3. CASE id = NoRow
  <2>1. Insert(entry)
    BY <1>2, <1>3 DEF CommitMatch
  <2>2. PICK new :
          /\ matches' \in Seq(Match) /\ Len(matches') <= MaxRows
          /\ DOMAIN matches' = DOMAIN matches \union {new}
          /\ new \notin DOMAIN matches
          /\ \A j \in DOMAIN matches : matches'[j] = matches[j]
          /\ matches'[new].opponent = entry.opponent
          /\ matches'[new].date = entry.date
          /\ matches'[new].atHome = entry.atHome
          /\ matches'[new].played = entry.played
    BY <1>1, <2>1, InsertedRow
  <2>3. Recorded(entry)'
    BY <2>2 DEF Recorded
  <2>4. ~raced => \A j \in DOMAIN matches : ~SameDay(matches[j], entry)
    BY <1>2, <1>3 DEF FoundInv, FoundBy, SameMatch
  <2>5. SameDay(matches'[new], entry)
    BY <2>2 DEF SameDay
  <2>6. ~raced => \A i, j \in DOMAIN matches' :
                SameDay(matches'[i], matches'[j])
                /\ (\A m, n \in DOMAIN matches : SameDay(matches[m], matches[n]) => m = n)
                => i = j
    BY <2>2, <2>4, <2>5 DEF SameDay
  <2> QED
    BY <1>1, <2>2, <2>3, <2>6
<1>4. CASE id # NoRow
  <2>1. Update(id, entry) /\ id \in DOMAIN matches
    BY <1>2, <1>4 DEF CommitMatch, FoundInv, FoundBy
  <2>2. /\ matches' \in Seq(Match) /\ Len(matches') <= MaxRows
        /\ DOMAIN matches' = DOMAIN matches
        /\ \A j \in DOMAIN matches \ {id} : matches'[j] = matches[j]
        /\ matches'[id].opponent = matches[id].opponent
        /\ matches'[id].date = entry.date
        /\ matches'[id].atHome = entry.atHome
        /\ entry.played => matches'[id].played
    BY <1>1, <2>1, UpdatedRow
  <2>3. ~raced => matches[id].opponent = entry.opponent
    BY <1>2, <1>4 DEF FoundInv, FoundBy, SameMatch, SameDay
  <2>4. ~raced => Recorded(entry)'
    BY <2>1, <2>2, <2>3 DEF Recorded
  <2>5. ~raced => SameDay(matches[id], entry) /\ SameDay(matches'[id], entry)
    BY <1>2, <1>4, <2>2, <2>3 DEF FoundInv, FoundBy, SameMatch, SameDay
  <2>6. ~raced => \A j \in DOMAIN matches :
           /\ matches'[j].opponent = matches[j].opponent
           /\ Day(matches'[j].date) = Day(matches[j].date)
    BY <2>2, <2>5 DEF SameDay
  <2>7. ~raced => \A i, j \in DOMAIN matches' :
                SameDay(matches'[i], matches'[j])
                /\ (\A m, n \in DOMAIN matches : SameDay(matches[m], matches[n]) => m = n)
                => i = j
    BY <2>2, <2>6 DEF SameDay
  <2> QED
    BY <1>1, <2>2, <2>4, <2>5, <2>7
<1> QED
  BY <1>3, <1>4

-----------------------------------------------------------------------------
(* Types.                                                                  *)

Steps == {"idle", "row", "write", "clean", "create", "flush", "ok", "unknown",
          "failed", "dead"}
CacheStates == {"none", "fresh", "stale", "lost", "drifted"}

LEMMA CacheTypes ==
    ASSUME TypeOK, NEW keys, NEW from, NEW to \in CacheStates
    PROVE  /\ Become(keys, from, to) => cache' \in [Keys -> CacheStates]
           /\ \A k \in Keys : Empty(k) => cache' \in [Keys -> CacheStates]
BY DEF TypeOK, Become, Empty, CacheStates

LEMMA FreshType == Fresh \in LoadState
<1>1. 1 \in 1 .. Len(Calendar) + 1 /\ 0 \in Dates
  BY SyncAssumption DEF SyncAssumption, Dates
<1>2. Calendar \in [Fixtures -> Entries]
  BY SyncAssumption DEF SyncAssumption, Fixtures
<1> QED
  BY <1>1, <1>2 DEF Fresh, LoadState

LEMMA NextFixture ==
    ASSUME NEW at \in Fixtures
    PROVE  at + 1 \in 1 .. Len(Calendar) + 1
BY SyncAssumption DEF SyncAssumption, Fixtures

(* The variables of a load change within their type.                       *)
LEMMA LoadChanges ==
    ASSUME TypeOK, NEW l \in Loads, NEW state \in LoadState,
           state.moved \subseteq state.updated,
           load' = [load EXCEPT ![l] = state]
    PROVE  /\ load' \in [Loads -> LoadState]
           /\ \A m \in Loads : load'[m].moved \subseteq load'[m].updated
BY DEF TypeOK

LEMMA PushedType ==
    ASSUME TypeOK, FoundInv, NEW l \in Loads, pc[l] = "write"
    PROVE  /\ Pushed(l) \in LoadState
           /\ Pushed(l).moved \subseteq Pushed(l).updated
           /\ Pushed(l).at = load[l].at
           /\ Pushed(l).feed = load[l].feed
           /\ Pushed(l).failing = load[l].failing
           /\ Pushed(l).updated = IF load[l].found = NoRow THEN load[l].updated
                                  ELSE load[l].updated \union {load[l].found}
           /\ Pushed(l).moved =
                IF load[l].found # NoRow /\ load[l].was # Current(l).date
                THEN load[l].moved \union {load[l].found} ELSE load[l].moved
<1>1. PICK state \in LoadState : state = load[l]
  BY DEF TypeOK
<1>2. state.moved \subseteq state.updated
  BY <1>1 DEF TypeOK
<1>3. state.found # NoRow => state.found \in Ids
  BY <1>1 DEF LoadState
<1>4. CASE state.found = NoRow
  BY <1>1, <1>2, <1>4 DEF Pushed
<1>5. CASE state.found # NoRow
  <2>1. PICK up, mo : /\ up = state.updated \union {state.found}
                      /\ mo = IF state.was # Current(l).date
                              THEN state.moved \union {state.found}
                              ELSE state.moved
    OBVIOUS
  <2>2. Pushed(l) = [state EXCEPT !.updated = up, !.moved = mo]
    BY <1>1, <1>5, <2>1 DEF Pushed
  <2>3. up \in SUBSET Ids /\ mo \in SUBSET Ids /\ mo \subseteq up
    BY <1>2, <1>3, <1>5, <2>1 DEF LoadState
  <2>4. PICK new : new = [state EXCEPT !.updated = up, !.moved = mo]
    OBVIOUS
  <2>5. /\ new \in LoadState /\ new.updated = up /\ new.moved = mo
        /\ new.at = state.at /\ new.feed = state.feed
        /\ new.failing = state.failing
    BY <2>3, <2>4 DEF LoadState
  <2> QED
    BY <1>1, <1>5, <2>1, <2>2, <2>3, <2>4, <2>5
<1> QED
  BY <1>4, <1>5, <1>1

LEMMA CleanupType ==
    ASSUME NEW state \in LoadState
    PROVE  CleanupOf(state) \in SUBSET (Keys \union {Owners})
BY DEF CleanupOf, LoadState, Keys

LEMMA CleanupStarts ==
    ASSUME TypeOK, NEW l \in Loads, NEW state \in LoadState,
           state.moved \subseteq state.updated, Cleanup(l, state)
    PROVE  /\ load' \in [Loads -> LoadState]
           /\ \A m \in Loads : load'[m].moved \subseteq load'[m].updated
           /\ pc' = [pc EXCEPT ![l] = "clean"]
           /\ UNCHANGED <<creation, raced>>
           /\ \A m \in Loads \ {l} : load'[m] = load[m]
           /\ load'[l].todo = CleanupOf(state)
           /\ load'[l].feed = state.feed /\ load'[l].at = state.at
           /\ load'[l].failing = state.failing
           /\ load'[l].updated = state.updated /\ load'[l].moved = state.moved
<1>1. PICK new : new = [state EXCEPT !.todo = CleanupOf(state)]
  OBVIOUS
<1>2. /\ new \in LoadState /\ new.todo = CleanupOf(state)
      /\ new.moved \subseteq new.updated
      /\ new.feed = state.feed /\ new.at = state.at
      /\ new.failing = state.failing
      /\ new.updated = state.updated /\ new.moved = state.moved
  BY <1>1, CleanupType DEF LoadState
<1>3. load' = [load EXCEPT ![l] = new]
  BY <1>1 DEF Cleanup
<1>4. load'[l] = new /\ \A m \in Loads \ {l} : load'[m] = load[m]
  BY <1>3 DEF TypeOK
<1>5. /\ load' \in [Loads -> LoadState]
      /\ \A m \in Loads : load'[m].moved \subseteq load'[m].updated
  BY <1>2, <1>3, LoadChanges
<1> QED
  BY <1>2, <1>4, <1>5 DEF Cleanup, Goto

LEMMA FailingType ==
    ASSUME NEW state \in LoadState, state.moved \subseteq state.updated
    PROVE  /\ Failing(state) \in LoadState
           /\ Failing(state).moved \subseteq Failing(state).updated
           /\ Failing(state).failing
           /\ Failing(state).feed = state.feed
           /\ Failing(state).updated = state.updated
           /\ Failing(state).moved = state.moved
BY DEF Failing, LoadState

(* What a transaction of a load leaves of the tables and the cache.        *)
LEMMA CommitTypes ==
    ASSUME TypeOK, FoundInv, NEW l \in Loads, pc[l] = "write", CommitMatch(l)
    PROVE  /\ matches' \in Seq(Match) /\ Len(matches') <= MaxRows
           /\ DOMAIN matches \subseteq DOMAIN matches'
           /\ opponents' \subseteq Opponents
           /\ cache' \in [Keys -> CacheStates]
           /\ UNCHANGED <<provider, listed>>
<1>1. PICK entry : entry = Current(l)
  OBVIOUS
<1>2. /\ entry \in Entries
      /\ matches' \in Seq(Match) /\ Len(matches') <= MaxRows
      /\ DOMAIN matches \subseteq DOMAIN matches'
  BY <1>1, Committed
<1>3. opponents' \subseteq Opponents /\ UNCHANGED <<provider, listed>>
  BY <1>1, <1>2 DEF CommitMatch, TypeOK, Entries
<1>4. \/ Become({List}, {"fresh", "drifted"}, "stale")
      \/ \E id, new : UpdateCopies(id, new)
  BY DEF CommitMatch, Outdate
<1>5. cache' \in [Keys -> CacheStates]
  <2>1. CASE Become({List}, {"fresh", "drifted"}, "stale")
    BY <2>1, CacheTypes DEF CacheStates
  <2>2. ASSUME NEW id, NEW new, UpdateCopies(id, new)
        PROVE  cache' \in [Keys -> CacheStates]
    BY <2>2 DEF UpdateCopies, TypeOK, CacheStates
  <2> QED
    BY <1>4, <2>1, <2>2
<1> QED
  BY <1>2, <1>3, <1>5

LEMMA RowKeys ==
    ASSUME TypeOK
    PROVE  DOMAIN matches \subseteq Ids
BY SyncAssumption DEF TypeOK, Ids, SyncAssumption

LEMMA LoadTypes ==
    ASSUME TypeOK, FoundInv, NEW l \in Loads, LoadNext(l)
    PROVE  TypeOK'
<1> USE DEF provider, tables, Goto
<1>1. PICK state \in LoadState : state = load[l]
  BY DEF TypeOK
<1>2. state.moved \subseteq state.updated
  BY <1>1 DEF TypeOK
<1>3. ASSUME NEW new \in LoadState, new.moved \subseteq new.updated,
             load' = [load EXCEPT ![l] = new],
             UNCHANGED <<provider, tables, creation>>,
             cache' \in [Keys -> CacheStates],
             pc' \in [Loads \union Creations -> Steps]
      PROVE  TypeOK'
  BY <1>3, LoadChanges DEF TypeOK, Steps, CacheStates
<1>4. pc \in [Loads \union Creations -> Steps] /\ cache \in [Keys -> CacheStates]
  BY DEF TypeOK, Steps, CacheStates
<1>5. \A st \in Steps : [pc EXCEPT ![l] = st] \in [Loads \union Creations -> Steps]
  BY <1>4
<1>6. CASE Fetch(l)
  <2>1. PICK new : new = [state EXCEPT !.feed = feed]
    OBVIOUS
  <2>2. new \in LoadState /\ new.moved \subseteq new.updated
    BY <1>2, <2>1 DEF LoadState, TypeOK
  <2>3. load' = [load EXCEPT ![l] = new]
    BY <1>1, <1>6, <2>1 DEF Fetch
  <2> QED
    BY <1>3, <1>4, <1>5, <1>6, <2>2, <2>3 DEF Fetch, Steps
<1>7. CASE SkipUnknown(l)
  <2>1. PICK new : new = [state EXCEPT !.at = state.at + 1]
    OBVIOUS
  <2>2. new \in LoadState /\ new.moved \subseteq new.updated
    BY <1>1, <1>2, <1>7, <2>1, NextFixture DEF LoadState, SkipUnknown, AtFixture
  <2>3. load' = [load EXCEPT ![l] = new]
    BY <1>1, <1>7, <2>1 DEF SkipUnknown
  <2> QED
    BY <1>3, <1>4, <1>7, <2>2, <2>3 DEF SkipUnknown
<1>8. CASE FindMatch(l)
  <2>1. PICK found \in Ids \union {NoRow}, was \in Dates :
           load' = [load EXCEPT ![l] = [state EXCEPT !.found = found, !.was = was]]
    <3>1. CASE load' = [load EXCEPT ![l].found = NoRow]
      <4>1. load' = [load EXCEPT ![l] =
                       [state EXCEPT !.found = NoRow, !.was = state.was]]
        BY <1>1, <3>1 DEF LoadState
      <4> QED
        BY <4>1 DEF LoadState
    <3>2. ASSUME NEW id \in DOMAIN matches,
                 load' = [load EXCEPT ![l].found = id, ![l].was = matches[id].date]
          PROVE  \E found \in Ids \union {NoRow}, was \in Dates :
           load' = [load EXCEPT ![l] = [state EXCEPT !.found = found, !.was = was]]
      <4>1. id \in Ids /\ matches[id].date \in Dates
        <5>1. matches[id] \in Match
          BY DEF TypeOK
        <5> QED
          BY <5>1, RowKeys DEF Match
      <4>2. load' = [load EXCEPT ![l] =
                       [state EXCEPT !.found = id, !.was = matches[id].date]]
        BY <1>1, <3>2
      <4> QED
        BY <4>1, <4>2
    <3> QED
      BY <1>8, <3>1, <3>2 DEF FindMatch
  <2>2. PICK new : new = [state EXCEPT !.found = found, !.was = was]
    OBVIOUS
  <2>3. new \in LoadState /\ new.moved \subseteq new.updated
    BY <1>2, <2>2 DEF LoadState
  <2> QED
    BY <1>3, <1>4, <1>5, <1>8, <2>1, <2>2, <2>3 DEF FindMatch, Steps
<1>9. CASE WriteMatch(l)
  <2>1. PICK pushed \in LoadState :
          /\ pushed = Pushed(l) /\ pushed.moved \subseteq pushed.updated
          /\ pushed.at = load[l].at
    BY <1>9, PushedType DEF WriteMatch
  <2>2. pushed.at \in Fixtures
    BY <1>9, <2>1 DEF WriteMatch, FoundInv, FoundBy
  <2>3. PICK new : new = [pushed EXCEPT !.at = pushed.at + 1, !.found = NoRow,
                                        !.was = 0]
    OBVIOUS
  <2>4. new \in LoadState /\ new.moved \subseteq new.updated
    <3>1. 0 \in Dates /\ pushed.at + 1 \in 1 .. Len(Calendar) + 1
      BY <2>2, NextFixture, SyncAssumption DEF Dates, SyncAssumption
    <3> QED
      BY <2>1, <2>3, <3>1 DEF LoadState
  <2>5. load' = [load EXCEPT ![l] = new]
    BY <1>9, <2>1, <2>3 DEF WriteMatch
  <2>6. /\ load' \in [Loads -> LoadState]
        /\ \A m \in Loads : load'[m].moved \subseteq load'[m].updated
    BY <2>4, <2>5, LoadChanges
  <2> QED
    BY <1>5, <1>9, <2>6, CommitTypes DEF WriteMatch, TypeOK, Steps, CacheStates
<1>10. CASE SyncEnds(l)
  <2>1. Cleanup(l, state) /\ UNCHANGED <<provider, tables, cache>>
    BY <1>1, <1>10 DEF SyncEnds
  <2>2. /\ pc' = [pc EXCEPT ![l] = "clean"] /\ UNCHANGED <<creation>>
        /\ load' \in [Loads -> LoadState]
        /\ \A m \in Loads : load'[m].moved \subseteq load'[m].updated
    BY <1>1, <1>2, <2>1, CleanupStarts
  <2> QED
    BY <2>1, <2>2 DEF TypeOK
<1>11. CASE SyncFails(l)
  <2>1. PICK failing \in LoadState :
          failing = Failing(load[l]) /\ failing.moved \subseteq failing.updated
    BY <1>1, <1>2, FailingType
  <2> QED
    BY <1>4, <1>5, <1>11, <2>1, CleanupStarts DEF SyncFails, TypeOK, Steps
<1>12. CASE AnswerLost(l)
  <2>1. PICK pushed \in LoadState :
          pushed = Pushed(l) /\ pushed.moved \subseteq pushed.updated
    BY <1>12, PushedType DEF AnswerLost
  <2>2. PICK failing \in LoadState :
          failing = Failing(pushed) /\ failing.moved \subseteq failing.updated
    BY <2>1, FailingType
  <2>3. pc[l] = "write" /\ CommitMatch(l) /\ Cleanup(l, failing)
    BY <1>12, <2>1, <2>2 DEF AnswerLost
  <2>4. /\ load' \in [Loads -> LoadState]
        /\ \A m \in Loads : load'[m].moved \subseteq load'[m].updated
        /\ pc' = [pc EXCEPT ![l] = "clean"]
        /\ UNCHANGED <<creation, raced>>
    BY <2>2, <2>3, CleanupStarts
  <2> QED
    BY <1>5, <2>3, <2>4, CommitTypes DEF TypeOK, Steps, CacheStates
<1>13. CASE FindOwners(l)
  <2>1. SalesOf(l) \in SUBSET Keys
    BY DEF SalesOf, OwnersOf, Keys
  <2>2. PICK new : new = [state EXCEPT !.todo =
                            (state.todo \ {Owners}) \union SalesOf(l)]
    OBVIOUS
  <2>3. new \in LoadState /\ new.moved \subseteq new.updated
    BY <1>2, <2>1, <2>2 DEF LoadState
  <2>4. load' = [load EXCEPT ![l] = new]
    BY <1>1, <1>13, <2>2 DEF FindOwners
  <2> QED
    BY <1>3, <1>4, <1>13, <2>3, <2>4 DEF FindOwners
<1>14. CASE End(l)
  BY <1>3, <1>4, <1>5, <1>14, FreshType DEF End, Forget, Fresh, Steps
<1>15. CASE Crash(l)
  <2>1. cache' \in [Keys -> CacheStates]
    BY <1>15, CacheTypes DEF Crash, Lose, CacheStates
  <2> QED
    BY <1>3, <1>5, <1>15, <2>1, FreshType DEF Crash, Forget, Fresh, Steps
<1>16. ASSUME NEW k \in Keys, Flush(l, k) PROVE TypeOK'
  <2>1. PICK new : new = [state EXCEPT !.todo = state.todo \ {k}]
    OBVIOUS
  <2>2. new \in LoadState /\ new.moved \subseteq new.updated
    BY <1>2, <2>1 DEF LoadState
  <2>3. load' = [load EXCEPT ![l] = new]
    BY <1>1, <1>16, <2>1 DEF Flush
  <2>4. cache' \in [Keys -> CacheStates]
    BY <1>16, CacheTypes DEF Flush, CacheStates
  <2> QED
    BY <1>3, <1>4, <1>16, <2>2, <2>3, <2>4 DEF Flush
<1>17. ASSUME NEW k \in Keys \union {Owners}, FlushFails(l, k) PROVE TypeOK'
  <2>1. PICK new : new = [state EXCEPT !.failing = TRUE,
                                       !.todo = state.todo \ {k}]
    OBVIOUS
  <2>2. new \in LoadState /\ new.moved \subseteq new.updated
    BY <1>2, <2>1 DEF LoadState
  <2>3. load' = [load EXCEPT ![l] = new]
    BY <1>1, <1>17, <2>1 DEF FlushFails
  <2>4. cache' \in [Keys -> CacheStates]
    BY <1>17, CacheTypes DEF FlushFails, Lose, CacheStates
  <2> QED
    BY <1>3, <1>4, <1>17, <2>2, <2>3, <2>4 DEF FlushFails
<1> QED
  BY <1>6, <1>7, <1>8, <1>9, <1>10, <1>11, <1>12, <1>13, <1>14, <1>15, <1>16,
     <1>17 DEF LoadNext

(* What a creation leaves of the tables, once it is committed.             *)
LEMMA Created ==
    ASSUME TypeOK, NEW c \in Creations, CommitCreated(c),
           NEW want, want = creation[c].want
    PROVE  /\ want \in Entries
           /\ matches' \in Seq(Match) /\ Len(matches') <= MaxRows
           /\ DOMAIN matches \subseteq DOMAIN matches'
           /\ \A j \in DOMAIN matches : matches'[j] = matches[j]
           /\ \E j \in DOMAIN matches' : SameDay(matches'[j], want)
           /\ opponents' = opponents \union {want.opponent}
           /\ opponents' \subseteq Opponents
           /\ UNCHANGED listed
<1>1. want \in Entries
  BY DEF TypeOK
<1>2. Insert(want)
  BY DEF CommitCreated
<1>3. PICK new :
        /\ matches' \in Seq(Match) /\ Len(matches') <= MaxRows
        /\ DOMAIN matches' = DOMAIN matches \union {new}
        /\ \A j \in DOMAIN matches : matches'[j] = matches[j]
        /\ matches'[new].opponent = want.opponent
        /\ matches'[new].date = want.date
  BY <1>1, <1>2, InsertedRow
<1>4. SameDay(matches'[new], want)
  BY <1>3 DEF SameDay
<1>5. opponents' = opponents \union {want.opponent} /\ opponents' \subseteq Opponents
  BY <1>1 DEF CommitCreated, TypeOK, Entries
<1> QED
  BY <1>1, <1>3, <1>4, <1>5 DEF CommitCreated

LEMMA CreationTypes ==
    ASSUME TypeOK, NEW c \in Creations, CreationNext(c)
    PROVE  TypeOK'
<1> USE DEF provider, tables, Goto
<1>1. \A st \in Steps :
         [pc EXCEPT ![c] = st] \in [Loads \union Creations -> Steps]
  BY DEF TypeOK, Steps
<1>2. CASE Create(c)
  <2>1. PICK entry \in ByHand :
          creation' = [creation EXCEPT ![c] =
                        [saw |-> entry.opponent \in opponents, want |-> entry]]
    BY <1>2 DEF Create
  <2>2. [saw |-> entry.opponent \in opponents, want |-> entry]
           \in [saw : BOOLEAN, want : Entries]
    BY SyncAssumption DEF SyncAssumption
  <2> QED
    BY <1>1, <1>2, <2>1, <2>2 DEF Create, TypeOK, Steps
<1>3. ASSUME CommitCreated(c), NEW to \in CacheStates, NEW from, Become({List}, from, to),
             NEW st \in Steps, Goto(c, st),
             UNCHANGED <<provider, load, creation, raced>>
      PROVE  TypeOK'
  <2>1. PICK want : want = creation[c].want
    OBVIOUS
  <2>2. /\ matches' \in Seq(Match) /\ Len(matches') <= MaxRows
        /\ DOMAIN matches \subseteq DOMAIN matches'
        /\ opponents' \subseteq Opponents
        /\ UNCHANGED listed
    BY <1>3, <2>1, Created
  <2>3. cache' \in [Keys -> CacheStates]
    BY <1>3, CacheTypes
  <2> QED
    BY <1>1, <1>3, <2>2, <2>3 DEF TypeOK, Steps, CacheStates
<1>4. CASE CreateMatch(c)
  <2>1. CASE UNCHANGED <<tables, cache>> /\ Goto(c, "ok")
    BY <1>1, <1>4, <2>1 DEF CreateMatch, TypeOK, Steps
  <2>2. CASE CommitCreated(c) /\ Goto(c, "flush") /\ Outdate({List})
    BY <1>3, <1>4, <2>2 DEF CreateMatch, Outdate, Steps, CacheStates
  <2> QED
    BY <1>4, <2>1, <2>2 DEF CreateMatch
<1>5. CASE CreateFails(c)
  <2>1. CASE UNCHANGED <<tables, cache>>
    BY <1>1, <1>5, <2>1 DEF CreateFails, TypeOK, Steps
  <2>2. CASE CommitCreated(c) /\ Become({List}, {"fresh"}, "lost")
    BY <1>3, <1>5, <2>2 DEF CreateFails, Steps, CacheStates
  <2> QED
    BY <1>5, <2>1, <2>2 DEF CreateFails
<1>6. CASE FlushList(c)
  <2>1. List \in Keys
    BY DEF Keys
  <2>2. cache' \in [Keys -> CacheStates]
    BY <1>6, <2>1, CacheTypes DEF FlushList, Lose, CacheStates
  <2>3. pc' \in [Loads \union Creations -> Steps]
    BY <1>1, <1>6 DEF FlushList, Steps
  <2> QED
    BY <1>6, <2>2, <2>3 DEF FlushList, TypeOK, Steps, CacheStates
<1> QED
  BY <1>2, <1>4, <1>5, <1>6 DEF CreationNext

LEMMA OthersTypes ==
    ASSUME TypeOK, OthersNext
    PROVE  TypeOK'
<1> USE DEF provider, tables
<1>1. ASSUME NEW f \in Fixtures, Revise(f) PROVE TypeOK'
  <2>1. PICK entries \in [Fixtures -> Entries] : entries = feed
    BY DEF TypeOK
  <2>2. ASSUME NEW d \in Dates, feed' = [entries EXCEPT ![f].date = d]
        PROVE  feed' \in [Fixtures -> Entries]
    BY <2>2 DEF Entries
  <2>3. ASSUME feed' = [entries EXCEPT ![f].played = TRUE]
        PROVE  feed' \in [Fixtures -> Entries]
    BY <2>3 DEF Entries
  <2>4. ASSUME feed' = [entries EXCEPT ![f].atHome = ~entries[f].atHome]
        PROVE  feed' \in [Fixtures -> Entries]
    BY <2>4 DEF Entries
  <2>5. feed' \in [Fixtures -> Entries]
    BY <1>1, <2>1, <2>2, <2>3, <2>4 DEF Revise
  <2> QED
    BY <1>1, <2>5 DEF Revise, TypeOK
<1>2. ASSUME NEW k \in Keys, Read(k) PROVE TypeOK'
  BY <1>2 DEF Read, TypeOK
<1>3. ASSUME NEW u \in Users, NEW id \in Ids, ListSale(u, id) PROVE TypeOK'
  <2>1. Sales(u) \in Keys
    BY DEF Keys
  <2>2. cache' \in [Keys -> CacheStates]
    BY <1>3, <2>1, CacheTypes DEF ListSale, CacheStates
  <2> QED
    BY <1>3, <2>2 DEF ListSale, TypeOK, CacheStates
<1>4. ASSUME NEW u \in Users, NEW id \in Ids, RemoveSale(u, id) PROVE TypeOK'
  <2>1. Sales(u) \in Keys
    BY DEF Keys
  <2>2. cache' \in [Keys -> CacheStates]
    BY <1>4, <2>1, CacheTypes DEF RemoveSale, CacheStates
  <2> QED
    BY <1>4, <2>2 DEF RemoveSale, TypeOK, CacheStates
<1> QED
  BY <1>1, <1>2, <1>3, <1>4 DEF OthersNext

-----------------------------------------------------------------------------
(* What a step of one process leaves alone.  The others go on with what    *)
(* they have read, and see the rows change only if it was at work; rows    *)
(* keep their opponent and their day, unless two writers were.             *)

RowsStay ==
    /\ DOMAIN matches \subseteq DOMAIN matches'
    /\ ~raced => \A j \in DOMAIN matches :
         /\ matches'[j].opponent = matches[j].opponent
         /\ Day(matches'[j].date) = Day(matches[j].date)

StepOf(p) ==
    /\ DOMAIN pc' = DOMAIN pc
    /\ \A q \in DOMAIN pc \ {p} : pc'[q] = pc[q]
    /\ \A m \in Loads \ {p} : load'[m] = load[m]
    /\ \A c \in Creations \ {p} : creation'[c] = creation[c]
    /\ raced => raced'
    /\ RowsStay
    /\ Working(p) \/ UNCHANGED <<matches, opponents>>

LEMMA SameRows ==
    ASSUME UNCHANGED matches
    PROVE  RowsStay
BY DEF RowsStay

LEMMA ProcessTypes ==
    ASSUME TypeOK
    PROVE  /\ DOMAIN pc = Loads \union Creations
           /\ Loads \intersect Creations = {}
BY SyncAssumption DEF TypeOK, SyncAssumption

LEMMA RacedStays ==
    ASSUME NEW p, Starts(p), raced
    PROVE  raced'
BY Zenon DEF Starts

LEMMA LoadFrame ==
    ASSUME TypeOK, FoundInv, NEW l \in Loads, LoadNext(l)
    PROVE  StepOf(l)
<1> USE DEF tables, provider
<1>1. DOMAIN pc = Loads \union Creations /\ Loads \intersect Creations = {}
  BY ProcessTypes
<1>2. UNCHANGED creation /\ (raced => raced')
  <2>1. UNCHANGED creation /\ (Starts(l) \/ UNCHANGED raced)
    BY DEF LoadNext, Fetch, SkipUnknown, FindMatch, WriteMatch, SyncEnds,
           SyncFails, AnswerLost, FindOwners, End, Crash, Flush, FlushFails,
           Cleanup
  <2> QED
    BY <2>1, RacedStays
<1>3. DOMAIN pc' = DOMAIN pc /\ \A q \in DOMAIN pc \ {l} : pc'[q] = pc[q]
  <2>1. pc' = pc \/ \E st \in Steps : pc' = [pc EXCEPT ![l] = st]
    BY DEF LoadNext, Fetch, SkipUnknown, FindMatch, WriteMatch, SyncEnds,
           SyncFails, AnswerLost, FindOwners, End, Crash, Flush, FlushFails,
           Cleanup, Goto, Steps
  <2> QED
    BY <2>1
<1>4. \A m \in Loads \ {l} : load'[m] = load[m]
  BY DEF LoadNext, Fetch, SkipUnknown, FindMatch, WriteMatch, SyncEnds, SyncFails,
         AnswerLost, FindOwners, End, Crash, Flush, FlushFails, Cleanup, Forget,
         TypeOK
<1>5. ASSUME pc[l] = "write", CommitMatch(l)
      PROVE  RowsStay /\ Working(l)
  <2>1. PICK entry : entry = Current(l)
    OBVIOUS
  <2>2. /\ DOMAIN matches \subseteq DOMAIN matches'
        /\ ~raced => \A j \in DOMAIN matches :
             \/ matches'[j] = matches[j]
             \/ SameDay(matches[j], entry) /\ SameDay(matches'[j], entry)
    BY <1>5, <2>1, Committed
  <2> QED
    BY <1>5, <2>2 DEF RowsStay, SameDay, Working
<1>6. \/ RowsStay /\ Working(l)
      \/ UNCHANGED <<matches, opponents>>
  BY <1>5 DEF LoadNext, Fetch, SkipUnknown, FindMatch, WriteMatch, SyncEnds,
              SyncFails, AnswerLost, FindOwners, End, Crash, Flush, FlushFails
<1> QED
  BY <1>1, <1>2, <1>3, <1>4, <1>6, SameRows DEF StepOf

LEMMA CreationFrame ==
    ASSUME TypeOK, NEW c \in Creations, CreationNext(c)
    PROVE  StepOf(c)
<1> USE DEF tables, provider
<1>1. DOMAIN pc = Loads \union Creations /\ Loads \intersect Creations = {}
  BY ProcessTypes
<1>2. UNCHANGED load /\ (raced => raced')
  BY RacedStays DEF CreationNext, Create, CreateMatch, CreateFails, FlushList
<1>3. DOMAIN pc' = DOMAIN pc /\ \A q \in DOMAIN pc \ {c} : pc'[q] = pc[q]
  BY DEF CreationNext, Create, CreateMatch, CreateFails, FlushList, Goto
<1>4. \A d \in Creations \ {c} : creation'[d] = creation[d]
  BY DEF CreationNext, Create, CreateMatch, CreateFails, FlushList, TypeOK
<1>5. ASSUME CommitCreated(c) PROVE RowsStay
  <2>1. PICK want : want = creation[c].want
    OBVIOUS
  <2>2. /\ DOMAIN matches \subseteq DOMAIN matches'
        /\ \A j \in DOMAIN matches : matches'[j] = matches[j]
    BY <1>5, <2>1, Created
  <2> QED
    BY <2>2 DEF RowsStay
<1>6. \/ RowsStay /\ Working(c)
      \/ UNCHANGED <<matches, opponents>>
  BY <1>5 DEF CreationNext, Create, CreateMatch, CreateFails, FlushList, MayCreate,
              Working
<1> QED
  BY <1>1, <1>2, <1>3, <1>4, <1>6, SameRows DEF StepOf

(* Everybody else touches neither a request nor the rows.                  *)
Elsewhere == UNCHANGED <<matches, opponents, pc, load, creation, raced>>

LEMMA OthersFrame ==
    ASSUME OthersNext
    PROVE  Elsewhere
BY DEF OthersNext, Revise, Read, ListSale, RemoveSale, tables, provider, Elsewhere

-----------------------------------------------------------------------------
(* Writers.                                                                *)

LEMMA AloneStep ==
    ASSUME TypeOK, FoundInv, Alone, Next
    PROVE  Alone'
<1>1. ASSUME UNCHANGED raced, DOMAIN pc' = DOMAIN pc,
             \A q \in DOMAIN pc : Working(q)' => Working(q)
      PROVE  Alone'
  BY <1>1 DEF Alone
<1>2. ASSUME NEW p \in DOMAIN pc, Starts(p), StepOf(p)
      PROVE  Alone'
  <2>1. ~raced' => \A q \in DOMAIN pc : ~Working(q)
    BY <1>2 DEF Starts
  <2>2. \A q \in DOMAIN pc \ {p} : Working(q)' => Working(q)
    BY <1>2 DEF StepOf, Working
  <2> QED
    BY <1>2, <2>1, <2>2 DEF Alone, StepOf
<1>3. ASSUME OthersNext PROVE Alone'
  BY <1>3, OthersFrame DEF Elsewhere, Alone, Working
<1>4. ASSUME NEW l \in Loads, LoadNext(l) PROVE Alone'
  <2>1. StepOf(l) /\ l \in DOMAIN pc
    BY <1>4, LoadFrame, ProcessTypes
  <2>2. CASE Fetch(l)
    BY <1>2, <2>1, <2>2 DEF Fetch
  <2>3. CASE ~Fetch(l)
    <3>1. UNCHANGED raced /\ (Working(l)' => Working(l))
      BY <1>4, <2>1, <2>3
         DEF LoadNext, SkipUnknown, FindMatch, WriteMatch, SyncEnds, SyncFails,
             AnswerLost, FindOwners, End, Crash, Flush, FlushFails, Cleanup, Goto,
             Working, AtFixture, TypeOK
    <3> QED
      BY <1>1, <2>1, <3>1 DEF StepOf, Working
  <2> QED
    BY <2>2, <2>3
<1>5. ASSUME NEW c \in Creations, CreationNext(c) PROVE Alone'
  <2>1. StepOf(c) /\ c \in DOMAIN pc
    BY <1>5, CreationFrame, ProcessTypes
  <2>2. CASE Create(c)
    BY <1>2, <2>1, <2>2 DEF Create
  <2>3. CASE ~Create(c)
    <3>1. UNCHANGED raced /\ (Working(c)' => Working(c))
      BY <1>5, <2>1, <2>3
         DEF CreationNext, CreateMatch, CreateFails, FlushList, MayCreate, Goto,
             Working, TypeOK
    <3> QED
      BY <1>1, <2>1, <3>1 DEF StepOf, Working
  <2> QED
    BY <2>2, <2>3
<1> QED
  BY <1>3, <1>4, <1>5 DEF Next

(* A bystander at work sees no row change, unless two writers were.        *)
LEMMA Bystander ==
    ASSUME Alone, NEW p \in DOMAIN pc, StepOf(p), NEW q \in DOMAIN pc, q # p,
           Working(q)
    PROVE  ~raced' => ~raced /\ UNCHANGED <<matches, opponents>>
BY DEF Alone, StepOf

LEMMA BystandingLoad ==
    ASSUME Alone, NEW p \in DOMAIN pc, StepOf(p), NEW m \in Loads, m # p,
           m \in DOMAIN pc, FoundBy(m), ProgressOf(m)
    PROVE  FoundBy(m)' /\ ProgressOf(m)'
<1>1. /\ pc'[m] = pc[m] /\ load'[m] = load[m]
      /\ Current(m)' = Current(m)
      /\ DOMAIN matches \subseteq DOMAIN matches'
      /\ raced => raced'
  BY DEF StepOf, RowsStay, Current
<1>2. pc[m] \in {"row", "write", "clean"} /\ ~raced' =>
        ~raced /\ UNCHANGED <<matches, opponents>>
  BY Bystander DEF Working
<1>3. FoundBy(m)'
  BY <1>1, <1>2 DEF FoundBy, SameMatch
<1>4. ProgressOf(m)'
  BY <1>1, <1>2 DEF ProgressOf, Recorded
<1> QED
  BY <1>3, <1>4

LEMMA BystandingCreation ==
    ASSUME Alone, NEW p \in DOMAIN pc, StepOf(p), NEW c \in Creations, c # p,
           c \in DOMAIN pc, CreationOf(c)
    PROVE  CreationOf(c)'
<1>1. /\ pc'[c] = pc[c] /\ creation'[c] = creation[c]
      /\ raced => raced'
      /\ RowsStay
  BY DEF StepOf
<1>2. pc[c] = "create" /\ ~raced' => UNCHANGED opponents
  BY Bystander DEF Working
<1>3. PICK want : want = creation[c].want
  OBVIOUS
<1>4. ~raced /\ (\E j \in DOMAIN matches : SameDay(matches[j], want))
        => \E j \in DOMAIN matches' : SameDay(matches'[j], want)
  BY <1>1 DEF RowsStay, SameDay
<1> QED
  BY <1>1, <1>2, <1>3, <1>4 DEF CreationOf

LEMMA ElsewhereKeeps ==
    ASSUME Elsewhere, FoundInv, ProgressInv, CreationInv
    PROVE  FoundInv' /\ ProgressInv' /\ CreationInv'
<1>1. FoundInv'
  BY DEF Elsewhere, FoundInv, FoundBy, SameMatch, Current
<1>2. ProgressInv'
  BY DEF Elsewhere, ProgressInv, ProgressOf, Recorded
<1>3. CreationInv'
  BY DEF Elsewhere, CreationInv, CreationOf
<1> QED
  BY <1>1, <1>2, <1>3

-----------------------------------------------------------------------------
(* What a load reads, and how far it is.                                   *)

LEMMA LoadFinds ==
    ASSUME TypeOK, FoundInv, NEW l \in Loads, LoadNext(l)
    PROVE  FoundBy(l)'
<1>1. CASE FindMatch(l)
  <2>1. PICK entry : entry = Current(l)
    OBVIOUS
  <2>2. /\ UNCHANGED <<matches, raced>>
        /\ load[l].at \in Fixtures /\ entry.known
    BY <1>1, <2>1 DEF FindMatch, AtFixture, tables
  <2>3. /\ load'[l].at = load[l].at /\ load'[l].feed = load[l].feed
        /\ \/ /\ load'[l].found = NoRow
              /\ \A j \in DOMAIN matches : ~SameDay(matches[j], entry)
           \/ \E id \in DOMAIN matches :
                /\ SameDay(matches[id], entry)
                /\ load'[l].found = id /\ load'[l].was = matches[id].date
    <3>1. CASE {id \in DOMAIN matches : SameMatch(id, entry)} = {}
               /\ load' = [load EXCEPT ![l].found = NoRow]
      <4>1. \A j \in DOMAIN matches : ~SameDay(matches[j], entry)
        BY <3>1 DEF SameMatch
      <4> QED
        BY <3>1, <4>1 DEF TypeOK, LoadState
    <3>2. ASSUME NEW id \in DOMAIN matches, SameMatch(id, entry),
                 load' = [load EXCEPT ![l].found = id, ![l].was = matches[id].date]
          PROVE  /\ load'[l].at = load[l].at /\ load'[l].feed = load[l].feed
                 /\ SameDay(matches[id], entry)
                 /\ load'[l].found = id /\ load'[l].was = matches[id].date
      BY <3>2 DEF TypeOK, LoadState, SameMatch
    <3> QED
      BY <1>1, <2>1, <3>1, <3>2 DEF FindMatch
  <2>4. Current(l)' = entry
    BY <2>1, <2>3 DEF Current
  <2>5. load'[l].found # NoRow => load'[l].found \in DOMAIN matches
                                  /\ SameDay(matches[load'[l].found], entry)
                                  /\ load'[l].was = matches[load'[l].found].date
    BY <2>3
  <2>6. load'[l].found = NoRow =>
          \A j \in DOMAIN matches : ~SameDay(matches[j], entry)
    BY <2>3, RowKeys, SyncAssumption DEF SyncAssumption
  <2> QED
    BY <2>2, <2>3, <2>4, <2>5, <2>6 DEF FoundBy, SameMatch
<1>2. CASE ~FindMatch(l)
  <2>1. pc'[l] # "write"
    BY <1>2
       DEF LoadNext, Fetch, SkipUnknown, WriteMatch, SyncEnds, SyncFails,
           AnswerLost, FindOwners, End, Crash, Flush, FlushFails, Cleanup, Goto,
           AtFixture, TypeOK
  <2> QED
    BY <2>1 DEF FoundBy
<1> QED
  BY <1>1, <1>2

LEMMA FindKeeps ==
    ASSUME TypeOK, NEW l \in Loads, FindMatch(l)
    PROVE  /\ load'[l].at = load[l].at /\ load'[l].feed = load[l].feed
           /\ load'[l].failing = load[l].failing
<1>1. CASE load' = [load EXCEPT ![l].found = NoRow]
  BY <1>1 DEF TypeOK, LoadState
<1>2. ASSUME NEW id, load' = [load EXCEPT ![l].found = id, ![l].was = matches[id].date]
      PROVE  /\ load'[l].at = load[l].at /\ load'[l].feed = load[l].feed
             /\ load'[l].failing = load[l].failing
  BY <1>2 DEF TypeOK, LoadState
<1> QED
  BY <1>1, <1>2 DEF FindMatch

(* A load that starts is past nothing yet.                                 *)
LEMMA FetchProgress ==
    ASSUME TypeOK, NEW l \in Loads, ProgressOf(l), Fetch(l)
    PROVE  ProgressOf(l)'
<1>1. pc[l] = "idle" /\ load[l] = Fresh /\ pc'[l] = "row"
  BY DEF Fetch, Starts, Goto, ProgressOf, TypeOK
<1>2. load' = [load EXCEPT ![l].feed = feed] /\ load[l] \in LoadState
  BY DEF Fetch, TypeOK
<1>3. /\ load'[l].at = load[l].at /\ load'[l].failing = load[l].failing
  BY <1>2 DEF TypeOK, LoadState
<1>4. load'[l].at = 1 /\ load'[l].failing = FALSE
  BY <1>1, <1>3 DEF Fresh
<1>5. \A f \in Fixtures : ~(f < 1)
  BY DEF Fixtures
<1> QED
  BY <1>1, <1>4, <1>5 DEF ProgressOf

(* A load that only goes on keeps what it has of the fixtures it is past.  *)
LEMMA SameProgress ==
    ASSUME TypeOK, NEW l \in Loads, ProgressOf(l), UNCHANGED <<matches, raced>>,
           pc[l] \in {"row", "write", "clean"}, pc'[l] \in {"row", "write", "clean"},
           load'[l].at = load[l].at, load'[l].feed = load[l].feed,
           load'[l].failing = load[l].failing,
           \/ pc'[l] = "clean" /\ (load[l].at \notin Fixtures \/ load[l].failing)
           \/ pc[l] = "row" /\ pc'[l] = "write"
    PROVE  ProgressOf(l)'
BY DEF ProgressOf, Recorded

(* A load that has failed, or is over, claims nothing.                     *)
LEMMA NoProgress ==
    ASSUME NEW l \in Loads,
           \/ pc'[l] \in {"ok", "unknown", "failed", "dead"}
           \/ pc'[l] = "clean" /\ load'[l].failing
    PROVE  ProgressOf(l)'
BY DEF ProgressOf

LEMMA WriteProgress ==
    ASSUME TypeOK, FoundInv, FeedInv, NEW l \in Loads, ProgressOf(l), WriteMatch(l)
    PROVE  ProgressOf(l)'
<1>1. PICK entry, at, fixtures :
        entry = Current(l) /\ at = load[l].at /\ fixtures = load[l].feed
  OBVIOUS
<1>2. /\ pc[l] = "write" /\ CommitMatch(l) /\ UNCHANGED raced /\ pc'[l] = "row"
      /\ at \in Fixtures /\ entry = fixtures[at] /\ entry.known
  BY <1>1 DEF WriteMatch, FoundInv, FoundBy, Goto, TypeOK, Current
<1>3. /\ load'[l].at = at + 1 /\ load'[l].feed = fixtures
      /\ load'[l].failing = load[l].failing
  <2>1. PICK pushed \in LoadState :
          /\ pushed = Pushed(l) /\ pushed.at = at /\ pushed.feed = fixtures
          /\ pushed.failing = load[l].failing
    BY <1>1, <1>2, PushedType
  <2>2. load' = [load EXCEPT ![l] =
                  [pushed EXCEPT !.at = pushed.at + 1, !.found = NoRow, !.was = 0]]
    BY <2>1 DEF WriteMatch
  <2>3. load'[l] = [pushed EXCEPT !.at = pushed.at + 1, !.found = NoRow, !.was = 0]
    BY <2>2 DEF TypeOK
  <2> QED
    BY <2>1, <2>3 DEF LoadState
<1>4. ~raced =>
        /\ Recorded(entry)'
        /\ DOMAIN matches \subseteq DOMAIN matches'
        /\ \A j \in DOMAIN matches :
             matches'[j] = matches[j] \/ SameDay(matches[j], entry)
  BY <1>1, <1>2, Committed
<1>5. ~raced => \A f \in Fixtures :
         f < at /\ fixtures[f].known => Recorded(fixtures[f])
  BY <1>1, <1>2 DEF ProgressOf
<1>6. ASSUME ~raced, NEW f \in Fixtures, f < at + 1, fixtures[f].known
      PROVE  Recorded(fixtures[f])'
  <2>1. CASE f = at
    BY <1>2, <1>4, <1>6, <2>1
  <2>2. CASE f # at
    <3>1. f < at
      BY <1>2, <1>6, <2>2 DEF Fixtures
    <3>2. ~SameDay(fixtures[f], entry)
      BY <1>1, <1>2, <1>6, <2>2 DEF FeedInv, OncePerDay
    <3>3. PICK id \in DOMAIN matches :
            /\ matches[id].opponent = fixtures[f].opponent
            /\ matches[id].date = fixtures[f].date
            /\ matches[id].atHome = fixtures[f].atHome
            /\ fixtures[f].played => matches[id].played
      BY <1>5, <1>6, <3>1 DEF Recorded
    <3>4. ~SameDay(matches[id], entry)
      BY <3>2, <3>3 DEF SameDay
    <3>5. id \in DOMAIN matches' /\ matches'[id] = matches[id]
      BY <1>4, <1>6, <3>3, <3>4
    <3> QED
      BY <3>3, <3>5 DEF Recorded
  <2> QED
    BY <2>1, <2>2
<1>7. ~load[l].failing
  BY <1>2 DEF ProgressOf
<1>8. ~raced' => \A f \in Fixtures :
         f < load'[l].at /\ load'[l].feed[f].known => Recorded(load[l].feed[f])'
  <2>1. ASSUME ~raced, NEW f \in Fixtures, f < load'[l].at, load'[l].feed[f].known
        PROVE  Recorded(load[l].feed[f])'
    <3>1. Recorded(fixtures[f])'
      BY <1>3, <1>6, <2>1
    <3> QED
      BY <1>3, <3>1 DEF Recorded
  <2> QED
    BY <1>2, <2>1
<1> QED
  BY <1>2, <1>3, <1>7, <1>8 DEF ProgressOf

LEMMA LoadProgress ==
    ASSUME TypeOK, FoundInv, FeedInv, NEW l \in Loads, ProgressOf(l), LoadNext(l)
    PROVE  ProgressOf(l)'
<1> USE DEF tables, provider
<1>1. CASE Fetch(l)
  BY <1>1, FetchProgress
<1>2. CASE SkipUnknown(l)
  <2>1. /\ UNCHANGED <<matches, raced, pc>> /\ pc[l] = "row"
        /\ load[l].at \in Fixtures /\ ~load[l].feed[load[l].at].known
    BY <1>2 DEF SkipUnknown, AtFixture, Current
  <2>2. /\ load'[l].at = load[l].at + 1 /\ load'[l].feed = load[l].feed
        /\ load'[l].failing = load[l].failing
    BY <1>2 DEF SkipUnknown, TypeOK, LoadState
  <2>3. \A f \in Fixtures : f < load[l].at + 1 => f < load[l].at \/ f = load[l].at
    BY <2>1 DEF Fixtures
  <2> QED
    BY <2>1, <2>2, <2>3 DEF ProgressOf, Recorded
<1>3. CASE FindMatch(l)
  <2>1. /\ load'[l].at = load[l].at /\ load'[l].feed = load[l].feed
        /\ load'[l].failing = load[l].failing
    BY <1>3, FindKeeps
  <2> QED
    BY <1>3, <2>1, SameProgress DEF FindMatch, AtFixture, Goto, TypeOK
<1>4. CASE WriteMatch(l)
  BY <1>4, WriteProgress
<1>5. CASE SyncEnds(l)
  <2>1. PICK state \in LoadState :
          state = load[l] /\ state.moved \subseteq state.updated
    BY DEF TypeOK
  <2>2. Cleanup(l, state)
    BY <1>5, <2>1 DEF SyncEnds
  <2>3. /\ pc' = [pc EXCEPT ![l] = "clean"] /\ UNCHANGED raced
        /\ load'[l].at = load[l].at /\ load'[l].feed = load[l].feed
        /\ load'[l].failing = load[l].failing
    BY <2>1, <2>2, CleanupStarts
  <2> QED
    BY <1>5, <2>3, SameProgress DEF SyncEnds, TypeOK
<1>6. ASSUME NEW state \in LoadState, state.moved \subseteq state.updated,
             Cleanup(l, Failing(state))
      PROVE  ProgressOf(l)'
  <2>1. PICK failing \in LoadState :
          /\ failing = Failing(state) /\ failing.moved \subseteq failing.updated
          /\ failing.failing
    BY <1>6, FailingType
  <2>2. pc' = [pc EXCEPT ![l] = "clean"] /\ load'[l].failing
    BY <1>6, <2>1, CleanupStarts
  <2> QED
    BY <2>2, NoProgress DEF TypeOK
<1>7. CASE SyncFails(l)
  <2>1. PICK state \in LoadState :
          state = load[l] /\ state.moved \subseteq state.updated
    BY DEF TypeOK
  <2> QED
    BY <1>6, <1>7, <2>1 DEF SyncFails
<1>8. CASE AnswerLost(l)
  <2>1. PICK state \in LoadState :
          state = Pushed(l) /\ state.moved \subseteq state.updated
    BY <1>8, PushedType DEF AnswerLost
  <2> QED
    BY <1>6, <1>8, <2>1 DEF AnswerLost
<1>9. ASSUME pc[l] = "clean", UNCHANGED <<pc, matches, raced>>,
             NEW left, load' = [load EXCEPT ![l].todo = left]
      PROVE  ProgressOf(l)'
  <2>1. /\ load'[l].at = load[l].at /\ load'[l].feed = load[l].feed
        /\ load'[l].failing = load[l].failing
    BY <1>9 DEF TypeOK, LoadState
  <2> QED
    BY <1>9, <2>1, SameProgress DEF ProgressOf
<1>10. CASE FindOwners(l)
  BY <1>9, <1>10 DEF FindOwners
<1>11. ASSUME NEW k \in Keys, Flush(l, k) PROVE ProgressOf(l)'
  BY <1>9, <1>11 DEF Flush
<1>12. ASSUME NEW k \in Keys \union {Owners}, FlushFails(l, k) PROVE ProgressOf(l)'
  BY <1>12, NoProgress DEF FlushFails, TypeOK, LoadState
<1>13. CASE End(l)
  BY <1>13, NoProgress DEF End, Goto, TypeOK
<1>14. CASE Crash(l)
  BY <1>14, NoProgress DEF Crash, Goto, TypeOK
<1> QED
  BY <1>1, <1>2, <1>3, <1>4, <1>5, <1>7, <1>8, <1>10, <1>11, <1>12, <1>13, <1>14
     DEF LoadNext

(* An answer of a creation is about a match on its day.                    *)
LEMMA CreationAnswers ==
    ASSUME TypeOK, NEW c \in Creations, CreationOf(c), CreationNext(c)
    PROVE  CreationOf(c)'
<1> USE DEF tables, provider, Goto
<1>1. PICK want : want = creation[c].want
  OBVIOUS
<1>2. CASE Create(c)
  <2>1. PICK entry \in ByHand :
          creation' = [creation EXCEPT ![c] =
                        [saw |-> entry.opponent \in opponents, want |-> entry]]
    BY <1>2 DEF Create
  <2>2. PICK saw : saw = (entry.opponent \in opponents)
    OBVIOUS
  <2>3. creation'[c].want = entry
        /\ (~creation'[c].saw => entry.opponent \notin opponents)
    <3>1. creation' = [creation EXCEPT ![c] = [saw |-> saw, want |-> entry]]
      BY <2>1, <2>2, Zenon
    <3>2. creation'[c].saw = saw /\ creation'[c].want = entry
      BY <3>1 DEF TypeOK
    <3> QED
      BY <2>2, <3>2, Zenon
  <2>4. pc'[c] = "create" /\ UNCHANGED opponents
    BY <1>2 DEF Create, TypeOK
  <2> QED
    BY <2>3, <2>4 DEF CreationOf
<1>3. CASE CreateMatch(c)
  <2>1. UNCHANGED <<creation, raced>> /\ pc[c] = "create"
    BY <1>3 DEF CreateMatch, MayCreate
  <2>2. CASE Refused(c) /\ Goto(c, "ok") /\ UNCHANGED <<tables, cache>>
    <3>1. ~raced => Taken(want, NoRow)
      BY <1>1, <2>1, <2>2 DEF Refused, CreationOf
    <3>2. ~raced => \E id \in DOMAIN matches : SameDay(matches[id], want)
      BY <3>1 DEF Taken, SameDay
    <3>3. pc'[c] = "ok"
      BY <2>2 DEF TypeOK
    <3> QED
      BY <1>1, <2>1, <2>2, <3>2, <3>3 DEF CreationOf
  <2>3. CASE CommitCreated(c) /\ Goto(c, "flush")
    <3>1. \E id \in DOMAIN matches' : SameDay(matches'[id], want)
      BY <1>1, <2>3, Created
    <3>2. pc'[c] = "flush"
      BY <2>3 DEF TypeOK
    <3> QED
      BY <1>1, <2>1, <3>1, <3>2 DEF CreationOf
  <2> QED
    BY <1>3, <2>2, <2>3 DEF CreateMatch
<1>4. CASE CreateFails(c)
  <2>1. pc'[c] = "failed"
    BY <1>4 DEF CreateFails, TypeOK
  <2> QED
    BY <2>1 DEF CreationOf
<1>5. CASE FlushList(c)
  <2>1. /\ UNCHANGED <<matches, creation, raced>>
        /\ pc[c] = "flush" /\ pc'[c] \in {"ok", "failed"}
    BY <1>5 DEF FlushList, TypeOK
  <2> QED
    BY <2>1 DEF CreationOf
<1> QED
  BY <1>2, <1>3, <1>4, <1>5 DEF CreationNext

-----------------------------------------------------------------------------
(* Feeds and rows.                                                         *)

LEMMA FeedStep ==
    ASSUME TypeOK, FoundInv, FeedInv, Next
    PROVE  FeedInv'
<1>1. ASSUME NEW f \in Fixtures, Revise(f) PROVE FeedInv'
  <2>1. PICK entries \in [Fixtures -> Entries] : entries = feed
    BY DEF TypeOK
  <2>2. UNCHANGED load
    BY <1>1 DEF Revise
  <2>3. OncePerDay(feed')
    <3>1. ASSUME NEW d \in Dates, feed' = [entries EXCEPT ![f].date = d],
                 \A g \in Fixtures \ {f} :
                   entries[g].opponent = entries[f].opponent
                   => Day(entries[g].date) # Day(d)
          PROVE  OncePerDay(feed')
      <4>1. /\ feed'[f].opponent = entries[f].opponent /\ feed'[f].date = d
            /\ \A g \in Fixtures \ {f} : feed'[g] = entries[g]
        BY <3>1 DEF Entries
      <4> QED
        BY <2>1, <3>1, <4>1 DEF FeedInv, OncePerDay, SameDay
    <3>2. ASSUME feed' = [entries EXCEPT ![f].played = TRUE]
          PROVE  OncePerDay(feed')
      <4>1. \A g \in Fixtures : /\ feed'[g].opponent = entries[g].opponent
                                /\ feed'[g].date = entries[g].date
                                /\ feed'[g].known = entries[g].known
        BY <3>2 DEF Entries
      <4> QED
        BY <2>1, <4>1 DEF FeedInv, OncePerDay, SameDay
    <3>3. ASSUME feed' = [entries EXCEPT ![f].atHome = ~entries[f].atHome]
          PROVE  OncePerDay(feed')
      <4>1. \A g \in Fixtures : /\ feed'[g].opponent = entries[g].opponent
                                /\ feed'[g].date = entries[g].date
                                /\ feed'[g].known = entries[g].known
        BY <3>3 DEF Entries
      <4> QED
        BY <2>1, <4>1 DEF FeedInv, OncePerDay, SameDay
    <3> QED
      BY <1>1, <2>1, <3>1, <3>2, <3>3 DEF Revise
  <2> QED
    BY <2>2, <2>3 DEF FeedInv, OncePerDay
<1>2. CASE UNCHANGED <<feed, load>>
  BY <1>2 DEF FeedInv, OncePerDay
<1>3. ASSUME NEW l \in Loads, LoadNext(l) PROVE FeedInv'
  <2>1. UNCHANGED feed
    BY <1>3
       DEF LoadNext, Fetch, SkipUnknown, FindMatch, WriteMatch, SyncEnds, SyncFails,
           AnswerLost, FindOwners, End, Crash, Flush, FlushFails, CommitMatch,
           provider
  <2>2. \A m \in Loads \ {l} : load'[m] = load[m]
    BY <1>3, LoadFrame DEF StepOf
  <2>3. load'[l].feed \in {feed, load[l].feed, Calendar}
    <3>1. load[l] \in LoadState
      BY DEF TypeOK
    <3>2. ASSUME NEW state \in LoadState, state.feed = load[l].feed,
                 state.moved \subseteq state.updated, Cleanup(l, state)
          PROVE  load'[l].feed = load[l].feed
      BY <3>2, CleanupStarts
    <3>3. CASE SyncEnds(l)
      BY <3>1, <3>2, <3>3 DEF SyncEnds, TypeOK
    <3>4. CASE SyncFails(l)
      <4>1. PICK failing \in LoadState :
              /\ failing = Failing(load[l]) /\ failing.feed = load[l].feed
              /\ failing.moved \subseteq failing.updated
        BY <3>1, FailingType DEF TypeOK
      <4> QED
        BY <3>2, <3>4, <4>1 DEF SyncFails
    <3>5. CASE AnswerLost(l)
      <4>1. PICK pushed \in LoadState :
              /\ pushed = Pushed(l) /\ pushed.feed = load[l].feed
              /\ pushed.moved \subseteq pushed.updated
        BY <3>5, PushedType DEF AnswerLost
      <4>2. PICK failing \in LoadState :
              /\ failing = Failing(pushed) /\ failing.feed = load[l].feed
              /\ failing.moved \subseteq failing.updated
        BY <4>1, FailingType
      <4> QED
        BY <3>2, <3>5, <4>1, <4>2 DEF AnswerLost
    <3>6. CASE WriteMatch(l)
      <4>1. PICK pushed \in LoadState :
              pushed = Pushed(l) /\ pushed.feed = load[l].feed
        BY <3>6, PushedType DEF WriteMatch
      <4>2. load'[l] = [pushed EXCEPT !.at = pushed.at + 1, !.found = NoRow,
                                      !.was = 0]
        BY <3>6, <4>1 DEF WriteMatch, TypeOK
      <4> QED
        BY <4>1, <4>2 DEF LoadState
    <3>7. CASE End(l) \/ Crash(l)
      <4>1. load'[l] = Fresh
        BY <3>7 DEF End, Crash, Forget, TypeOK
      <4> QED
        BY <4>1 DEF Fresh
    <3>8. CASE Fetch(l)
      BY <3>8 DEF Fetch, TypeOK, LoadState
    <3>9. CASE SkipUnknown(l)
      BY <3>9 DEF SkipUnknown, TypeOK, LoadState
    <3>10. CASE FindMatch(l)
      BY <3>10, FindKeeps
    <3>11. ASSUME NEW k, FindOwners(l) \/ Flush(l, k) \/ FlushFails(l, k)
           PROVE  load'[l].feed = load[l].feed
      BY <3>11 DEF FindOwners, Flush, FlushFails, TypeOK, LoadState
    <3> QED
      BY <1>3, <3>3, <3>4, <3>5, <3>6, <3>7, <3>8, <3>9, <3>10, <3>11
         DEF LoadNext
  <2> QED
    BY <2>1, <2>2, <2>3, SyncAssumption DEF FeedInv, OncePerDay, SyncAssumption
<1>4. ASSUME NEW c \in Creations, CreationNext(c) PROVE UNCHANGED <<feed, load>>
  BY <1>4 DEF CreationNext, Create, CreateMatch, CreateFails, FlushList, provider
<1>5. ASSUME OthersNext
      PROVE  UNCHANGED <<feed, load>> \/ \E f \in Fixtures : Revise(f)
  BY <1>5 DEF OthersNext, Read, ListSale, RemoveSale, provider
<1> QED
  BY <1>1, <1>2, <1>3, <1>4, <1>5 DEF Next

LEMMA OneRowStep ==
    ASSUME TypeOK, FoundInv, OneRowPerDay, Next
    PROVE  OneRowPerDay'
<1>1. ASSUME UNCHANGED matches, raced => raced',
             \A c \in Creations : pc'[c] = "idle" => pc[c] = "idle"
      PROVE  OneRowPerDay'
  BY <1>1 DEF OneRowPerDay
<1>2. CASE OthersNext
  BY <1>1, <1>2, OthersFrame DEF Elsewhere
<1>3. ASSUME NEW l \in Loads, LoadNext(l) PROVE OneRowPerDay'
  <2>1. /\ raced => raced'
        /\ \A c \in Creations : pc'[c] = pc[c]
    BY <1>3, LoadFrame, ProcessTypes DEF StepOf
  <2>2. ASSUME pc[l] = "write", CommitMatch(l) PROVE OneRowPerDay'
    <3>1. PICK entry : entry = Current(l)
      OBVIOUS
    <3>2. ~raced => \A i, j \in DOMAIN matches' :
             SameDay(matches'[i], matches'[j])
             /\ (\A m, n \in DOMAIN matches : SameDay(matches[m], matches[n]) => m = n)
             => i = j
      BY <2>2, <3>1, Committed
    <3> QED
      BY <2>1, <3>2 DEF OneRowPerDay
  <2>3. \/ pc[l] = "write" /\ CommitMatch(l)
        \/ UNCHANGED matches
    BY <1>3 DEF LoadNext, Fetch, SkipUnknown, FindMatch, WriteMatch, SyncEnds,
                SyncFails, AnswerLost, FindOwners, End, Crash, Flush, FlushFails,
                tables
  <2> QED
    BY <1>1, <2>1, <2>2, <2>3
<1>4. ASSUME NEW c \in Creations, CreationNext(c) PROVE OneRowPerDay'
  <2>1. pc'[c] # "idle"
    BY <1>4 DEF CreationNext, Create, CreateMatch, CreateFails, FlushList, Goto,
                TypeOK
  <2> QED
    BY <2>1 DEF OneRowPerDay
<1> QED
  BY <1>2, <1>3, <1>4 DEF Next

LEMMA ProcessesStep ==
    ASSUME TypeOK, Alone, FeedInv, FoundInv, ProgressInv, CreationInv, Next
    PROVE  FoundInv' /\ ProgressInv' /\ CreationInv'
<1>1. CASE OthersNext
  BY <1>1, OthersFrame, ElsewhereKeeps
<1>2. ASSUME NEW l \in Loads, LoadNext(l)
      PROVE  FoundInv' /\ ProgressInv' /\ CreationInv'
  <2>1. /\ StepOf(l) /\ l \in DOMAIN pc
        /\ \A m \in Loads : m \in DOMAIN pc
        /\ \A c \in Creations : c \in DOMAIN pc /\ c # l
    BY <1>2, LoadFrame, ProcessTypes
  <2>2. FoundBy(l)' /\ ProgressOf(l)'
    BY <1>2, LoadFinds, LoadProgress DEF ProgressInv
  <2>3. \A m \in Loads \ {l} : FoundBy(m)' /\ ProgressOf(m)'
    BY <2>1, BystandingLoad DEF FoundInv, ProgressInv
  <2>4. \A c \in Creations : CreationOf(c)'
    BY <2>1, BystandingCreation DEF CreationInv
  <2> QED
    BY <2>2, <2>3, <2>4 DEF FoundInv, ProgressInv, CreationInv
<1>3. ASSUME NEW c \in Creations, CreationNext(c)
      PROVE  FoundInv' /\ ProgressInv' /\ CreationInv'
  <2>1. /\ StepOf(c) /\ c \in DOMAIN pc
        /\ \A m \in Loads : m \in DOMAIN pc /\ m # c
        /\ \A d \in Creations : d \in DOMAIN pc
    BY <1>3, CreationFrame, ProcessTypes
  <2>2. CreationOf(c)'
    BY <1>3, CreationAnswers DEF CreationInv
  <2>3. \A m \in Loads : FoundBy(m)' /\ ProgressOf(m)'
    BY <2>1, BystandingLoad DEF FoundInv, ProgressInv
  <2>4. \A d \in Creations \ {c} : CreationOf(d)'
    BY <2>1, BystandingCreation DEF CreationInv
  <2> QED
    BY <2>2, <2>3, <2>4 DEF FoundInv, ProgressInv, CreationInv
<1> QED
  BY <1>1, <1>2, <1>3 DEF Next

-----------------------------------------------------------------------------
(* Flushes.                                                                *)

Concerned(k, ids) == \E u \in Users, id \in ids : k = Sales(u) /\ <<u, id>> \in listed

(* What a load has to flush of what it has done, and what it has left.     *)
Due(state, k) ==
    \/ k = List
    \/ \E id \in state.updated : k = Entry(id)
    \/ Concerned(k, state.moved)
Left(state, k) ==
    \/ k \in state.todo \ {Owners}
    \/ Owners \in state.todo /\ Concerned(k, state.moved)

Cause(k) ==
    \/ \E l \in Loads : k \in ToFlush(l)
    \/ k = List /\ \E c \in Creations : pc[c] = "flush"
    \/ raced /\ \E u \in Users : k = Sales(u)

LEMMA NoKey ==
    /\ List # Owners
    /\ \A id : Entry(id) # Owners
    /\ \A u : Sales(u) # Owners
BY DEF List, Entry, Sales, Owners

LEMMA MeantByLoad ==
    ASSUME NEW l \in Loads, NEW steps, NEW k
    PROVE  k \in Meant(l, steps) <=>
             \/ k \in steps \ {Owners}
             \/ Owners \in steps /\ Concerned(k, load[l].moved)
<1>1. k \in SalesOf(l) <=> Concerned(k, load[l].moved)
  BY DEF SalesOf, OwnersOf, Concerned
<1> QED
  BY <1>1 DEF Meant

(* A cleanup flushes what is due.                                          *)
LEMMA CleanupDue ==
    ASSUME NEW state, NEW k
    PROVE  Due(state, k) <=>
             \/ k \in CleanupOf(state) \ {Owners}
             \/ Owners \in CleanupOf(state) /\ Concerned(k, state.moved)
<1>1. Concerned(k, state.moved) => state.moved # {}
  BY DEF Concerned
<1>2. Owners \in CleanupOf(state) <=> state.moved # {}
  BY NoKey DEF CleanupOf
<1>3. k \in CleanupOf(state) \ {Owners} <=>
        k = List \/ \E id \in state.updated : k = Entry(id)
  BY NoKey DEF CleanupOf
<1> QED
  BY <1>1, <1>2, <1>3 DEF Due

LEMMA Flushed ==
    ASSUME NEW l \in Loads, NEW k
    PROVE  k \in ToFlush(l) <=>
             \/ pc[l] \in {"row", "write"} /\ Due(load[l], k)
             \/ pc[l] = "clean" /\ Left(load[l], k)
<1>1. CASE pc[l] \in {"row", "write"}
  <2>1. ToFlush(l) = Meant(l, CleanupOf(load[l]))
    BY <1>1 DEF ToFlush
  <2>2. PICK steps, state : steps = CleanupOf(load[l]) /\ state = load[l]
    OBVIOUS
  <2>3. k \in Meant(l, steps) <=>
          k \in steps \ {Owners} \/ (Owners \in steps /\ Concerned(k, state.moved))
    BY <2>2, MeantByLoad
  <2>4. Due(state, k) <=>
          k \in steps \ {Owners} \/ (Owners \in steps /\ Concerned(k, state.moved))
    BY <2>2, CleanupDue
  <2> QED
    BY <1>1, <2>1, <2>2, <2>3, <2>4
<1>2. CASE pc[l] = "clean"
  <2>1. ToFlush(l) = Meant(l, load[l].todo)
    BY <1>2 DEF ToFlush
  <2> QED
    BY <1>2, <2>1, MeantByLoad DEF Left
<1>3. CASE pc[l] \notin {"row", "write", "clean"}
  <2>1. ToFlush(l) = {}
    BY <1>3 DEF ToFlush
  <2> QED
    BY <1>3, <2>1
<1> QED
  BY <1>1, <1>2, <1>3

LEMMA FlushedThen ==
    ASSUME NEW l \in Loads, NEW k
    PROVE  (k \in ToFlush(l) <=>
             \/ pc[l] \in {"row", "write"} /\ Due(load[l], k)
             \/ pc[l] = "clean" /\ Left(load[l], k))'
BY Flushed, PTL

(* The sales of a user are known to a load as long as they are listed.     *)
LEMMA ConcernStays ==
    ASSUME NEW k, NEW ids, listed \subseteq listed'
    PROVE  Concerned(k, ids) => Concerned(k, ids)'
BY DEF Concerned

(* The cause of a stale copy stays, when the load that would flush it goes *)
(* on with that.                                                           *)
LEMMA CauseStays ==
    ASSUME StaleCopyHasCause, NEW l \in Loads, StepOf(l), LoadNext(l),
           TypeOK, UNCHANGED listed, NEW k \in Keys, cache[k] = "stale",
           k \in ToFlush(l) => k \in ToFlush(l)'
    PROVE  Cause(k)'
<1>1. Cause(k)
  BY DEF StaleCopyHasCause, Cause
<1>2. \A m \in Loads \ {l} : pc'[m] = pc[m] /\ load'[m] = load[m]
  BY ProcessTypes DEF StepOf
<1>3. \A c \in Creations : pc'[c] = pc[c]
  BY ProcessTypes DEF StepOf
<1>4. \A m \in Loads \ {l} : k \in ToFlush(m) => k \in ToFlush(m)'
  BY <1>2 DEF ToFlush, Meant, SalesOf, OwnersOf, CleanupOf
<1>5. raced => raced'
  BY DEF StepOf
<1> QED
  BY <1>1, <1>3, <1>4, <1>5 DEF Cause

(* A load that only goes on will flush what it would have flushed.         *)
LEMMA WorkGoesOn ==
    ASSUME NEW l \in Loads, UNCHANGED listed, NEW k,
           load'[l].updated = load[l].updated, load'[l].moved = load[l].moved,
           \/ pc[l] \in {"row", "write"} /\ pc'[l] \in {"row", "write"}
           \/ /\ pc[l] \in {"row", "write"} /\ pc'[l] = "clean"
              /\ load'[l].todo = CleanupOf(load[l])
    PROVE  k \in ToFlush(l) => k \in ToFlush(l)'
<1> SUFFICES ASSUME k \in ToFlush(l) PROVE k \in ToFlush(l)'
  OBVIOUS
<1>1. Due(load[l], k)
  BY Flushed
<1>2. CASE pc'[l] \in {"row", "write"}
  <2>1. Due(load[l], k)'
    BY <1>1 DEF Due, Concerned
  <2> QED
    BY <1>2, <2>1, FlushedThen
<1>3. CASE pc'[l] = "clean" /\ load'[l].todo = CleanupOf(load[l])
  <2>1. PICK state : state = load[l]
    OBVIOUS
  <2>2. \/ k \in CleanupOf(state) \ {Owners}
        \/ Owners \in CleanupOf(state) /\ Concerned(k, state.moved)
    BY <1>1, <2>1, CleanupDue
  <2>3. Left(load[l], k)'
    BY <1>3, <2>1, <2>2 DEF Left, Concerned
  <2> QED
    BY <1>3, <2>3, FlushedThen
<1> QED
  BY <1>2, <1>3

(* What a transaction outdates is pushed for the cleanup, in WriteMatch    *)
(* and when its answer is lost.                                            *)
LEMMA PushedIsDue ==
    ASSUME TypeOK, FoundInv, NEW l \in Loads, pc[l] = "write", CommitMatch(l),
           NEW k \in Keys, cache'[k] = "stale",
           NEW pushed, pushed = Pushed(l)
    PROVE  \/ cache[k] = "stale" /\ (Due(load[l], k) => Due(pushed, k))
           \/ Due(pushed, k)
           \/ raced /\ \E u \in Users : k = Sales(u)
<1>1. PICK id, entry, up, mo :
        /\ id = load[l].found /\ entry = Current(l)
        /\ up = load[l].updated /\ mo = load[l].moved
  OBVIOUS
<1>2. /\ up \subseteq pushed.updated /\ mo \subseteq pushed.moved
      /\ id # NoRow => id \in pushed.updated
      /\ id # NoRow /\ load[l].was # entry.date => id \in pushed.moved
  BY <1>1, PushedType
<1>3. Due(load[l], k) => Due(pushed, k)
  BY <1>1, <1>2 DEF Due, Concerned
<1>4. CASE cache[k] = "stale"
  BY <1>3, <1>4
<1>5. CASE cache[k] # "stale"
  <2>1. \/ k = List
        \/ id # NoRow /\ k = Entry(id)
        \/ /\ id # NoRow /\ matches[id].date # entry.date
           /\ \E u \in OwnersOf({id}) : k = Sales(u)
    BY <1>1, <1>5 DEF CommitMatch, Outdate, Become, UpdateCopies, Copies
  <2>2. CASE k = List \/ (id # NoRow /\ k = Entry(id))
    BY <1>2, <2>2 DEF Due
  <2>3. CASE /\ id # NoRow /\ matches[id].date # entry.date
             /\ \E u \in OwnersOf({id}) : k = Sales(u)
    <3>1. ~raced => id \in pushed.moved
      BY <1>1, <1>2, <2>3 DEF FoundInv, FoundBy
    <3>2. \E u \in Users : k = Sales(u) /\ <<u, id>> \in listed
      BY <2>3 DEF OwnersOf
    <3> QED
      BY <3>1, <3>2 DEF Due, Concerned
  <2> QED
    BY <2>1, <2>2, <2>3
<1> QED
  BY <1>4, <1>5

LEMMA StaleLoad ==
    ASSUME TypeOK, FoundInv, ProgressInv, StaleCopyHasCause, NEW l \in Loads,
           LoadNext(l), NEW k \in Keys, cache'[k] = "stale"
    PROVE  Cause(k)'
<1> USE DEF tables, provider
<1>1. StepOf(l)
  BY LoadFrame
<1>2. ASSUME UNCHANGED listed, cache[k] = "stale",
             k \in ToFlush(l) => k \in ToFlush(l)'
      PROVE  Cause(k)'
  BY <1>1, <1>2, CauseStays
<1>3. CASE Fetch(l)
  <2>1. k \notin ToFlush(l)
    BY <1>3, Flushed DEF Fetch, Starts
  <2> QED
    BY <1>2, <1>3, <2>1 DEF Fetch
<1>4. CASE SkipUnknown(l)
  <2>1. load'[l].updated = load[l].updated /\ load'[l].moved = load[l].moved
    BY <1>4 DEF SkipUnknown, TypeOK, LoadState
  <2> QED
    BY <1>2, <1>4, <2>1, WorkGoesOn DEF SkipUnknown, AtFixture
<1>5. CASE FindMatch(l)
  <2>1. load'[l].updated = load[l].updated /\ load'[l].moved = load[l].moved
    <3>1. CASE load' = [load EXCEPT ![l].found = NoRow]
      BY <3>1 DEF TypeOK, LoadState
    <3>2. ASSUME NEW id,
                 load' = [load EXCEPT ![l].found = id, ![l].was = matches[id].date]
          PROVE  load'[l].updated = load[l].updated /\ load'[l].moved = load[l].moved
      BY <3>2 DEF TypeOK, LoadState
    <3> QED
      BY <1>5, <3>1, <3>2 DEF FindMatch
  <2>2. pc[l] = "row" /\ pc'[l] = "write" /\ UNCHANGED <<listed, cache>>
    BY <1>5 DEF FindMatch, AtFixture, Goto, TypeOK
  <2> QED
    BY <1>2, <2>1, <2>2, WorkGoesOn
<1>6. ASSUME pc[l] = "write", CommitMatch(l), NEW pushed, pushed = Pushed(l),
             Due(pushed, k) => k \in ToFlush(l)'
      PROVE  Cause(k)'
  <2>1. UNCHANGED listed
    BY <1>6, CommitTypes
  <2>2. k \in ToFlush(l) => Due(load[l], k)
    BY <1>6, Flushed
  <2>3. CASE cache[k] = "stale" /\ (Due(load[l], k) => Due(pushed, k))
    BY <1>2, <1>6, <2>1, <2>2, <2>3
  <2>4. CASE Due(pushed, k)
    BY <1>6, <2>4 DEF Cause
  <2>5. CASE raced /\ \E u \in Users : k = Sales(u)
    BY <1>1, <2>5 DEF Cause, StepOf
  <2> QED
    BY <1>6, <2>3, <2>4, <2>5, PushedIsDue
<1>7. CASE WriteMatch(l)
  <2>1. PICK pushed \in LoadState : pushed = Pushed(l)
    BY <1>7, PushedType DEF WriteMatch
  <2>2. pc[l] = "write" /\ CommitMatch(l) /\ pc'[l] = "row"
    BY <1>7 DEF WriteMatch, Goto, TypeOK
  <2>3. load'[l].updated = pushed.updated /\ load'[l].moved = pushed.moved
    <3>1. load'[l] = [pushed EXCEPT !.at = pushed.at + 1, !.found = NoRow, !.was = 0]
      BY <1>7, <2>1 DEF WriteMatch, TypeOK
    <3> QED
      BY <2>1, <3>1 DEF LoadState
  <2>4. UNCHANGED listed
    BY <2>2, CommitTypes
  <2>5. Due(pushed, k) => Due(load[l], k)'
    BY <2>3, <2>4 DEF Due, Concerned
  <2>6. Due(pushed, k) => k \in ToFlush(l)'
    BY <2>2, <2>5, FlushedThen
  <2> QED
    BY <1>6, <2>1, <2>2, <2>6
<1>8. CASE SyncEnds(l)
  <2>1. PICK state \in LoadState :
          state = load[l] /\ state.moved \subseteq state.updated
    BY DEF TypeOK
  <2>2. Cleanup(l, state) /\ pc[l] = "row" /\ UNCHANGED <<listed, cache>>
    BY <1>8, <2>1 DEF SyncEnds
  <2>3. /\ pc' = [pc EXCEPT ![l] = "clean"]
        /\ load'[l].updated = state.updated /\ load'[l].moved = state.moved
        /\ load'[l].todo = CleanupOf(state)
    BY <2>1, <2>2, CleanupStarts
  <2>4. pc'[l] = "clean"
    BY <2>3 DEF TypeOK
  <2> QED
    BY <1>2, <2>1, <2>2, <2>3, <2>4, WorkGoesOn
<1>9. CASE SyncFails(l)
  <2>1. PICK state \in LoadState :
          state = load[l] /\ state.moved \subseteq state.updated
    BY DEF TypeOK
  <2>2. PICK failing \in LoadState :
          /\ failing = Failing(state) /\ failing.moved \subseteq failing.updated
          /\ failing.updated = state.updated /\ failing.moved = state.moved
    BY <2>1, FailingType
  <2>3. Cleanup(l, failing) /\ pc[l] \in {"row", "write"} /\ UNCHANGED <<listed, cache>>
    BY <1>9, <2>1, <2>2 DEF SyncFails, AtFixture
  <2>4. /\ pc' = [pc EXCEPT ![l] = "clean"]
        /\ load'[l].updated = state.updated /\ load'[l].moved = state.moved
        /\ load'[l].todo = CleanupOf(state)
    BY <2>2, <2>3, CleanupStarts DEF CleanupOf
  <2>5. pc'[l] = "clean"
    BY <2>4 DEF TypeOK
  <2> QED
    BY <1>2, <2>1, <2>3, <2>4, <2>5, WorkGoesOn
<1>10. CASE AnswerLost(l)
  <2>1. PICK pushed \in LoadState :
          pushed = Pushed(l) /\ pushed.moved \subseteq pushed.updated
    BY <1>10, PushedType DEF AnswerLost
  <2>2. PICK failing \in LoadState :
          /\ failing = Failing(pushed) /\ failing.moved \subseteq failing.updated
          /\ failing.updated = pushed.updated /\ failing.moved = pushed.moved
    BY <2>1, FailingType
  <2>3. pc[l] = "write" /\ CommitMatch(l) /\ Cleanup(l, failing)
    BY <1>10, <2>1, <2>2 DEF AnswerLost
  <2>4. /\ pc' = [pc EXCEPT ![l] = "clean"]
        /\ load'[l].moved = failing.moved /\ load'[l].todo = CleanupOf(failing)
    BY <2>2, <2>3, CleanupStarts
  <2>5. pc'[l] = "clean" /\ UNCHANGED listed
    BY <2>3, <2>4, CommitTypes DEF TypeOK
  <2>6. Due(pushed, k) => Due(failing, k)
    BY <2>2 DEF Due
  <2>7. Due(failing, k) => Left(load[l], k)'
    <3>1. Due(failing, k) =>
            \/ k \in CleanupOf(failing) \ {Owners}
            \/ Owners \in CleanupOf(failing) /\ Concerned(k, failing.moved)
      BY CleanupDue
    <3> QED
      BY <2>4, <2>5, <3>1 DEF Left, Concerned
  <2>8. Due(pushed, k) => k \in ToFlush(l)'
    BY <2>5, <2>6, <2>7, FlushedThen
  <2> QED
    BY <1>6, <2>1, <2>3, <2>8
<1>11. ASSUME pc[l] = "clean", UNCHANGED <<pc, listed>>,
              load'[l].moved = load[l].moved, cache[k] = "stale",
              Left(load[l], k) => Left(load[l], k)'
       PROVE  Cause(k)'
  <2>1. k \in ToFlush(l) => k \in ToFlush(l)'
    BY <1>11, Flushed, FlushedThen
  <2> QED
    BY <1>2, <1>11, <2>1
<1>12. CASE FindOwners(l)
  <2>1. /\ load'[l].moved = load[l].moved
        /\ load'[l].todo = (load[l].todo \ {Owners}) \union SalesOf(l)
        /\ UNCHANGED <<pc, listed, cache>> /\ pc[l] = "clean"
    BY <1>12 DEF FindOwners, TypeOK, LoadState
  <2>2. Concerned(k, load[l].moved) => k \in SalesOf(l) /\ k # Owners
    BY NoKey DEF Concerned, SalesOf, OwnersOf
  <2>3. Left(load[l], k) => Left(load[l], k)'
    BY <2>1, <2>2 DEF Left
  <2> QED
    BY <1>11, <2>1, <2>3
<1>13. ASSUME NEW key \in Keys, Flush(l, key) PROVE Cause(k)'
  <2>1. /\ load'[l].moved = load[l].moved
        /\ load'[l].todo = load[l].todo \ {key} /\ key # Owners
        /\ UNCHANGED <<pc, listed>> /\ pc[l] = "clean"
    BY <1>13 DEF Flush, TypeOK, LoadState
  <2>2. k # key /\ cache[k] = "stale"
    BY <1>13 DEF Flush, Empty, TypeOK
  <2>3. Left(load[l], k) => Left(load[l], k)'
    BY <2>1, <2>2 DEF Left, Concerned
  <2> QED
    BY <1>11, <2>1, <2>2, <2>3
<1>14. ASSUME NEW st \in Keys \union {Owners}, FlushFails(l, st) PROVE Cause(k)'
  <2>1. /\ load'[l].moved = load[l].moved
        /\ load'[l].todo = load[l].todo \ {st}
        /\ UNCHANGED <<pc, listed>> /\ pc[l] = "clean"
    BY <1>14 DEF FlushFails, TypeOK, LoadState
  <2>2. cache[k] = "stale" /\ k \notin Meant(l, {st})
    BY <1>14 DEF FlushFails, Lose, Become
  <2>3. ~(k \in {st} \ {Owners}) /\ ~(st = Owners /\ Concerned(k, load[l].moved))
    BY <2>2, MeantByLoad
  <2>4. Left(load[l], k) => Left(load[l], k)'
    BY <2>1, <2>3 DEF Left, Concerned
  <2> QED
    BY <1>11, <2>1, <2>2, <2>4
<1>15. CASE End(l)
  <2>1. ~Left(load[l], k) /\ pc[l] = "clean" /\ UNCHANGED <<listed, cache>>
    BY <1>15 DEF End, Left
  <2>2. k \notin ToFlush(l)
    BY <2>1, Flushed
  <2> QED
    BY <1>2, <2>1, <2>2
<1>16. CASE Crash(l)
  <2>1. cache[k] = "stale" /\ k \notin ToFlush(l) /\ UNCHANGED listed
    BY <1>16 DEF Crash, Lose, Become
  <2> QED
    BY <1>2, <2>1
<1> QED
  BY <1>3, <1>4, <1>5, <1>7, <1>8, <1>9, <1>10, <1>12, <1>13, <1>14, <1>15, <1>16
     DEF LoadNext

LEMMA StaleCreation ==
    ASSUME TypeOK, StaleCopyHasCause, NEW c \in Creations, CreationNext(c),
           NEW k \in Keys, cache'[k] = "stale"
    PROVE  Cause(k)'
<1> USE DEF tables, provider
<1>1. /\ UNCHANGED <<load, listed>> /\ (raced => raced')
      /\ \A m \in Loads : pc'[m] = pc[m]
      /\ \A d \in Creations \ {c} : pc'[d] = pc[d]
  <2>1. StepOf(c)
    BY CreationFrame
  <2>2. UNCHANGED <<load, listed>>
    BY DEF CreationNext, Create, CreateMatch, CreateFails, FlushList, CommitCreated
  <2> QED
    BY <2>1, <2>2, ProcessTypes DEF StepOf
<1>2. \A m \in Loads : k \in ToFlush(m) => k \in ToFlush(m)'
  BY <1>1 DEF ToFlush, Meant, SalesOf, OwnersOf, CleanupOf
<1>3. ASSUME cache[k] = "stale", k = List => pc[c] # "flush" PROVE Cause(k)'
  <2>1. Cause(k)
    BY <1>3 DEF StaleCopyHasCause, Cause
  <2> QED
    BY <1>1, <1>2, <1>3, <2>1 DEF Cause
<1>4. CASE Create(c)
  BY <1>3, <1>4 DEF Create, Starts
<1>5. CASE CreateMatch(c)
  <2>1. CASE UNCHANGED cache
    BY <1>3, <1>5, <2>1 DEF CreateMatch, MayCreate
  <2>2. CASE Goto(c, "flush") /\ Outdate({List})
    <3>1. pc'[c] = "flush"
      BY <2>2 DEF Goto, TypeOK
    <3>2. k = List \/ cache[k] = "stale"
      BY <2>2 DEF Outdate, Become
    <3> QED
      BY <1>3, <1>5, <3>1, <3>2 DEF CreateMatch, MayCreate, Cause
  <2> QED
    BY <1>5, <2>1, <2>2 DEF CreateMatch
<1>6. CASE CreateFails(c)
  <2>1. cache[k] = "stale" /\ pc[c] = "create"
    BY <1>6 DEF CreateFails, MayCreate, Become
  <2> QED
    BY <1>3, <2>1
<1>7. CASE FlushList(c)
  <2>1. cache[k] = "stale" /\ k # List
    BY <1>7 DEF FlushList, Empty, Lose, Become, TypeOK
  <2> QED
    BY <1>3, <2>1
<1> QED
  BY <1>4, <1>5, <1>6, <1>7 DEF CreationNext

LEMMA StaleOthers ==
    ASSUME TypeOK, StaleCopyHasCause, OthersNext, NEW k \in Keys,
           cache'[k] = "stale"
    PROVE  Cause(k)'
<1>1. Elsewhere
  BY OthersFrame
<1>2. ASSUME cache[k] = "stale",
             \A u \in Users : \A id : <<u, id>> \in listed /\ k = Sales(u)
               => <<u, id>> \in listed'
      PROVE  Cause(k)'
  <2>1. Cause(k)
    BY <1>2 DEF StaleCopyHasCause, Cause
  <2>2. ASSUME NEW m \in Loads, k \in ToFlush(m) PROVE k \in ToFlush(m)'
    <3>1. Concerned(k, load[m].moved) => Concerned(k, load[m].moved)'
      BY <1>1, <1>2 DEF Concerned, Elsewhere
    <3>2. /\ Due(load[m], k) => Due(load[m], k)'
          /\ Left(load[m], k) => Left(load[m], k)'
      BY <1>1, <3>1 DEF Due, Left, Elsewhere
    <3> QED
      BY <1>1, <2>2, <3>2, Flushed, FlushedThen DEF Elsewhere
  <2> QED
    BY <1>1, <2>1, <2>2 DEF Cause, Elsewhere
<1>3. ASSUME NEW f \in Fixtures, Revise(f) PROVE Cause(k)'
  BY <1>2, <1>3 DEF Revise, tables
<1>4. ASSUME NEW key \in Keys, Read(key) PROVE Cause(k)'
  BY <1>2, <1>4 DEF Read, tables, TypeOK
<1>5. ASSUME NEW u \in Users, NEW id \in Ids, ListSale(u, id) PROVE Cause(k)'
  BY <1>2, <1>5 DEF ListSale, Empty, TypeOK
<1>6. ASSUME NEW u \in Users, NEW id \in Ids, RemoveSale(u, id) PROVE Cause(k)'
  <2>1. cache[k] = "stale" /\ k # Sales(u)
    BY <1>6 DEF RemoveSale, Empty, TypeOK
  <2> QED
    BY <1>2, <1>6, <2>1 DEF RemoveSale
<1> QED
  BY <1>3, <1>4, <1>5, <1>6 DEF OthersNext

(* A copy drifts when a load writes a new competition or atHome, and that  *)
(* is a copy in sales.                                                     *)
LEMMA DriftStep ==
    ASSUME TypeOK, StaleCopyHasCause, Next, NEW k \in Keys,
           cache'[k] = "drifted"
    PROVE  \E u \in Users : k = Sales(u)
<1> USE DEF tables, provider
<1>1. CASE cache[k] = "drifted"
  BY <1>1 DEF StaleCopyHasCause
<1>2. CASE cache[k] # "drifted"
  <2>1. ASSUME UNCHANGED cache PROVE FALSE
    BY <1>2, <2>1
  <2>2. ASSUME NEW key \in Keys, Empty(key) PROVE FALSE
    BY <1>2, <2>2 DEF Empty, TypeOK
  <2>3. ASSUME NEW keys, NEW from, NEW to \in {"stale", "lost"},
               Become(keys, from, to)
        PROVE  FALSE
    BY <1>2, <2>3 DEF Become
  <2>4. ASSUME NEW l \in Loads, CommitMatch(l)
        PROVE  \E u \in Users : k = Sales(u)
    <3>1. CASE Outdate({List})
      BY <2>3, <3>1 DEF Outdate
    <3>2. ASSUME NEW id, NEW entry, UpdateCopies(id, entry)
          PROVE  \E u \in Users : k = Sales(u)
      BY <1>2, <3>2 DEF UpdateCopies, Copies, OwnersOf
    <3> QED
      BY <2>4, <3>1, <3>2 DEF CommitMatch
  <2>5. ASSUME NEW l \in Loads, LoadNext(l)
        PROVE  \E u \in Users : k = Sales(u)
    <3>1. CASE \/ Fetch(l) \/ SkipUnknown(l) \/ FindMatch(l) \/ SyncEnds(l)
               \/ SyncFails(l) \/ FindOwners(l) \/ End(l)
      BY <2>1, <3>1 DEF Fetch, SkipUnknown, FindMatch, SyncEnds, SyncFails,
                        FindOwners, End
    <3>2. CASE WriteMatch(l) \/ AnswerLost(l)
      BY <2>4, <3>2 DEF WriteMatch, AnswerLost
    <3>3. ASSUME NEW key \in Keys, Flush(l, key) PROVE FALSE
      BY <2>2, <3>3 DEF Flush
    <3>4. ASSUME NEW st, FlushFails(l, st) PROVE FALSE
      BY <2>3, <3>4 DEF FlushFails, Lose
    <3>5. CASE Crash(l)
      BY <2>3, <3>5 DEF Crash, Lose
    <3> QED
      BY <2>5, <3>1, <3>2, <3>3, <3>4, <3>5 DEF LoadNext
  <2>6. ASSUME NEW c \in Creations, CreationNext(c) PROVE FALSE
    <3>1. List \in Keys
      BY DEF Keys
    <3>2. CASE Create(c)
      BY <2>1, <3>2 DEF Create
    <3>3. CASE CreateMatch(c)
      BY <2>1, <2>3, <3>3 DEF CreateMatch, Outdate
    <3>4. CASE CreateFails(c)
      BY <2>1, <2>3, <3>4 DEF CreateFails
    <3>5. CASE FlushList(c)
      BY <2>2, <2>3, <3>1, <3>5 DEF FlushList, Lose
    <3> QED
      BY <2>6, <3>2, <3>3, <3>4, <3>5 DEF CreationNext
  <2>7. CASE OthersNext
    <3>1. ASSUME NEW f \in Fixtures, Revise(f) PROVE FALSE
      BY <2>1, <3>1 DEF Revise
    <3>2. ASSUME NEW key \in Keys, Read(key) PROVE FALSE
      BY <1>2, <3>2 DEF Read, TypeOK
    <3>3. ASSUME NEW u \in Users, NEW id \in Ids, ListSale(u, id) \/ RemoveSale(u, id)
          PROVE  FALSE
      <4>1. Sales(u) \in Keys
        BY DEF Keys
      <4> QED
        BY <2>2, <3>3, <4>1 DEF ListSale, RemoveSale
    <3> QED
      BY <2>7, <3>1, <3>2, <3>3 DEF OthersNext
  <2> QED
    BY <2>5, <2>6, <2>7 DEF Next
<1> QED
  BY <1>1, <1>2

LEMMA StaleStep ==
    ASSUME TypeOK, FoundInv, ProgressInv, StaleCopyHasCause, Next
    PROVE  StaleCopyHasCause'
<1>1. \A k \in Keys : cache'[k] = "stale" => Cause(k)'
  BY StaleLoad, StaleCreation, StaleOthers DEF Next
<1>2. \A k \in Keys : cache'[k] = "drifted" => \E u \in Users : k = Sales(u)
  BY DriftStep
<1> QED
  BY <1>1, <1>2 DEF StaleCopyHasCause, Cause

-----------------------------------------------------------------------------
(* The theorems.                                                           *)

LEMMA SyncStarts == Init => SyncInv
<1> SUFFICES ASSUME Init PROVE SyncInv
  OBVIOUS
<1> USE DEF Init
<1>1. /\ matches \in Seq(Match) /\ Len(matches) <= MaxRows
      /\ \A i, j \in DOMAIN matches : SameDay(matches[i], matches[j]) => i = j
  BY SyncAssumption DEF SyncAssumption
<1>2. TypeOK
  <2>1. Calendar \in [Fixtures -> Entries] /\ 1 \in Fixtures
    BY SyncAssumption DEF SyncAssumption, Fixtures
  <2>2. opponents \subseteq Opponents
    <3>1. \A id \in DOMAIN matches : matches[id].opponent \in Opponents
      <4>1. \A id \in DOMAIN matches : matches[id] \in Match
        BY <1>1
      <4> QED
        BY <4>1 DEF Match
    <3> QED
      BY <3>1
  <2>3. creation \in [Creations -> [saw : BOOLEAN, want : Entries]]
    BY <2>1
  <2>4. /\ load \in [Loads -> LoadState]
        /\ \A l \in Loads : load[l].moved \subseteq load[l].updated
    BY FreshType DEF Fresh
  <2>5. /\ cache \in [Keys -> {"none", "fresh", "stale", "lost", "drifted"}]
        /\ pc \in [Loads \union Creations ->
                     {"idle", "row", "write", "clean", "create", "flush", "ok",
                      "unknown", "failed", "dead"}]
        /\ revisions \in Nat /\ listed \subseteq Users \X DOMAIN matches
    OBVIOUS
  <2> QED
    BY <1>1, <2>1, <2>2, <2>3, <2>4, <2>5 DEF TypeOK
<1>3. \A p \in DOMAIN pc : pc[p] = "idle"
  OBVIOUS
<1>4. \A l \in Loads : pc[l] = "idle" /\ load[l] = Fresh
  OBVIOUS
<1>5. Alone
  BY <1>3 DEF Alone, Working
<1>6. FeedInv
  BY SyncAssumption DEF FeedInv, Fresh, OncePerDay, SyncAssumption
<1>7. FoundInv /\ ProgressInv
  BY <1>4 DEF FoundInv, FoundBy, ProgressInv, ProgressOf
<1>8. CreationInv
  BY DEF CreationInv, CreationOf
<1>9. OneRowPerDay
  BY <1>1 DEF OneRowPerDay
<1>10. StaleCopyHasCause
  BY DEF StaleCopyHasCause
<1> QED
  BY <1>2, <1>5, <1>6, <1>7, <1>8, <1>9, <1>10 DEF SyncInv

LEMMA SyncStep == SyncInv /\ [Next]_vars => SyncInv'
<1> SUFFICES ASSUME SyncInv, [Next]_vars PROVE SyncInv'
  OBVIOUS
<1> USE DEF SyncInv
<1>1. CASE Next
  <2>1. TypeOK'
    BY <1>1, LoadTypes, CreationTypes, OthersTypes DEF Next
  <2>2. Alone' /\ FeedInv' /\ OneRowPerDay' /\ StaleCopyHasCause'
    BY <1>1, AloneStep, FeedStep, OneRowStep, StaleStep
  <2>3. FoundInv' /\ ProgressInv' /\ CreationInv'
    BY <1>1, ProcessesStep
  <2> QED
    BY <2>1, <2>2, <2>3
<1>2. CASE UNCHANGED vars
  <2> USE <1>2 DEF vars
  <2>1. Elsewhere
    BY DEF Elsewhere
  <2>2. TypeOK'
    BY DEF TypeOK
  <2>3. Alone' /\ FeedInv' /\ OneRowPerDay'
    BY DEF Alone, Working, FeedInv, OncePerDay, OneRowPerDay
  <2>4. FoundInv' /\ ProgressInv' /\ CreationInv'
    BY <2>1, ElsewhereKeeps
  <2>5. StaleCopyHasCause'
    BY DEF StaleCopyHasCause, ToFlush, Meant, SalesOf, OwnersOf, CleanupOf
  <2> QED
    BY <2>2, <2>3, <2>4, <2>5
<1> QED
  BY <1>1, <1>2

(* The inductive invariant of the sync: what a transaction has read that   *)
(* nobody changes before it writes, and what is left to be flushed.        *)
THEOREM SyncInductive == Spec => []SyncInv
<1> QED
  BY SyncStarts, SyncStep, PTL DEF Spec

(* The variables of loads, creations, rows and the cache keep their types. *)
THEOREM SyncTypes == Spec => []TypeOK
<1>1. SyncInv => TypeOK
  BY DEF SyncInv
<1> QED
  BY <1>1, SyncInductive, PTL

(* "without this, every revision creates a duplicate row": looking a match *)
(* up by opponent and day, loadMatches adds no second row for a day.       *)
THEOREM OneRow == Spec => []OneRowPerDay
<1>1. SyncInv => OneRowPerDay
  BY DEF SyncInv
<1> QED
  BY <1>1, SyncInductive, PTL

(* Whatever fails in a load or a creation, a copy that is out of date is   *)
(* still to be flushed by somebody at work, or its flush has failed; only  *)
(* copies in sales and reports are left with an old competition or atHome. *)
THEOREM StaleCopies == Spec => []StaleCopyHasCause
<1>1. SyncInv => StaleCopyHasCause
  BY DEF SyncInv
<1> QED
  BY <1>1, SyncInductive, PTL

(* A load that reports no failure has recorded every fixture it fetched,   *)
(* and a creation that is answered has a match on its day, P2002 included. *)
THEOREM TrueAnswers == Spec => []AnswersAreTrue
<1>1. SyncInv => AnswersAreTrue
  <2> SUFFICES ASSUME SyncInv, ~raced PROVE AnswersAreTrue
    BY DEF AnswersAreTrue
  <2>1. ASSUME NEW l \in Loads, NEW f \in Fixtures, pc[l] = "clean",
               ~load[l].failing, load[l].feed[f].known
        PROVE  Recorded(load[l].feed[f])
    <3>1. ProgressOf(l) /\ load[l] \in LoadState
      BY DEF SyncInv, ProgressInv, TypeOK
    <3>2. load[l].at \notin Fixtures /\ load[l].at \in 1 .. Len(Calendar) + 1
      BY <2>1, <3>1 DEF ProgressOf, LoadState
    <3>3. f < load[l].at
      BY <3>2, SyncAssumption DEF Fixtures, SyncAssumption
    <3> QED
      BY <2>1, <3>1, <3>3 DEF ProgressOf
  <2>2. ASSUME NEW c \in Creations, pc[c] = "ok"
        PROVE  \E id \in DOMAIN matches : SameDay(matches[id], creation[c].want)
    BY <2>2 DEF SyncInv, CreationInv, CreationOf
  <2> QED
    BY <2>1, <2>2 DEF AnswersAreTrue
<1> QED
  BY <1>1, SyncInductive, PTL
=============================================================================
