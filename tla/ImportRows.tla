----------------------------- MODULE ImportRows -----------------------------
(***************************************************************************)
(* What the CSV import says of a row.  resolveDraftRows annotates the rows *)
(* of a preview, validateCommitRows annotates them again when they are     *)
(* committed; both are pure.  Days are numbers; a cell that is not a       *)
(* natural number or not a date is bad, whatever it holds.                 *)
(***************************************************************************)
EXTENDS Integers, Sequences, FiniteSets, Functions

CONSTANTS
    Passes,      \* season passes of the user
    SeasonOf,    \* seasonStartYear of a pass
    Fixtures,    \* home matches that may be in the database
    MaxTickets,  \* bound: tickets of a row
    NoMatch, NoDay

ASSUME RowsAssumption ==
    /\ SeasonOf \in [Passes -> Nat]
    /\ \A m \in Fixtures : m.season \in Nat /\ m.date \in Nat
    /\ IsFiniteSet(Passes) /\ IsFiniteSet(Fixtures)
    /\ MaxTickets \in Nat \ {0}
    /\ NoMatch \notin Fixtures
    /\ NoDay \notin Nat

(* "ok" is also what a rule answers when it has nothing to say.            *)
Warnings == {"warn:opponent-mismatch", "warn:multi-ticket-single-pass"}
Errors   == {"error:invalid-cell", "error:match-missing",
             "error:opponent-not-found", "error:unallocated",
             "error:gift-recipient-missing", "error:sold-after-kickoff"}

RowStatuses == {"ok"} \union Warnings \union Errors

SALE_ROW_STATUSES == {"PENDING", "SOLD", "CANCELLED", "GIFTED"}

(* A row as parseImportCsv makes it: a cell that is not what it should be  *)
(* stays a row, with cells FALSE; a file with another header has no rows.  *)
CellType ==
    [date      |-> Nat,
     opponent  |-> {m.opponent : m \in Fixtures},
     tickets   |-> 0 .. MaxTickets,
     status    |-> SALE_ROW_STATUSES \union {"OTHER"},
     soldAt    |-> Nat \union {NoDay},
     recipient |-> BOOLEAN,
     cells     |-> BOOLEAN]
RawRow ==
    [date : CellType.date, opponent : CellType.opponent,
     tickets : CellType.tickets, status : CellType.status,
     soldAt : CellType.soldAt, recipient : CellType.recipient,
     cells : CellType.cells]

OnlyError(status) == IF status \in Errors THEN status ELSE "ok"

OrElse(status, other) == IF status # "ok" THEN status ELSE other

(* Allocations: tickets of each pass, which are summed up by counting.     *)
Unallocated      == [p \in Passes |-> 0]
AllTo(p, n)      == [Unallocated EXCEPT ![p] = n]
TicketsOf(alloc) == {t \in Passes \X (1 .. MaxTickets) : t[2] <= alloc[t[1]]}
Allocated(alloc) == Cardinality(TicketsOf(alloc))
PassesOf(alloc)  == {p \in Passes : alloc[p] > 0}

-----------------------------------------------------------------------------
(* The rules.                                                              *)

IsInvalidRow(raw) == ~raw.cells \/ raw.tickets < 1

(* One match on the day is the match, whatever its name; several are told  *)
(* apart by the opponent.                                                  *)
ResolveMatch(raw, home) ==
    LET bucket == {m \in home : m.date = raw.date}
        named  == {m \in bucket : m.opponent = raw.opponent}
    IN  CASE bucket = {} ->
               [match |-> NoMatch, status |-> "error:match-missing"]
          [] Cardinality(bucket) = 1 ->
               [match  |-> CHOOSE m \in bucket : TRUE,
                status |-> IF named = {} THEN "warn:opponent-mismatch"
                                         ELSE "ok"]
          [] Cardinality(bucket) > 1 /\ named = {} ->
               [match |-> NoMatch, status |-> "error:opponent-not-found"]
          [] OTHER ->
               [match |-> CHOOSE m \in named : TRUE, status |-> "ok"]

GiftRecipientStatus(raw) ==
    IF raw.status = "GIFTED" /\ ~raw.recipient
    THEN "error:gift-recipient-missing" ELSE "ok"

SoldAtStatus(raw, match) ==
    IF raw.soldAt # NoDay /\ match # NoMatch /\ raw.soldAt > match.date
    THEN "error:sold-after-kickoff" ELSE "ok"

BuildAllocations(tickets, selected) ==
    CASE selected = <<>> ->
           [alloc |-> Unallocated, status |-> "error:unallocated"]
      [] selected # <<>> /\ tickets = 1 ->
           [alloc |-> AllTo(Head(selected), 1), status |-> "ok"]
      [] Len(selected) = 1 /\ tickets > 1 ->
           [alloc  |-> AllTo(Head(selected), tickets),
            status |-> "warn:multi-ticket-single-pass"]
      [] OTHER ->
           [alloc |-> Unallocated, status |-> "error:unallocated"]

AllocationStatus(row, selected) ==
    IF /\ PassesOf(row.alloc) # {}
       /\ Allocated(row.alloc) = row.raw.tickets
       /\ PassesOf(row.alloc) \subseteq Range(selected)
    THEN "ok" ELSE "error:unallocated"

-----------------------------------------------------------------------------
(* The two passes over the rows.                                           *)

(* resolveDraftRows, of one row.                                           *)
ResolveDraftRow(raw, home, selected) ==
    LET resolved == ResolveMatch(raw, home)
        built    == BuildAllocations(raw.tickets, selected)
    IN  IF IsInvalidRow(raw)
        THEN [raw |-> raw, match |-> NoMatch, alloc |-> Unallocated,
              rowStatus |-> "error:invalid-cell"]
        ELSE [raw |-> raw, match |-> resolved.match, alloc |-> built.alloc,
              rowStatus |-> OrElse(OnlyError(resolved.status),
                           OrElse(OnlyError(built.status),
                           OrElse(GiftRecipientStatus(raw),
                           OrElse(SoldAtStatus(raw, resolved.match),
                           OrElse(resolved.status, built.status)))))]

MissingMatches(rows, home) == home \ {rows[i].match : i \in DOMAIN rows}

(* validateCommitRows, of one row: whatever the client made of it.         *)
ValidateCommitRow_SoldFirst(row, home, selected) ==
    LET resolved == ResolveMatch(row.raw, home)
    IN  [row EXCEPT
           !.match = IF IsInvalidRow(row.raw) THEN @ ELSE resolved.match,
           !.rowStatus =
              IF IsInvalidRow(row.raw) THEN "error:invalid-cell"
              ELSE OrElse(OnlyError(resolved.status),
                   OrElse(AllocationStatus(row, selected),
                   OrElse(SoldAtStatus(row.raw, resolved.match),
                   OrElse(GiftRecipientStatus(row.raw),
                          resolved.status))))]
ValidateCommitRow_TrustsClient(row, home, selected) ==
    [row EXCEPT !.match = ResolveMatch(row.raw, home).match]
ValidateCommitRow(row, home, selected) ==
    LET resolved == ResolveMatch(row.raw, home)
    IN  [row EXCEPT
           !.match = IF resolved.match = NoMatch \/ IsInvalidRow(row.raw)
                     THEN @ ELSE resolved.match,
           !.rowStatus =
              IF IsInvalidRow(row.raw) THEN "error:invalid-cell"
              ELSE OrElse(OnlyError(resolved.status),
                   OrElse(AllocationStatus(row, selected),
                   OrElse(GiftRecipientStatus(row.raw),
                   OrElse(SoldAtStatus(row.raw, resolved.match),
                          resolved.status))))]

(* The sale a committed row becomes: soldAt only of a SOLD row, a gift     *)
(* only of a GIFTED one, dated by the row or else by the match.            *)
SaleOf(row) ==
    [match   |-> row.match,
     tickets |-> row.raw.tickets,
     status  |-> row.raw.status,
     soldAt  |-> IF row.raw.status = "SOLD" THEN row.raw.soldAt ELSE NoDay,
     gift    |-> IF row.raw.status # "GIFTED" THEN NoDay
                 ELSE IF row.raw.soldAt # NoDay THEN row.raw.soldAt
                 ELSE row.match.date,
     alloc   |-> row.alloc]
=============================================================================
