---------------------------- MODULE ImportProofs ----------------------------
(***************************************************************************)
(* TLAPS proofs about the CSV import, for every number of batches, rows,   *)
(* edits and drafts, every finite set of passes and of fixtures, and every *)
(* file.                                                                   *)
(***************************************************************************)
EXTENDS SalesImport, FiniteSetTheorems, TLAPS

-----------------------------------------------------------------------------
(* Allocations.                                                            *)

LEMMA AllToType ==
    ASSUME NEW p \in Passes, NEW n \in 0 .. MaxTickets
    PROVE  /\ AllTo(p, n) \in [Passes -> 0 .. MaxTickets]
           /\ AllTo(p, n)[p] = n
           /\ \A q \in Passes \ {p} : AllTo(p, n)[q] = 0
<1>1. MaxTickets \in Nat
  BY RowsAssumption DEF RowsAssumption
<1> QED
  BY <1>1 DEF AllTo, Unallocated

(* A pass given all tickets has as many of them as it was given.           *)
LEMMA AllToCount ==
    ASSUME NEW p \in Passes, NEW n \in 0 .. MaxTickets
    PROVE  Allocated(AllTo(p, n)) = n
<1> DEFINE T == TicketsOf(AllTo(p, n))
           f == [k \in 1 .. n |-> <<p, k>>]
<1>1. MaxTickets \in Nat /\ n \in Nat
  BY RowsAssumption DEF RowsAssumption
<1>2. T = {<<p, k>> : k \in 1 .. n}
  <2>1. ASSUME NEW t \in T PROVE t \in {<<p, k>> : k \in 1 .. n}
    <3>1. /\ t[1] \in Passes /\ t[2] \in 1 .. MaxTickets /\ t = <<t[1], t[2]>>
          /\ t[2] <= AllTo(p, n)[t[1]]
      BY <2>1 DEF TicketsOf
    <3>2. t[1] = p /\ t[2] \in 1 .. n
      BY <1>1, <3>1, AllToType
    <3> QED
      BY <3>1, <3>2
  <2>2. ASSUME NEW k \in 1 .. n PROVE <<p, k>> \in T
    BY <1>1, <2>2, AllToType DEF TicketsOf
  <2> QED
    BY <2>1, <2>2
<1>3. f \in Bijection(1 .. n, T)
  BY <1>2 DEF Bijection, Injection, Surjection, IsInjective
<1>4. IsFiniteSet(1 .. n) /\ Cardinality(1 .. n) = n
  BY <1>1, FS_Interval
<1>5. Cardinality(T) = n
  <2> HIDE DEF T, f
  <2> QED
    BY <1>3, <1>4, FS_Bijection DEF ExistsBijection
<1> QED
  BY <1>5 DEF Allocated

-----------------------------------------------------------------------------
(* Rows.                                                                   *)

(* One of several matches of a day is found by its opponent, so a match    *)
(* that is resolved is one of the season's, of the day of the row.         *)
LEMMA ResolvedMatch ==
    ASSUME NEW raw, NEW home \in SUBSET Fixtures
    PROVE  LET r == ResolveMatch(raw, home)
           IN  /\ r.status \in RowStatuses
               /\ OnlyError(r.status) = "ok" <=> r.match # NoMatch
               /\ OnlyError(r.status) = "ok" => r.match \in home
               /\ r.match \in Fixtures \union {NoMatch}
<1> DEFINE bucket == {m \in home : m.date = raw.date}
           named  == {m \in bucket : m.opponent = raw.opponent}
           r == ResolveMatch(raw, home)
<1>1. IsFiniteSet(bucket) /\ NoMatch \notin Fixtures
  BY FS_Subset, RowsAssumption DEF RowsAssumption
<1>2. CASE bucket = {}
  <2>1. r = [match |-> NoMatch, status |-> "error:match-missing"]
    <3>1. Cardinality(bucket) = 0
      BY <1>2, FS_EmptySet
    <3> QED
      BY <1>2, <3>1 DEF ResolveMatch
  <2> QED
    BY <2>1 DEF OnlyError, RowStatuses, Errors
<1>3. CASE Cardinality(bucket) = 1
  <2>1. bucket # {}
    BY <1>3, FS_EmptySet
  <2>2. r = [match |-> CHOOSE m \in bucket : TRUE,
             status |-> IF named = {} THEN "warn:opponent-mismatch" ELSE "ok"]
    BY <1>3, <2>1 DEF ResolveMatch
  <2>3. r.match \in home /\ r.status \in {"warn:opponent-mismatch", "ok"}
    BY <2>1, <2>2
  <2> QED
    BY <1>1, <2>3 DEF OnlyError, RowStatuses, Errors, Warnings
<1>4. CASE bucket # {} /\ Cardinality(bucket) # 1
  <2>1. Cardinality(bucket) > 1
    BY <1>1, <1>4, FS_CardinalityType, FS_EmptySet
  <2>2. CASE named = {}
    <3>1. r = [match |-> NoMatch, status |-> "error:opponent-not-found"]
      BY <1>4, <2>1, <2>2 DEF ResolveMatch
    <3> QED
      BY <3>1 DEF OnlyError, RowStatuses, Errors
  <2>3. CASE named # {}
    <3>1. r = [match |-> CHOOSE m \in named : TRUE, status |-> "ok"]
      BY <1>4, <2>1, <2>3 DEF ResolveMatch
    <3>2. r.match \in home /\ r.status = "ok"
      BY <2>3, <3>1
    <3> QED
      BY <1>1, <3>2 DEF OnlyError, RowStatuses, Errors
  <2> QED
    BY <2>2, <2>3
<1> QED
  BY <1>2, <1>3, <1>4

(* What is allocated to a valid row is one ticket per allocation, to the   *)
(* passes that are selected, or nothing and an error.                      *)
LEMMA BuiltAllocations ==
    ASSUME NEW sel \in Seq(Passes), NEW tickets \in 0 .. MaxTickets
    PROVE  LET built == BuildAllocations(tickets, sel)
           IN  /\ built.alloc \in [Passes -> 0 .. MaxTickets]
               /\ built.status \in RowStatuses
               /\ tickets >= 1 /\ OnlyError(built.status) = "ok" =>
                    /\ PassesOf(built.alloc) # {}
                    /\ Allocated(built.alloc) = tickets
                    /\ PassesOf(built.alloc) \subseteq Range(sel)
               /\ OnlyError(built.status) # "ok" =>
                    /\ OnlyError(built.status) = "error:unallocated"
                    /\ PassesOf(built.alloc) = {}
<1> DEFINE built == BuildAllocations(tickets, sel)
<1>1. MaxTickets \in Nat
  BY RowsAssumption DEF RowsAssumption
<1>2. /\ Unallocated \in [Passes -> 0 .. MaxTickets]
      /\ PassesOf(Unallocated) = {}
  BY <1>1 DEF Unallocated, PassesOf
<1>3. ASSUME sel # <<>>
      PROVE  Head(sel) \in Passes /\ Head(sel) \in Range(sel)
  BY <1>3 DEF Range
<1>4. CASE built = [alloc |-> Unallocated, status |-> "error:unallocated"]
  BY <1>2, <1>4 DEF OnlyError, RowStatuses, Errors
<1>5. ASSUME NEW w \in {"ok", "warn:multi-ticket-single-pass"},
             sel # <<>>, tickets >= 1,
             built = [alloc |-> AllTo(Head(sel), tickets), status |-> w]
      PROVE  /\ built.alloc \in [Passes -> 0 .. MaxTickets]
             /\ built.status \in RowStatuses
             /\ OnlyError(built.status) = "ok"
             /\ PassesOf(built.alloc) # {}
             /\ Allocated(built.alloc) = tickets
             /\ PassesOf(built.alloc) \subseteq Range(sel)
  <2>1. PICK p \in Passes : p = Head(sel) /\ p \in Range(sel)
    BY <1>3, <1>5
  <2>2. built.alloc = AllTo(p, tickets) /\ built.status = w
    BY <1>5, <2>1
  <2>3. PICK a : a = AllTo(p, tickets)
    OBVIOUS
  <2>4. /\ a \in [Passes -> 0 .. MaxTickets] /\ a[p] = tickets
        /\ \A q \in Passes \ {p} : a[q] = 0
    BY <2>3, AllToType
  <2>5. PassesOf(a) = {p}
    <3>1. tickets > 0 /\ ~(0 > 0)
      BY <1>1, <1>5
    <3> QED
      BY <2>4, <3>1 DEF PassesOf
  <2>6. Allocated(a) = tickets
    BY <2>3, AllToCount
  <2>7. w \in RowStatuses /\ OnlyError(w) = "ok"
    BY DEF OnlyError, RowStatuses, Errors, Warnings
  <2>8. built.alloc = a
    BY <2>2, <2>3
  <2> HIDE DEF built
  <2> QED
    BY <2>1, <2>2, <2>4, <2>5, <2>6, <2>7, <2>8
<1>6. CASE sel = <<>>
  BY <1>4, <1>6 DEF BuildAllocations
<1>7. CASE sel # <<>> /\ tickets = 1
  <2>1. built = [alloc |-> AllTo(Head(sel), 1), status |-> "ok"]
    BY <1>7 DEF BuildAllocations
  <2> QED
    BY <1>5, <1>7, <2>1
<1>8. CASE sel # <<>> /\ tickets # 1 /\ Len(sel) = 1 /\ tickets > 1
  <2>1. built = [alloc |-> AllTo(Head(sel), tickets),
                 status |-> "warn:multi-ticket-single-pass"]
    BY <1>8 DEF BuildAllocations
  <2> QED
    BY <1>5, <1>8, <2>1
<1>9. CASE sel # <<>> /\ tickets # 1 /\ ~(Len(sel) = 1 /\ tickets > 1)
  <2>1. built = [alloc |-> Unallocated, status |-> "error:unallocated"]
    BY <1>9 DEF BuildAllocations
  <2> QED
    BY <1>4, <2>1
<1> QED
  BY <1>6, <1>7, <1>8, <1>9

(* The rules that say "ok" or an error.                                    *)
Verdicts == {"ok"} \union Errors

LEMMA RuleVerdicts ==
    /\ "ok" \notin Errors /\ "ok" \in RowStatuses /\ Verdicts \subseteq RowStatuses
    /\ \A v \in RowStatuses : OnlyError(v) \in Verdicts
    /\ \A v \in Verdicts : OnlyError(v) = v
    /\ \A raw : GiftRecipientStatus(raw) \in Verdicts
    /\ \A raw, m : SoldAtStatus(raw, m) \in Verdicts
    /\ \A row, sel : AllocationStatus(row, sel) \in Verdicts
<1>1. /\ "ok" \notin Errors /\ "ok" \in RowStatuses /\ Verdicts \subseteq RowStatuses
      /\ \A v \in RowStatuses : OnlyError(v) \in Verdicts
      /\ \A v \in Verdicts : OnlyError(v) = v
  BY DEF Errors, RowStatuses, Verdicts, OnlyError
<1>2. /\ \A raw : GiftRecipientStatus(raw) \in Verdicts
      /\ \A raw, m : SoldAtStatus(raw, m) \in Verdicts
      /\ \A row, sel : AllocationStatus(row, sel) \in Verdicts
  BY DEF GiftRecipientStatus, SoldAtStatus, AllocationStatus, Verdicts, Errors
<1> QED
  BY <1>1, <1>2

(* The error of a row is that of the first rule that finds one: the        *)
(* warnings come after all of them, in the preview and in the commit.      *)
LEMMA FirstError ==
    ASSUME NEW r \in RowStatuses,
           NEW a \in Verdicts, NEW g \in Verdicts, NEW s \in Verdicts,
           NEW st, st = OrElse(OnlyError(r), OrElse(a, OrElse(g, OrElse(s, r))))
    PROVE  /\ st \in RowStatuses
           /\ OnlyError(st) = OrElse(OnlyError(r), OrElse(a, OrElse(g, s)))
BY RuleVerdicts DEF OrElse, OnlyError

(* ValidateCommitRow changes the match and the status of a row only.       *)
LEMMA ValidatedRow ==
    ASSUME NEW row \in Row, NEW home \in SUBSET Fixtures, NEW sel \in Seq(Passes)
    PROVE  LET v == ValidateCommitRow(row, home, sel)
               r == ResolveMatch(row.raw, home)
           IN  /\ v \in Row /\ v.raw = row.raw /\ v.alloc = row.alloc
               /\ IsInvalidRow(row.raw) => OnlyError(v.rowStatus) = "error:invalid-cell"
               /\ ~IsInvalidRow(row.raw) =>
                    OnlyError(v.rowStatus) =
                      OrElse(OnlyError(r.status),
                      OrElse(AllocationStatus(row, sel),
                      OrElse(GiftRecipientStatus(row.raw),
                             SoldAtStatus(row.raw, r.match))))
               /\ ~IsInvalidRow(row.raw) /\ OnlyError(r.status) = "ok" =>
                    v.match = r.match
<1> DEFINE v == ValidateCommitRow(row, home, sel)
<1>1. PICK r : r = ResolveMatch(row.raw, home)
  OBVIOUS
<1>2. /\ r.status \in RowStatuses /\ r.match \in Fixtures \union {NoMatch}
      /\ OnlyError(r.status) = "ok" <=> r.match # NoMatch
  BY <1>1, ResolvedMatch
<1>3. PICK m, st :
        /\ m = (IF r.match = NoMatch \/ IsInvalidRow(row.raw) THEN row.match
                ELSE r.match)
        /\ st = (IF IsInvalidRow(row.raw) THEN "error:invalid-cell"
                 ELSE OrElse(OnlyError(r.status),
                      OrElse(AllocationStatus(row, sel),
                      OrElse(GiftRecipientStatus(row.raw),
                      OrElse(SoldAtStatus(row.raw, r.match), r.status)))))
        /\ v = [row EXCEPT !.match = m, !.rowStatus = st]
  BY <1>1 DEF ValidateCommitRow
<1>4. "error:invalid-cell" \in RowStatuses /\ "error:invalid-cell" \in Errors
  BY DEF RowStatuses, Errors
<1>5. /\ st \in RowStatuses
      /\ IsInvalidRow(row.raw) => OnlyError(st) = "error:invalid-cell"
      /\ ~IsInvalidRow(row.raw) =>
           OnlyError(st) = OrElse(OnlyError(r.status),
                           OrElse(AllocationStatus(row, sel),
                           OrElse(GiftRecipientStatus(row.raw),
                                  SoldAtStatus(row.raw, r.match))))
  <2>1. CASE IsInvalidRow(row.raw)
    BY <1>3, <1>4, <2>1 DEF OnlyError
  <2>2. CASE ~IsInvalidRow(row.raw)
    <3>1. PICK a, g, s :
            /\ a = AllocationStatus(row, sel) /\ g = GiftRecipientStatus(row.raw)
            /\ s = SoldAtStatus(row.raw, r.match)
      OBVIOUS
    <3>2. a \in Verdicts /\ g \in Verdicts /\ s \in Verdicts
      BY <3>1, RuleVerdicts
    <3>3. st = OrElse(OnlyError(r.status),
                      OrElse(a, OrElse(g, OrElse(s, r.status))))
      BY <1>3, <2>2, <3>1
    <3>4. /\ st \in RowStatuses
          /\ OnlyError(st) = OrElse(OnlyError(r.status), OrElse(a, OrElse(g, s)))
      BY <1>2, <3>2, <3>3, FirstError
    <3> QED
      BY <2>2, <3>1, <3>4
  <2> QED
    BY <2>1, <2>2
<1>6. /\ v \in Row /\ v.raw = row.raw /\ v.alloc = row.alloc
      /\ v.match = m /\ v.rowStatus = st
  <2>1. m \in Fixtures \union {NoMatch}
    BY <1>2, <1>3 DEF Row
  <2> HIDE DEF v
  <2> QED
    BY <1>3, <1>5, <2>1 DEF Row
<1> HIDE DEF v
<1>7. ~IsInvalidRow(row.raw) /\ OnlyError(r.status) = "ok" => v.match = r.match
  BY <1>2, <1>3, <1>6
<1>8. v = ValidateCommitRow(row, home, sel)
  BY DEF v
<1> QED
  BY <1>1, <1>5, <1>6, <1>7, <1>8

(* What the preview makes of a raw row.                                    *)
LEMMA DraftRow ==
    ASSUME NEW raw \in RawRow, NEW home \in SUBSET Fixtures,
           NEW sel \in Seq(Passes)
    PROVE  LET d == ResolveDraftRow(raw, home, sel)
               r == ResolveMatch(raw, home)
               b == BuildAllocations(raw.tickets, sel)
           IN  /\ d \in Row /\ d.raw = raw
               /\ IsInvalidRow(raw) => OnlyError(d.rowStatus) = "error:invalid-cell"
               /\ ~IsInvalidRow(raw) =>
                    /\ d.alloc = b.alloc
                    /\ OnlyError(d.rowStatus) =
                         OrElse(OnlyError(r.status),
                         OrElse(OnlyError(b.status),
                         OrElse(GiftRecipientStatus(raw),
                                SoldAtStatus(raw, r.match))))
<1>1. PICK r, b : /\ r = ResolveMatch(raw, home)
                  /\ b = BuildAllocations(raw.tickets, sel)
  OBVIOUS
<1>2. PICK d : d = ResolveDraftRow(raw, home, sel)
  OBVIOUS
<1>3. /\ r.status \in RowStatuses /\ r.match \in Fixtures \union {NoMatch}
      /\ b.status \in RowStatuses /\ b.alloc \in [Passes -> 0 .. MaxTickets]
  <2>1. raw.tickets \in 0 .. MaxTickets
    BY DEF RawRow, CellType
  <2> QED
    BY <1>1, <2>1, ResolvedMatch, BuiltAllocations
<1>4. CASE IsInvalidRow(raw)
  <2>1. d = [raw |-> raw, match |-> NoMatch, alloc |-> Unallocated,
             rowStatus |-> "error:invalid-cell"]
    BY <1>2, <1>4 DEF ResolveDraftRow
  <2>2. Unallocated \in [Passes -> 0 .. MaxTickets]
    BY RowsAssumption DEF Unallocated, RowsAssumption
  <2>3. "error:invalid-cell" \in RowStatuses /\ "error:invalid-cell" \in Errors
    BY DEF RowStatuses, Errors
  <2>4. d \in Row /\ d.raw = raw /\ d.rowStatus = "error:invalid-cell"
    BY <2>1, <2>2, <2>3 DEF Row
  <2> QED
    BY <1>2, <1>4, <2>3, <2>4 DEF OnlyError
<1>5. CASE ~IsInvalidRow(raw)
  <2>1. PICK st : st = OrElse(OnlyError(r.status),
                       OrElse(OnlyError(b.status),
                       OrElse(GiftRecipientStatus(raw),
                       OrElse(SoldAtStatus(raw, r.match),
                       OrElse(r.status, b.status)))))
    OBVIOUS
  <2>2. d = [raw |-> raw, match |-> r.match, alloc |-> b.alloc,
             rowStatus |-> st]
    BY <1>1, <1>2, <1>5, <2>1 DEF ResolveDraftRow
  <2>3. /\ st \in RowStatuses
        /\ OnlyError(st) = OrElse(OnlyError(r.status),
                            OrElse(OnlyError(b.status),
                            OrElse(GiftRecipientStatus(raw),
                                   SoldAtStatus(raw, r.match))))
    <3>1. PICK rs, bs, a, g, s, last :
            /\ rs = r.status /\ bs = b.status /\ a = OnlyError(bs)
            /\ g = GiftRecipientStatus(raw) /\ s = SoldAtStatus(raw, r.match)
            /\ last = OrElse(rs, bs)
      OBVIOUS
    <3>2. /\ rs \in RowStatuses /\ bs \in RowStatuses
          /\ a \in Verdicts /\ g \in Verdicts /\ s \in Verdicts
      BY <1>3, <3>1, RuleVerdicts
    <3>3. /\ last \in {rs, OrElse(rs, bs)} /\ OnlyError(bs) = a
          /\ st = OrElse(OnlyError(rs), OrElse(a, OrElse(g, OrElse(s, last))))
      BY <2>1, <3>1
    <3>4. /\ st \in RowStatuses
          /\ OnlyError(st) = OrElse(OnlyError(rs), OrElse(a, OrElse(g, s)))
      BY <3>2, <3>3, RuleVerdicts DEF OrElse, OnlyError
    <3> QED
      BY <3>1, <3>4
  <2>4. /\ d \in Row /\ d.raw = raw /\ d.rowStatus = st /\ d.alloc = b.alloc
    BY <1>3, <2>2, <2>3 DEF Row
  <2> QED
    BY <1>1, <1>2, <1>5, <2>3, <2>4
<1> QED
  BY <1>4, <1>5

(* "it must be identical here and in validateCommitRows": the commit finds *)
(* in an unedited row the error that the preview has found.                *)
LEMMA CommitAgrees ==
    ASSUME NEW raw \in RawRow, NEW home \in SUBSET Fixtures,
           NEW sel \in Seq(Passes), NEW d, d = ResolveDraftRow(raw, home, sel)
    PROVE  OnlyError(ValidateCommitRow(d, home, sel).rowStatus) =
             OnlyError(d.rowStatus)
<1>1. d \in Row /\ d.raw = raw
  BY DraftRow
<1>2. CASE IsInvalidRow(raw)
  <2>1. OnlyError(d.rowStatus) = "error:invalid-cell"
    BY <1>2, DraftRow
  <2>2. OnlyError(ValidateCommitRow(d, home, sel).rowStatus)
          = "error:invalid-cell"
    BY <1>1, <1>2, ValidatedRow
  <2> QED
    BY <2>1, <2>2
<1>3. CASE ~IsInvalidRow(raw)
  <2>1. PICK b : b = BuildAllocations(raw.tickets, sel)
    OBVIOUS
  <2>2. raw.tickets \in 0 .. MaxTickets /\ raw.tickets >= 1
    BY <1>3, RowsAssumption DEF RawRow, CellType, IsInvalidRow, RowsAssumption
  <2>3. AllocationStatus(d, sel) = OnlyError(b.status)
    <3>1. d.alloc = b.alloc /\ d.raw.tickets = raw.tickets
      BY <1>1, <1>3, <2>1, DraftRow
    <3>2. /\ OnlyError(b.status) = "ok" =>
               /\ PassesOf(b.alloc) # {} /\ Allocated(b.alloc) = raw.tickets
               /\ PassesOf(b.alloc) \subseteq Range(sel)
          /\ OnlyError(b.status) # "ok" =>
               /\ OnlyError(b.status) = "error:unallocated"
               /\ PassesOf(b.alloc) = {}
      BY <2>1, <2>2, BuiltAllocations
    <3> QED
      BY <3>1, <3>2 DEF AllocationStatus
  <2>4. PICK r : r = ResolveMatch(raw, home)
    OBVIOUS
  <2>5. OnlyError(d.rowStatus) =
          OrElse(OnlyError(r.status), OrElse(OnlyError(b.status),
          OrElse(GiftRecipientStatus(raw), SoldAtStatus(raw, r.match))))
    BY <1>3, <2>1, <2>4, DraftRow
  <2>6. OnlyError(ValidateCommitRow(d, home, sel).rowStatus) =
          OrElse(OnlyError(r.status), OrElse(AllocationStatus(d, sel),
          OrElse(GiftRecipientStatus(raw), SoldAtStatus(raw, r.match))))
    BY <1>1, <1>3, <2>4, ValidatedRow
  <2> QED
    BY <2>3, <2>5, <2>6
<1> QED
  BY <1>2, <1>3

(* A row in which the commit finds no error becomes a sound sale, if its   *)
(* matches are those of the one season of the selected passes.             *)
LEMMA ValidRowIsSound ==
    ASSUME TypeOK, NEW row \in Row, NEW sel \in Seq(Passes),
           ~IsInvalidRow(row.raw), row.raw.status \in SALE_ROW_STATUSES,
           NEW v, v = ValidateCommitRow(row, HomeFor(sel), sel),
           v.rowStatus \notin Errors
    PROVE  SoundSale(SaleOf(v))
<1>1. HomeFor(sel) \in SUBSET Fixtures /\ HomeFor(sel) \subseteq matches
  BY DEF TypeOK, HomeFor
<1>2. PICK r : r = ResolveMatch(row.raw, HomeFor(sel))
  OBVIOUS
<1>3. /\ v \in Row /\ v.raw = row.raw /\ v.alloc = row.alloc
      /\ OnlyError(v.rowStatus) =
           OrElse(OnlyError(r.status),
           OrElse(AllocationStatus(row, sel),
           OrElse(GiftRecipientStatus(row.raw), SoldAtStatus(row.raw, r.match))))
      /\ OnlyError(r.status) = "ok" => v.match = r.match
  BY <1>1, <1>2, ValidatedRow
<1>4. OnlyError(v.rowStatus) = "ok"
  BY DEF OnlyError
<1>5. /\ OnlyError(r.status) = "ok" /\ AllocationStatus(row, sel) = "ok"
      /\ SoldAtStatus(row.raw, r.match) = "ok"
  BY <1>3, <1>4 DEF OrElse
<1>6. v.match \in HomeFor(sel) /\ v.match = r.match /\ v.match \in matches
  BY <1>1, <1>2, <1>3, <1>5, ResolvedMatch
<1>7. PICK m : m = v.match
  OBVIOUS
<1>8. m.date \in Nat /\ m \in Fixtures /\ m # NoMatch /\ NoDay \notin Nat
  BY <1>1, <1>6, <1>7, RowsAssumption DEF RowsAssumption
<1>9. /\ PassesOf(v.alloc) # {} /\ Allocated(v.alloc) = v.raw.tickets
      /\ PassesOf(v.alloc) \subseteq Range(sel)
  BY <1>3, <1>5 DEF AllocationStatus
<1>10. \A p \in PassesOf(v.alloc) : SeasonOf[p] = m.season
  <2>1. Seasons(sel) = {m.season}
    BY <1>6, <1>7 DEF HomeFor
  <2> QED
    BY <1>9, <2>1 DEF Seasons
<1>11. v.raw.soldAt # NoDay => v.raw.soldAt \in Nat /\ v.raw.soldAt <= m.date
  <2>1. v.raw.soldAt \in Nat \union {NoDay}
    BY <1>3 DEF Row, RawRow, CellType
  <2>2. v.raw.soldAt # NoDay => ~(v.raw.soldAt > m.date)
    BY <1>3, <1>5, <1>6, <1>7, <1>8 DEF SoldAtStatus
  <2> QED
    BY <1>8, <2>1, <2>2
<1>12. PICK s : s = SaleOf(v)
  OBVIOUS
<1>13. /\ s.match = m /\ s.tickets = v.raw.tickets /\ s.alloc = v.alloc
       /\ s.status = v.raw.status
       /\ s.soldAt \in {v.raw.soldAt, NoDay}
       /\ s.gift = (IF v.raw.status # "GIFTED" THEN NoDay
                    ELSE IF v.raw.soldAt # NoDay THEN v.raw.soldAt
                    ELSE m.date)
  BY <1>7, <1>12 DEF SaleOf
<1>14. /\ s.gift # NoDay <=> s.status = "GIFTED"
       /\ \A day \in {s.soldAt, s.gift} \ {NoDay} : day <= m.date
  <2>1. CASE v.raw.status # "GIFTED"
    <3>1. s.gift = NoDay
      BY <1>3, <1>13, <2>1
    <3> QED
      BY <1>8, <1>11, <1>13, <2>1, <3>1
  <2>2. CASE v.raw.status = "GIFTED"
    <3>1. s.gift = IF v.raw.soldAt # NoDay THEN v.raw.soldAt ELSE m.date
      BY <1>13, <2>2
    <3> QED
      BY <1>8, <1>11, <1>13, <2>2, <3>1
  <2> QED
    BY <2>1, <2>2
<1> QED
  BY <1>6, <1>7, <1>9, <1>10, <1>12, <1>13, <1>14 DEF SoundSale

-----------------------------------------------------------------------------
(* Types.                                                                  *)

LEMMA TableGrows ==
    ASSUME NEW S, NEW t \in Seq(S), NEW x \in S
    PROVE  Append(t, x) \in Seq(S) /\ Len(Append(t, x)) = Len(t) + 1
OBVIOUS

LEMMA TableShrinks ==
    ASSUME NEW S, NEW t \in Seq(S), NEW k \in DOMAIN t
    PROVE  /\ WithoutAt(t, k) \in Seq(S)
           /\ Len(WithoutAt(t, k)) = Len(t) - 1
<1>1. Len(t) \in Nat /\ k \in 1 .. Len(t) /\ DOMAIN t = 1 .. Len(t)
  OBVIOUS
<1>2. \A j \in 1 .. Len(t) - 1 : (IF j < k THEN j ELSE j + 1) \in 1 .. Len(t)
  BY <1>1
<1>3. PICK n \in Nat : n = Len(t) - 1
  <2>1. Len(t) >= 1
    BY <1>1
  <2>2. Len(t) - 1 \in Nat
    BY <1>1, <2>1
  <2> QED
    BY <2>2
<1>4. WithoutAt(t, k) \in [1 .. n -> S]
  BY <1>1, <1>2, <1>3 DEF WithoutAt
<1> QED
  BY <1>3, <1>4

LEMMA TableChanges ==
    ASSUME NEW t, IsTable(t), NEW i \in DOMAIN t, NEW row \in Row
    PROVE  IsTable([t EXCEPT ![i] = row])
BY DEF IsTable

LEMMA NothingTyped == IsTable(NoRows) /\ << >> \in Seq(Passes)
<1>1. NoRows \in Seq(Row) /\ Len(NoRows) = 0
  BY DEF NoRows
<1> QED
  BY <1>1, ImportAssumption DEF IsTable, ImportAssumption

(* The edits of a row leave a row.                                         *)
LEMMA EditedRow ==
    ASSUME NEW row \in Row, NEW f \in Fields, NEW v \in CellValues[f]
    PROVE  ResolveRowStatus([row EXCEPT !.raw[f] = v]) \in Row
<1>1. v \in CellType[f]
  BY ImportAssumption DEF ImportAssumption
<1>2. PICK raw : raw = [row.raw EXCEPT ![f] = v]
  OBVIOUS
<1>3. row.raw \in RawRow
  BY DEF Row
<1>4. raw \in RawRow
  <2>1. f \in {"date", "opponent", "tickets", "status", "soldAt", "recipient",
               "cells"}
    BY DEF Fields, CellType
  <2> QED
    BY <1>1, <1>2, <1>3, <2>1 DEF RawRow, CellType
<1>5. GiftRecipientStatus(raw) \in RowStatuses
  BY RuleVerdicts
<1>6. [row EXCEPT !.raw = raw, !.rowStatus = GiftRecipientStatus(raw)] \in Row
  BY <1>4, <1>5 DEF Row
<1>7. PICK edited_ : edited_ = [row EXCEPT !.raw = raw]
  OBVIOUS
<1>8. edited_.raw = raw /\ ResolveRowStatus(edited_) =
        [row EXCEPT !.raw = raw, !.rowStatus = GiftRecipientStatus(raw)]
  BY <1>7 DEF ResolveRowStatus, Row
<1> QED
  BY <1>2, <1>6, <1>7, <1>8

LEMMA ReallocatedRow ==
    ASSUME NEW row \in Row, NEW p \in Passes, NEW n \in 0 .. MaxTickets
    PROVE  ResolveRowStatus([row EXCEPT !.alloc[p] = n]) \in Row
<1>1. PICK alloc : alloc = [row.alloc EXCEPT ![p] = n]
  OBVIOUS
<1>2. alloc \in [Passes -> 0 .. MaxTickets] /\ row.raw \in RawRow
  BY <1>1 DEF Row
<1>3. GiftRecipientStatus(row.raw) \in RowStatuses
  BY RuleVerdicts
<1>4. [row EXCEPT !.alloc = alloc, !.rowStatus = GiftRecipientStatus(row.raw)]
        \in Row
  BY <1>2, <1>3 DEF Row
<1>5. ResolveRowStatus([row EXCEPT !.alloc = alloc]) =
        [row EXCEPT !.alloc = alloc, !.rowStatus = GiftRecipientStatus(row.raw)]
  BY DEF ResolveRowStatus, Row
<1> QED
  BY <1>1, <1>4, <1>5

LEMMA AddedRow ==
    ASSUME TypeOK, NEW m \in Fixtures
    PROVE  [raw   |-> [date |-> m.date, opponent |-> m.opponent, tickets |-> 1,
                       status |-> "PENDING", soldAt |-> NoDay,
                       recipient |-> FALSE, cells |-> TRUE],
            match |-> m,
            alloc |-> IF selected = <<>> THEN Unallocated
                                         ELSE AllTo(Head(selected), 1),
            rowStatus |-> "ok"] \in Row
<1>1. MaxTickets \in Nat \ {0} /\ m.date \in Nat /\ 1 \in 0 .. MaxTickets
  BY RowsAssumption DEF RowsAssumption
<1>2. Unallocated \in [Passes -> 0 .. MaxTickets]
  BY <1>1 DEF Unallocated
<1>3. selected # <<>> => AllTo(Head(selected), 1) \in [Passes -> 0 .. MaxTickets]
  <2>1. selected # <<>> => Head(selected) \in Passes
    BY DEF TypeOK
  <2> QED
    BY <1>1, <2>1, AllToType
<1>4. [date |-> m.date, opponent |-> m.opponent, tickets |-> 1,
       status |-> "PENDING", soldAt |-> NoDay,
       recipient |-> FALSE, cells |-> TRUE] \in RawRow
  BY <1>1 DEF RawRow, CellType, SALE_ROW_STATUSES
<1> QED
  BY <1>2, <1>3, <1>4, RuleVerdicts DEF Row

(* The table of a preview, before anything is edited.                      *)
LEMMA PreviewTable ==
    ASSUME TypeOK, DraftInv, PreviewAnswered
    PROVE  /\ IsTable(rows') /\ missing' \subseteq Fixtures
           /\ DraftInv'
<1>1. upload \in Seq(RawRow) /\ Len(upload) <= MaxRows /\ upload # NoFile
  BY ImportAssumption DEF TypeOK, PreviewAnswered, ImportAssumption
<1>2. HomeFor(uploadSel) \in SUBSET Fixtures /\ uploadSel \in Seq(Passes)
  BY DEF TypeOK, HomeFor
<1>3. rows' = [i \in DOMAIN upload |->
                 ResolveDraftRow(upload[i], HomeFor(uploadSel), uploadSel)]
  BY DEF PreviewAnswered
<1>4. PICK home, sel : home = HomeFor(uploadSel) /\ sel = uploadSel
  OBVIOUS
<1>5. \A i \in DOMAIN upload :
         /\ rows'[i] = ResolveDraftRow(upload[i], home, sel)
         /\ rows'[i] \in Row /\ rows'[i].raw = upload[i]
  <2>1. ASSUME NEW i \in DOMAIN upload
        PROVE  /\ rows'[i] = ResolveDraftRow(upload[i], home, sel)
               /\ rows'[i] \in Row /\ rows'[i].raw = upload[i]
    <3>1. PICK raw \in RawRow : raw = upload[i]
      BY <1>1, <2>1
    <3>2. rows'[i] = ResolveDraftRow(raw, home, sel)
      BY <1>3, <1>4, <2>1, <3>1
    <3>3. home \in SUBSET Fixtures /\ sel \in Seq(Passes)
      BY <1>2, <1>4
    <3>4. /\ ResolveDraftRow(raw, home, sel) \in Row
          /\ ResolveDraftRow(raw, home, sel).raw = raw
      BY <3>3, DraftRow
    <3> QED
      BY <3>1, <3>2, <3>4
  <2> QED
    BY <2>1
<1>6. DOMAIN upload = 1 .. Len(upload) /\ Len(upload) \in Nat
  BY <1>1
<1>7. rows' \in [1 .. Len(upload) -> Row]
  BY <1>3, <1>4, <1>5, <1>6
<1>8. IsTable(rows')
  BY <1>1, <1>6, <1>7 DEF IsTable
<1>9. missing' \subseteq Fixtures
  BY <1>2 DEF PreviewAnswered, MissingMatches
<1>10. previewed'.sel = sel /\ previewed'.home = home
  BY <1>4 DEF PreviewAnswered
<1>11. DraftInv'
  BY <1>2, <1>4, <1>5, <1>6, <1>7, <1>10 DEF DraftInv
<1> QED
  BY <1>8, <1>9, <1>11

(* The rows of the batch that the API has validated.                       *)
LEMMA ValidatedTable ==
    ASSUME TypeOK, NEW b \in Batches, ValidateBatch(b)
    PROVE  /\ IsTable(Validated(b))
           /\ \A i \in DOMAIN Validated(b) : SoundSale(SaleOf(Validated(b)[i]))
<1>1. PICK t, sel : t = payload[b].rows /\ sel = payload[b].sel
  OBVIOUS
<1>2. /\ t \in Seq(Row) /\ Len(t) <= MaxRows /\ sel \in Seq(Passes)
      /\ DOMAIN t = 1 .. Len(t) /\ Len(t) \in Nat
  BY <1>1 DEF TypeOK, IsTable
<1>3. PICK v : v = Validated(b)
  OBVIOUS
<1>4. v = [i \in 1 .. Len(t) |-> ValidateCommitRow(t[i], HomeFor(sel), sel)]
  BY <1>1, <1>2, <1>3 DEF Validated
<1>5. \A i \in 1 .. Len(t) :
         /\ ~IsInvalidRow(t[i].raw) /\ t[i].raw.status \in SALE_ROW_STATUSES
         /\ v[i].rowStatus \notin Errors
  BY <1>1, <1>2, <1>3 DEF ValidateBatch, WellTyped
<1>6. HomeFor(sel) \in SUBSET Fixtures
  BY DEF TypeOK, HomeFor
<1>7. ASSUME NEW i \in 1 .. Len(t)
      PROVE  v[i] \in Row /\ SoundSale(SaleOf(v[i]))
  <2>1. PICK row \in Row : row = t[i]
    BY <1>2, <1>7
  <2>2. v[i] = ValidateCommitRow(row, HomeFor(sel), sel)
    BY <1>4, <1>7, <2>1
  <2> QED
    BY <1>2, <1>5, <1>6, <1>7, <2>1, <2>2, ValidatedRow, ValidRowIsSound
<1>8. v \in [1 .. Len(t) -> Row]
  BY <1>4, <1>7
<1> QED
  BY <1>2, <1>3, <1>4, <1>7, <1>8 DEF IsTable

(* An edit of the draft leaves everything else alone.                      *)
LEMMA EditTypes ==
    ASSUME TypeOK, IsTable(rows'), edits' \in Nat, missing' \subseteq Fixtures,
           UNCHANGED <<database, modal, draft, previewed, panel, requests>>
    PROVE  TypeOK'
BY DEF TypeOK, IsTable, database, modal, panel, requests

LEMMA WizardTypes ==
    ASSUME TypeOK, DraftInv, WizardNext \/ PreviewNext
    PROVE  TypeOK'
<1> USE NothingTyped DEF database, modal, table, panel, requests
<1>1. CASE OpenDialog
  BY <1>1 DEF OpenDialog, TypeOK, IsTable
<1>2. CASE Close
  BY <1>2 DEF Close, UnmountDraft, TypeOK
<1>3. CASE PassesChosen
  BY <1>3 DEF PassesChosen, TypeOK, IsTable
<1>4. CASE BackToPasses
  BY <1>4 DEF BackToPasses, TypeOK, IsTable
<1>5. CASE SubmitUpload
  BY <1>5 DEF SubmitUpload, TypeOK, IsTable
<1>6. CASE BackToUpload
  BY <1>6 DEF BackToUpload, Editing, UnmountDraft, TypeOK
<1>7. CASE Validate
  BY <1>7 DEF Validate, Send, TypeOK, IsTable
<1>8. CASE Undo
  BY <1>8 DEF Undo, TypeOK, IsTable
<1>9. ASSUME NEW p \in Passes, TogglePass(p) PROVE TypeOK'
  <2>1. selected' \in Seq(Passes)
    <3>1. selected \in Seq(Passes)
      BY DEF TypeOK
    <3>2. CASE \E k \in DOMAIN selected : selected' = WithoutAt(selected, k)
      BY <3>1, <3>2, TableShrinks
    <3>3. CASE selected' = Append(selected, p)
      BY <3>1, <3>3, TableGrows
    <3> QED
      BY <1>9, <3>2, <3>3 DEF TogglePass
  <2> QED
    BY <1>9, <2>1 DEF TogglePass, TypeOK, IsTable
<1>10. ASSUME NEW f \in Files, ChooseFile(f) PROVE TypeOK'
  BY <1>10 DEF ChooseFile, TypeOK, IsTable
<1>11. ASSUME NEW i \in 1 .. MaxRows, DeleteRow(i) PROVE TypeOK'
  <2>1. IsTable(rows')
    BY <1>11, TableShrinks, ImportAssumption
       DEF DeleteRow, TypeOK, IsTable, ImportAssumption
  <2>2. edits' \in Nat /\ missing' \subseteq Fixtures
    BY <1>11 DEF DeleteRow, TypeOK
  <2> QED
    BY <1>11, <2>1, <2>2, EditTypes DEF DeleteRow
<1>12. ASSUME NEW i \in 1 .. MaxRows, NEW f \in Fields, NEW v \in CellValues[f],
              UpdateRow(i, f, v)
       PROVE  TypeOK'
  <2>1. rows[i] \in Row /\ i \in DOMAIN rows /\ IsTable(rows)
    BY <1>12 DEF UpdateRow, TypeOK, IsTable
  <2>2. PICK new \in Row : rows' = [rows EXCEPT ![i] = new]
    BY <1>12, <2>1, EditedRow, Zenon DEF UpdateRow
  <2>3. IsTable(rows')
    <3>1. PICK t : t = rows
      OBVIOUS
    <3>2. IsTable([t EXCEPT ![i] = new])
      BY <2>1, <3>1, TableChanges
    <3> QED
      BY <2>2, <3>1, <3>2
  <2>4. edits' \in Nat /\ missing' \subseteq Fixtures
    BY <1>12 DEF UpdateRow, TypeOK
  <2> QED
    BY <1>12, <2>3, <2>4, EditTypes DEF UpdateRow
<1>13. ASSUME NEW i \in 1 .. MaxRows, NEW p \in Passes, NEW n \in 0 .. MaxTickets,
              UpdateAllocation(i, p, n)
       PROVE  TypeOK'
  <2>1. rows[i] \in Row /\ i \in DOMAIN rows /\ IsTable(rows)
    BY <1>13 DEF UpdateAllocation, TypeOK, IsTable
  <2>2. PICK new \in Row : rows' = [rows EXCEPT ![i] = new]
    BY <1>13, <2>1, ReallocatedRow, Zenon DEF UpdateAllocation
  <2>3. IsTable(rows')
    <3>1. PICK t : t = rows
      OBVIOUS
    <3>2. IsTable([t EXCEPT ![i] = new])
      BY <2>1, <3>1, TableChanges
    <3> QED
      BY <2>2, <3>1, <3>2
  <2>4. edits' \in Nat /\ missing' \subseteq Fixtures
    BY <1>13 DEF UpdateAllocation, TypeOK
  <2> QED
    BY <1>13, <2>3, <2>4, EditTypes DEF UpdateAllocation
<1>14. ASSUME NEW m \in Fixtures, AddRow(m) PROVE TypeOK'
  <2>1. PICK new \in Row : rows' = Append(rows, new)
    BY <1>14, AddedRow, Zenon DEF AddRow
  <2>2. rows \in Seq(Row) /\ Len(rows) < MaxRows /\ MaxRows \in Nat
    BY <1>14, ImportAssumption DEF AddRow, TypeOK, IsTable, ImportAssumption
  <2>3. IsTable(rows')
    BY <2>1, <2>2, TableGrows DEF IsTable
  <2>4. edits' \in Nat /\ missing' \subseteq Fixtures
    BY <1>14 DEF AddRow, TypeOK
  <2> QED
    BY <1>14, <2>3, <2>4, EditTypes DEF AddRow
<1>15. CASE PreviewAnswered
  BY <1>15, PreviewTable DEF PreviewAnswered, TypeOK, IsTable
<1>16. CASE PreviewFails
  BY <1>16 DEF PreviewFails, TypeOK, IsTable
<1> QED
  BY <1>1, <1>2, <1>3, <1>4, <1>5, <1>6, <1>7, <1>8, <1>9, <1>10, <1>11, <1>12,
     <1>13, <1>14, <1>15, <1>16 DEF WizardNext, PreviewNext

(* An answer changes the panel of the draft, if it is still there.         *)
LEMMA AnswerTypes ==
    ASSUME TypeOK, NEW b \in Batches, NEW res \in Batches \union {NoBatch},
           Answer(b, res)
    PROVE  /\ loading' \in {"no", "commit", "revert"}
           /\ result' \in Batches \union {NoBatch}
BY DEF Answer, panel, TypeOK

LEMMA RevertAnswerTypes ==
    ASSUME TypeOK, NEW b \in Batches, NEW stepTo \in {"done", "failed"},
           NEW res \in Batches \union {NoBatch}, RevertAnswer(b, stepTo, res)
    PROVE  /\ loading' \in {"no", "commit", "revert"}
           /\ result' \in Batches \union {NoBatch}
           /\ revert' \in [Batches -> {"unsent", "sent", "found", "deleting",
                                        "done", "failed"}]
           /\ UNCHANGED <<modal, table, commit, payload, sender>>
BY DEF RevertAnswer, panel, TypeOK

LEMMA WithoutTypes ==
    ASSUME TypeOK, NEW gone, Without(gone)
    PROVE  /\ DOMAIN sales' \subseteq Ids /\ edited' \subseteq DOMAIN sales'
           /\ DOMAIN sales' = DOMAIN sales \ gone
           /\ \A id \in DOMAIN sales' : sales'[id] = sales[id]
           /\ UNCHANGED <<matches, passes, counted>>
BY DEF Without, Restrict, TypeOK

LEMMA RequestTypes ==
    ASSUME TypeOK, NEW b \in Batches, RequestNext(b)
    PROVE  TypeOK'
<1> USE DEF database, modal, table, panel, requests
<1>1. CASE ValidateBatch(b)
  <2>1. /\ payload' \in [Batches -> [sel : Seq(Passes), rows : Seq(Row)]]
        /\ \A c \in Batches : IsTable(payload'[c].rows)
    <3>1. PICK t : t = Validated(b) /\ IsTable(t)
      BY <1>1, ValidatedTable
    <3>2. payload' = [payload EXCEPT ![b].rows = t]
      BY <1>1, <3>1 DEF ValidateBatch
    <3>3. t \in Seq(Row) /\ payload \in [Batches -> [sel : Seq(Passes), rows : Seq(Row)]]
      BY <3>1 DEF TypeOK, IsTable
    <3>4. payload' \in [Batches -> [sel : Seq(Passes), rows : Seq(Row)]]
      BY <3>2, <3>3
    <3>5. ASSUME NEW c \in Batches
          PROVE  payload'[c].rows \in {t, payload[c].rows}
      BY <3>2, <3>3
    <3> QED
      BY <3>1, <3>4, <3>5 DEF TypeOK
  <2> QED
    BY <1>1, <2>1 DEF ValidateBatch, TypeOK, IsTable
<1>2. ASSUME commit[b] \in {"sent", "valid"}, Refuse(b) PROVE TypeOK'
  BY <1>2, AnswerTypes DEF Refuse, TypeOK, IsTable
<1>3. CASE RefuseBatch(b)
  BY <1>2, <1>3 DEF RefuseBatch
<1>4. CASE BulkCreate(b)
  <2>1. PICK ids : ids = {<<b, j>> : j \in DOMAIN payload[b].rows}
    OBVIOUS
  <2>2. DOMAIN payload[b].rows \subseteq 1 .. MaxRows
    <3>1. PICK t : t = payload[b].rows
      OBVIOUS
    <3>2. t \in Seq(Row) /\ Len(t) <= MaxRows
      BY <3>1 DEF TypeOK, IsTable
    <3>3. DOMAIN t = 1 .. Len(t) /\ Len(t) \in Nat
      BY <3>2
    <3> QED
      BY <3>1, <3>2, <3>3, ImportAssumption DEF ImportAssumption
  <2>3. ids \subseteq Ids
    BY <2>1, <2>2 DEF Ids
  <2>4. DOMAIN sales' = DOMAIN sales \union ids
    BY <1>4, <2>1 DEF BulkCreate
  <2> QED
    BY <1>4, <2>3, <2>4 DEF BulkCreate, TypeOK, IsTable
<1>5. CASE CommitFails(b)
  BY <1>2, <1>5 DEF CommitFails
<1>6. CASE CommitAnswered(b)
  BY <1>6, AnswerTypes DEF CommitAnswered, TypeOK, IsTable
<1>7. CASE CommitAnswerLost(b)
  BY <1>7, AnswerTypes DEF CommitAnswerLost, TypeOK, IsTable
<1>8. CASE FindTargets(b)
  BY <1>8 DEF FindTargets, TypeOK, IsTable
<1>9. CASE NothingToRevert(b)
  BY <1>9, RevertAnswerTypes DEF NothingToRevert, TypeOK, IsTable
<1>10. CASE DeleteHistories(b)
  <2>1. SalesOf(b) \subseteq Ids
    BY DEF SalesOf, TypeOK
  <2> QED
    BY <1>10, <2>1 DEF DeleteHistories, TypeOK, IsTable
<1>11. CASE DeleteSales(b)
  BY <1>11, WithoutTypes, RevertAnswerTypes DEF DeleteSales, TypeOK, IsTable
<1>12. CASE RevertFails(b)
  BY <1>12, WithoutTypes, RevertAnswerTypes DEF RevertFails, TypeOK, IsTable
<1> QED
  BY <1>1, <1>3, <1>4, <1>5, <1>6, <1>7, <1>8, <1>9, <1>10, <1>11, <1>12
     DEF RequestNext

LEMMA OthersTypes ==
    ASSUME TypeOK, OthersNext
    PROVE  TypeOK'
<1> USE DEF modal, table, panel, requests
<1>1. ASSUME NEW m \in Fixtures, AddMatch(m) PROVE TypeOK'
  BY <1>1 DEF AddMatch, TypeOK, IsTable
<1>2. ASSUME NEW id, EditSale(id) PROVE TypeOK'
  BY <1>2 DEF EditSale, TypeOK, IsTable
<1>3. ASSUME NEW id, DeleteSale(id) PROVE TypeOK'
  BY <1>3, WithoutTypes DEF DeleteSale, TypeOK, IsTable
<1>4. ASSUME NEW p \in Passes, CountAllocations(p) PROVE TypeOK'
  BY <1>4 DEF CountAllocations, TypeOK, IsTable
<1>5. ASSUME NEW p \in Passes, RemovePass(p) PROVE TypeOK'
  BY <1>5 DEF RemovePass, TypeOK, IsTable
<1> QED
  BY <1>1, <1>2, <1>3, <1>4, <1>5 DEF OthersNext

-----------------------------------------------------------------------------
(* Batches and their answers.                                              *)

BatchesInv == BatchInv /\ MountedInv /\ SenderInv /\ UndoneIsGone

LEMMA SalesShrink ==
    ASSUME DOMAIN sales' \subseteq DOMAIN sales
    PROVE  \A b \in Batches : SalesOf(b)' \subseteq SalesOf(b)
BY DEF SalesOf

(* A step that neither sends nor answers a batch: the panel of the mounted *)
(* draft is as it was, or the draft is not mounted any more.               *)
LEMMA QuietBatches ==
    ASSUME TypeOK, BatchesInv, DOMAIN sales' \subseteq DOMAIN sales,
           UNCHANGED <<commit, sender, draft>>,
           \A b \in Batches : revert'[b] # revert[b] =>
             commit[b] = "answered" /\ revert'[b] # "done",
           \/ step' # "draft" /\ result' \in {result, NoBatch}
           \/ UNCHANGED <<step, loading, result>>
           \/ /\ step' = step /\ result' = result
              /\ loading = "no" /\ result # NoBatch
    PROVE  BatchesInv'
<1>1. \A b \in Batches : SalesOf(b)' \subseteq SalesOf(b)
  BY SalesShrink
<1>2. BatchInv'
  BY <1>1 DEF BatchesInv, BatchInv
<1>3. \A b \in Batches : Spent(b) => Spent(b)'
  BY <1>1 DEF Spent
<1>4. MountedInv'
  BY <1>3 DEF BatchesInv, MountedInv, UnderWay
<1>5. SenderInv'
  BY <1>3 DEF BatchesInv, SenderInv
<1>6. UndoneIsGone'
  BY <1>1 DEF BatchesInv, UndoneIsGone
<1> QED
  BY <1>2, <1>4, <1>5, <1>6 DEF BatchesInv

(* A draft that is mounted anew has sent nothing.                          *)
LEMMA PreviewBatches ==
    ASSUME TypeOK, BatchesInv, PreviewAnswered
    PROVE  BatchesInv'
<1>1. /\ UNCHANGED <<sales, commit, sender, revert>>
      /\ draft' = draft + 1 /\ result' = NoBatch
  BY DEF PreviewAnswered, database, requests
<1>2. \A b \in Batches : SalesOf(b)' = SalesOf(b) /\ Spent(b)' = Spent(b)
  BY <1>1 DEF SalesOf, Spent
<1>3. draft \in Nat /\ \A b \in Batches : sender[b] \in Nat /\ sender[b] <= draft
  BY DEF TypeOK, BatchesInv, BatchInv
<1>4. \A b \in Batches : sender[b] # draft' /\ sender[b] <= draft'
  BY <1>1, <1>3
<1>5. BatchInv'
  BY <1>1, <1>2, <1>4 DEF BatchesInv, BatchInv
<1>6. MountedInv'
  BY <1>1, <1>4 DEF MountedInv
<1>7. SenderInv' /\ UndoneIsGone'
  BY <1>1, <1>2 DEF BatchesInv, SenderInv, UndoneIsGone
<1> QED
  BY <1>5, <1>6, <1>7 DEF BatchesInv

(* A draft sends a batch only when those it has sent before are spent.     *)
LEMMA SendBatches ==
    ASSUME TypeOK, BatchesInv, Validate
    PROVE  BatchesInv'
<1>1. PICK b \in Batches : Send(b)
  BY DEF Validate
<1>2. /\ step = "draft" /\ loading = "no" /\ result = NoBatch
      /\ UNCHANGED <<sales, step, draft, result, revert>> /\ loading' = "commit"
      /\ commit[b] = "unsent"
      /\ commit' = [commit EXCEPT ![b] = "sent"]
      /\ sender' = [sender EXCEPT ![b] = draft]
  BY <1>1 DEF Validate, Editing, CanValidate, Send, database, modal, table
<1>3. /\ commit'[b] = "sent" /\ sender'[b] = draft
      /\ \A c \in Batches \ {b} : commit'[c] = commit[c] /\ sender'[c] = sender[c]
  BY <1>2 DEF TypeOK
<1>4. \A c \in Batches : SalesOf(c)' = SalesOf(c)
  BY <1>2 DEF SalesOf
<1>5. \A c \in Batches \ {b} : Spent(c)' = Spent(c)
  BY <1>3, <1>4 DEF Spent
<1>6. NoBatch \notin Batches /\ draft \in Nat /\ draft <= draft
  BY ImportAssumption DEF TypeOK, ImportAssumption
<1>7. \A c \in Batches \ {b} : sender[c] = draft /\ commit[c] # "unsent" => Spent(c)
  BY <1>2, <1>6 DEF BatchesInv, MountedInv
<1>8. BatchInv'
  BY <1>2, <1>3, <1>4, <1>6 DEF BatchesInv, BatchInv
<1>9. MountedInv'
  BY <1>2, <1>3, <1>5, <1>7 DEF MountedInv, UnderWay
<1>10. SenderInv'
  BY <1>3, <1>5, <1>7 DEF BatchesInv, SenderInv
<1>11. UndoneIsGone'
  BY <1>2, <1>4 DEF BatchesInv, UndoneIsGone
<1> QED
  BY <1>8, <1>9, <1>10, <1>11 DEF BatchesInv

(* A batch that was under way is answered with res, or goes on.  Of the    *)
(* batches of its draft it is the only one that is not spent.              *)
LEMMA AnswerBatches ==
    ASSUME TypeOK, BatchesInv, NEW b \in Batches, UnderWay(b),
           UNCHANGED <<step, draft, sender, revert>>,
           NEW st, commit' = [commit EXCEPT ![b] = st],
           \A c \in Batches \ {b} : SalesOf(c)' = SalesOf(c),
           \/ /\ st = "valid" /\ commit[b] = "sent"
              /\ SalesOf(b)' = SalesOf(b) /\ UNCHANGED panel
           \/ /\ st = "created" /\ UNCHANGED panel
           \/ /\ st = "refused" /\ commit[b] # "created"
              /\ SalesOf(b)' = SalesOf(b) /\ Answer(b, NoBatch)
           \/ /\ st = "answered" /\ Answer(b, b)
           \/ /\ st = "lost" /\ Answer(b, NoBatch)
    PROVE  BatchesInv'
<1>1. /\ commit'[b] = st
      /\ \A c \in Batches \ {b} : commit'[c] = commit[c]
      /\ commit[b] \in {"sent", "valid", "created"}
  BY DEF TypeOK, UnderWay
<1>2. \A c \in Batches \ {b} : Spent(c)' = Spent(c)
  BY <1>1 DEF Spent
<1>3. ~Spent(b) /\ NoBatch \notin Batches
  BY <1>1, ImportAssumption DEF Spent, ImportAssumption
<1>4. \A c \in Batches \ {b} :
         sender[c] = sender[b] /\ commit[c] # "unsent" => Spent(c)
  BY <1>1, <1>3 DEF BatchesInv, SenderInv
<1>5. \/ UNCHANGED <<loading, result>>
      \/ /\ draft = sender[b] /\ step = "draft" /\ loading = "commit"
         /\ loading' = "no" /\ result' = IF st = "answered" THEN b ELSE NoBatch
  BY DEF Answer, panel
<1>6. st \in {"answered", "refused", "lost"} /\ step = "draft" /\ sender[b] = draft
        => loading' = "no" /\ result' = IF st = "answered" THEN b ELSE NoBatch
  BY <1>1, <1>3 DEF BatchesInv, MountedInv, UnderWay, Answer
<1>7. BatchInv'
  <2>1. revert[b] = "unsent" /\ result # b
    BY <1>1, <1>3 DEF BatchesInv, BatchInv
  <2>2. result' # NoBatch => commit'[result'] = "answered"
    BY <1>1, <1>3, <1>5, <2>1 DEF BatchesInv, BatchInv, TypeOK
  <2>3. ASSUME NEW c \in Batches
        PROVE  /\ sender'[c] <= draft'
               /\ commit'[c] \in {"unsent", "sent", "valid", "refused"} => SalesOf(c)' = {}
               /\ revert'[c] # "unsent" => commit'[c] = "answered"
    BY <1>1, <2>1 DEF BatchesInv, BatchInv
  <2> QED
    BY <2>2, <2>3 DEF BatchInv
<1>8. MountedInv'
  <2>1. ASSUME NEW c \in Batches \ {b},
               step' = "draft", sender'[c] = draft', commit'[c] # "unsent"
        PROVE  \/ Spent(c)'
               \/ UnderWay(c)' /\ loading' = "commit"
               \/ commit'[c] = "answered" /\ result' = c
    BY <1>1, <1>2, <1>4, <1>5, <2>1 DEF BatchesInv, MountedInv, UnderWay
  <2>2. ASSUME step' = "draft", sender'[b] = draft'
        PROVE  \/ Spent(b)'
               \/ UnderWay(b)' /\ loading' = "commit"
               \/ commit'[b] = "answered" /\ result' = b
    <3>1. CASE st \in {"valid", "created"}
      BY <1>1, <1>3, <2>2, <3>1 DEF BatchesInv, MountedInv, UnderWay, panel
    <3>2. CASE st \in {"answered", "refused", "lost"}
      BY <1>1, <1>6, <2>2, <3>2 DEF Spent
    <3> QED
      BY <3>1, <3>2
  <2> QED
    BY <2>1, <2>2 DEF MountedInv
<1>9. SenderInv'
  <2>1. ASSUME NEW c \in Batches, NEW d \in Batches, c # d,
               sender'[c] = sender'[d], commit'[c] # "unsent", commit'[d] # "unsent"
        PROVE  Spent(c)' \/ Spent(d)'
    <3>1. CASE c = b \/ d = b
      BY <1>1, <1>2, <1>4, <2>1, <3>1
    <3>2. CASE c # b /\ d # b
      BY <1>1, <1>2, <2>1, <3>2 DEF BatchesInv, SenderInv
    <3> QED
      BY <3>1, <3>2
  <2> QED
    BY <2>1 DEF SenderInv
<1>10. UndoneIsGone'
  BY <1>1 DEF BatchesInv, BatchInv, UndoneIsGone
<1> QED
  BY <1>7, <1>8, <1>9, <1>10 DEF BatchesInv

(* A revert that is answered 200 has left nothing of the batch; the draft  *)
(* shows the batch until then.                                             *)
LEMMA RevertBatches ==
    ASSUME TypeOK, BatchesInv, NEW b \in Batches,
           revert[b] \in {"sent", "found", "deleting"},
           NEW stepTo \in {"done", "failed"},
           NEW res, res = (IF stepTo = "done" THEN NoBatch ELSE b),
           RevertAnswer(b, stepTo, res),
           DOMAIN sales' \subseteq DOMAIN sales,
           stepTo = "done" => SalesOf(b)' = {}
    PROVE  BatchesInv'
<1>1. /\ UNCHANGED <<step, draft, commit, sender>>
      /\ revert' = [revert EXCEPT ![b] = stepTo]
      /\ \/ UNCHANGED <<loading, result>>
         \/ /\ result = b /\ loading = "revert"
            /\ loading' = "no" /\ result' = res
  BY DEF RevertAnswer, modal, table, panel
<1>2. /\ revert'[b] = stepTo
      /\ \A c \in Batches \ {b} : revert'[c] = revert[c]
      /\ commit[b] = "answered"
  BY <1>1 DEF TypeOK, BatchesInv, BatchInv
<1>3. \A c \in Batches : SalesOf(c)' \subseteq SalesOf(c)
  BY SalesShrink
<1>4. \A c \in Batches : Spent(c) => Spent(c)'
  BY <1>1, <1>3 DEF Spent
<1>5. BatchInv'
  BY <1>1, <1>2, <1>3 DEF BatchesInv, BatchInv
<1>6. stepTo = "done" => Spent(b)'
  BY <1>1, <1>2 DEF Spent
<1>7. MountedInv'
  <2>1. ASSUME NEW c \in Batches,
               step' = "draft", sender'[c] = draft', commit'[c] # "unsent"
        PROVE  \/ Spent(c)'
               \/ UnderWay(c)' /\ loading' = "commit"
               \/ commit'[c] = "answered" /\ result' = c
    BY <1>1, <1>4, <1>6, <2>1 DEF BatchesInv, MountedInv, UnderWay
  <2> QED
    BY <2>1 DEF MountedInv
<1>8. SenderInv'
  BY <1>1, <1>4 DEF BatchesInv, SenderInv
<1>9. UndoneIsGone'
  BY <1>1, <1>2, <1>3 DEF BatchesInv, UndoneIsGone
<1> QED
  BY <1>5, <1>7, <1>8, <1>9 DEF BatchesInv

-----------------------------------------------------------------------------
(* Every step keeps what is known of the batches.                          *)

LEMMA DeletedSales ==
    ASSUME TypeOK, NEW gone, Without(gone)
    PROVE  /\ DOMAIN sales' = DOMAIN sales \ gone
           /\ DOMAIN sales' \subseteq DOMAIN sales
           /\ \A b \in Batches : gone = SalesOf(b) => SalesOf(b)' = {}
<1>1. DOMAIN sales' = DOMAIN sales \ gone
  BY WithoutTypes
<1>2. ASSUME NEW b \in Batches, gone = SalesOf(b)
      PROVE  SalesOf(b)' = {}
  BY <1>1, <1>2 DEF SalesOf
<1> QED
  BY <1>1, <1>2

LEMMA WizardBatches ==
    ASSUME TypeOK, BatchesInv, WizardNext \/ PreviewNext
    PROVE  BatchesInv'
<1> USE DEF database, modal, table, panel, requests
<1>1. CASE OpenDialog
  BY <1>1, QuietBatches DEF OpenDialog
<1>2. CASE Close
  BY <1>2, QuietBatches DEF Close, UnmountDraft
<1>3. CASE PassesChosen
  BY <1>3, QuietBatches DEF PassesChosen
<1>4. CASE BackToPasses
  BY <1>4, QuietBatches DEF BackToPasses
<1>5. CASE SubmitUpload
  BY <1>5, QuietBatches DEF SubmitUpload
<1>6. CASE BackToUpload
  BY <1>6, QuietBatches DEF BackToUpload, UnmountDraft
<1>7. CASE Validate
  BY <1>7, SendBatches
<1>8. CASE Undo
  <2>1. /\ result \in Batches /\ commit[result] = "answered"
        /\ revert'[result] = "sent"
        /\ \A b \in Batches \ {result} : revert'[b] = revert[b]
    BY <1>8 DEF Undo, TypeOK, BatchesInv, BatchInv
  <2> QED
    BY <1>8, <2>1, QuietBatches DEF Undo
<1>9. ASSUME NEW p \in Passes, TogglePass(p) PROVE BatchesInv'
  BY <1>9, QuietBatches DEF TogglePass
<1>10. ASSUME NEW f \in Files, ChooseFile(f) PROVE BatchesInv'
  BY <1>10, QuietBatches DEF ChooseFile
<1>11. ASSUME NEW i \in 1 .. MaxRows, DeleteRow(i) PROVE BatchesInv'
  BY <1>11, QuietBatches DEF DeleteRow
<1>12. ASSUME NEW i \in 1 .. MaxRows, NEW f \in Fields, NEW v \in CellValues[f],
              UpdateRow(i, f, v)
       PROVE  BatchesInv'
  BY <1>12, QuietBatches DEF UpdateRow
<1>13. ASSUME NEW i \in 1 .. MaxRows, NEW p \in Passes, NEW n \in 0 .. MaxTickets,
              UpdateAllocation(i, p, n)
       PROVE  BatchesInv'
  BY <1>13, QuietBatches DEF UpdateAllocation
<1>14. ASSUME NEW m \in Fixtures, AddRow(m) PROVE BatchesInv'
  BY <1>14, QuietBatches DEF AddRow
<1>15. CASE PreviewAnswered
  BY <1>15, PreviewBatches
<1>16. CASE PreviewFails
  BY <1>16, QuietBatches DEF PreviewFails
<1> QED
  BY <1>1, <1>2, <1>3, <1>4, <1>5, <1>6, <1>7, <1>8, <1>9, <1>10, <1>11, <1>12,
     <1>13, <1>14, <1>15, <1>16 DEF WizardNext, PreviewNext

LEMMA RequestBatches ==
    ASSUME TypeOK, BatchesInv, NEW b \in Batches, RequestNext(b)
    PROVE  BatchesInv'
<1> USE DEF database, modal, table, requests
<1>1. CASE ValidateBatch(b)
  <2>1. \A c \in Batches : SalesOf(c)' = SalesOf(c)
    BY <1>1 DEF ValidateBatch, SalesOf
  <2> QED
    BY <1>1, <2>1, AnswerBatches DEF ValidateBatch, UnderWay
<1>2. ASSUME commit[b] \in {"sent", "valid"}, Refuse(b) PROVE BatchesInv'
  <2>1. \A c \in Batches : SalesOf(c)' = SalesOf(c)
    BY <1>2 DEF Refuse, SalesOf
  <2> QED
    BY <1>2, <2>1, AnswerBatches DEF Refuse, UnderWay
<1>3. CASE RefuseBatch(b)
  BY <1>2, <1>3 DEF RefuseBatch
<1>4. CASE BulkCreate(b)
  <2>1. DOMAIN sales' = DOMAIN sales \union {<<b, j>> : j \in DOMAIN payload[b].rows}
    BY <1>4 DEF BulkCreate
  <2>2. \A c \in Batches \ {b} : SalesOf(c)' = SalesOf(c)
    BY <2>1 DEF SalesOf
  <2> QED
    BY <1>4, <2>2, AnswerBatches DEF BulkCreate, UnderWay
<1>5. CASE CommitFails(b)
  BY <1>2, <1>5 DEF CommitFails
<1>6. CASE CommitAnswered(b)
  <2>1. \A c \in Batches : SalesOf(c)' = SalesOf(c)
    BY <1>6 DEF CommitAnswered, SalesOf
  <2> QED
    BY <1>6, <2>1, AnswerBatches DEF CommitAnswered, UnderWay
<1>7. CASE CommitAnswerLost(b)
  <2>1. \A c \in Batches : SalesOf(c)' = SalesOf(c)
    BY <1>7 DEF CommitAnswerLost, SalesOf
  <2> QED
    BY <1>7, <2>1, AnswerBatches DEF CommitAnswerLost, UnderWay
<1>8. ASSUME revert[b] # "unsent", NEW st, st # "done",
             revert' = [revert EXCEPT ![b] = st],
             UNCHANGED <<sales, step, loading, result, commit, sender, draft>>
      PROVE  BatchesInv'
  <2>1. \A c \in Batches \ {b} : revert'[c] = revert[c]
    BY <1>8 DEF TypeOK
  <2>2. revert'[b] # "done" /\ commit[b] = "answered"
    BY <1>8 DEF TypeOK, BatchesInv, BatchInv
  <2> QED
    BY <1>8, <2>1, <2>2, QuietBatches
<1>9. CASE FindTargets(b)
  BY <1>8, <1>9 DEF FindTargets, panel
<1>10. CASE DeleteHistories(b)
  BY <1>8, <1>10 DEF DeleteHistories, panel
<1>11. CASE NothingToRevert(b)
  <2>1. SalesOf(b)' = {}
    BY <1>11 DEF NothingToRevert, SalesOf
  <2> QED
    BY <1>11, <2>1, RevertBatches DEF NothingToRevert
<1>12. CASE DeleteSales(b)
  BY <1>12, DeletedSales, RevertBatches DEF DeleteSales
<1>13. CASE RevertFails(b)
  <2>1. DOMAIN sales' \subseteq DOMAIN sales
    BY <1>13, DeletedSales DEF RevertFails
  <2> QED
    BY <1>13, <2>1, RevertBatches DEF RevertFails
<1> QED
  BY <1>1, <1>3, <1>4, <1>5, <1>6, <1>7, <1>9, <1>10, <1>11, <1>12, <1>13
     DEF RequestNext

LEMMA OthersBatches ==
    ASSUME TypeOK, BatchesInv, OthersNext
    PROVE  BatchesInv'
<1> USE DEF modal, table, panel, requests
<1>1. DOMAIN sales' \subseteq DOMAIN sales
  <2>1. ASSUME NEW id, DeleteSale(id) PROVE DOMAIN sales' \subseteq DOMAIN sales
    BY <2>1, DeletedSales DEF DeleteSale
  <2> QED
    BY <2>1 DEF OthersNext, AddMatch, EditSale, CountAllocations, RemovePass
<1>2. UNCHANGED <<modal, table, panel, requests>>
  BY DEF OthersNext, AddMatch, EditSale, DeleteSale, CountAllocations, RemovePass
<1> QED
  BY <1>1, <1>2, QuietBatches

LEMMA BatchesStep ==
    ASSUME TypeOK, BatchesInv, [Next]_vars
    PROVE  BatchesInv'
<1>1. CASE UNCHANGED vars
  BY <1>1, QuietBatches DEF vars, database, modal, table, panel, requests
<1> QED
  BY <1>1, WizardBatches, RequestBatches, OthersBatches DEF Next

-----------------------------------------------------------------------------
(* The sales, and the rows that are about to become sales.                 *)

SalesInv == PayloadInv /\ ImportedSalesAreSound /\ PassesInUseStay

(* Matches stay, and sales are as they were imported: a step that neither  *)
(* validates nor creates a batch need only leave the passes in use.        *)
LEMMA SalesKept ==
    ASSUME SalesInv, matches \subseteq matches',
           \A b \in Batches : commit'[b] = "valid" =>
             commit[b] = "valid" /\ payload'[b].rows = payload[b].rows,
           DOMAIN sales' \subseteq DOMAIN sales,
           \A id \in DOMAIN sales' : sales'[id] = sales[id],
           \A id \in DOMAIN sales' :
             PassesOf(sales[id].alloc) \intersect passes \subseteq passes'
    PROVE  SalesInv'
<1>1. PayloadInv'
  BY DEF SalesInv, PayloadInv, SoundSale
<1>2. ImportedSalesAreSound'
  BY DEF SalesInv, ImportedSalesAreSound, SoundSale
<1>3. PassesInUseStay'
  BY DEF SalesInv, PassesInUseStay
<1> QED
  BY <1>1, <1>2, <1>3 DEF SalesInv

LEMMA WizardSales ==
    ASSUME TypeOK, SalesInv, WizardNext \/ PreviewNext
    PROVE  SalesInv'
<1>1. UNCHANGED database
  BY DEF WizardNext, PreviewNext, OpenDialog, Close, PassesChosen, BackToPasses,
         SubmitUpload, BackToUpload, Validate, Send, Undo, TogglePass, ChooseFile,
         DeleteRow, UpdateRow, UpdateAllocation, AddRow, PreviewAnswered,
         PreviewFails
<1>2. ASSUME NEW b \in Batches, commit'[b] = "valid"
      PROVE  commit[b] = "valid" /\ payload'[b].rows = payload[b].rows
  <2>1. CASE UNCHANGED <<commit, payload>>
    BY <1>2, <2>1
  <2>2. ASSUME NEW c, Send(c)
        PROVE  commit[b] = "valid" /\ payload'[b].rows = payload[b].rows
    <3>1. c # b
      BY <1>2, <2>2 DEF Send, TypeOK
    <3> QED
      BY <1>2, <2>2, <3>1 DEF Send, TypeOK
  <2> QED
    BY <2>1, <2>2
       DEF WizardNext, PreviewNext, OpenDialog, Close, PassesChosen, BackToPasses,
           SubmitUpload, BackToUpload, Validate, Undo, TogglePass, ChooseFile,
           DeleteRow, UpdateRow, UpdateAllocation, AddRow, PreviewAnswered,
           PreviewFails, requests
<1> QED
  BY <1>1, <1>2, SalesKept DEF database

LEMMA RequestSales ==
    ASSUME TypeOK, SalesInv, NEW b \in Batches, RequestNext(b)
    PROVE  SalesInv'
<1> USE DEF database
<1>1. CASE ValidateBatch(b)
  <2>1. PICK t : t = Validated(b) /\ \A i \in DOMAIN t : SoundSale(SaleOf(t[i]))
    BY <1>1, ValidatedTable
  <2>2. /\ UNCHANGED database
        /\ payload'[b].rows = t
        /\ \A c \in Batches \ {b} :
             payload'[c] = payload[c] /\ commit'[c] = commit[c]
    BY <1>1, <2>1 DEF ValidateBatch, TypeOK
  <2>3. \A i \in DOMAIN t : SoundSale(SaleOf(t[i]))'
    BY <2>1, <2>2 DEF SoundSale
  <2>4. \A c \in Batches \ {b} : commit'[c] = "valid" =>
           \A i \in DOMAIN payload'[c].rows : SoundSale(SaleOf(payload[c].rows[i]))'
    BY <2>2 DEF SalesInv, PayloadInv, SoundSale
  <2>5. PayloadInv'
    BY <2>2, <2>3, <2>4 DEF PayloadInv
  <2>6. ImportedSalesAreSound' /\ PassesInUseStay'
    BY <2>2 DEF SalesInv, ImportedSalesAreSound, SoundSale, PassesInUseStay
  <2> QED
    BY <2>5, <2>6 DEF SalesInv
<1>2. CASE BulkCreate(b)
  <2>1. PICK ids : ids = {<<b, j>> : j \in DOMAIN payload[b].rows}
    OBVIOUS
  <2>2. /\ UNCHANGED <<matches, passes, payload>>
        /\ \A c \in Batches : commit'[c] = "valid" => commit[c] = "valid"
        /\ commit[b] = "valid"
    BY <1>2 DEF BulkCreate, TypeOK
  <2>3. sales' = [id \in DOMAIN sales \union ids |->
                    IF id \in ids THEN SaleOf(payload[b].rows[id[2]])
                                  ELSE sales[id]]
    BY <1>2, <2>1, Zenon DEF BulkCreate
  <2>4. ASSUME NEW id \in DOMAIN sales'
        PROVE  \/ id \in DOMAIN sales /\ sales'[id] = sales[id]
               \/ \E j \in DOMAIN payload[b].rows :
                    sales'[id] = SaleOf(payload[b].rows[j])
    BY <2>1, <2>3, <2>4
  <2>5. PayloadInv'
    <3>1. ASSUME NEW c \in Batches, commit'[c] = "valid",
                 NEW i \in DOMAIN payload'[c].rows
          PROVE  SoundSale(SaleOf(payload[c].rows[i]))'
      <4>1. SoundSale(SaleOf(payload[c].rows[i]))
        BY <2>2, <3>1 DEF SalesInv, PayloadInv
      <4> QED
        BY <2>2, <4>1 DEF SoundSale
    <3> QED
      BY <3>1 DEF PayloadInv
  <2>6. ASSUME NEW id \in DOMAIN sales'
        PROVE  SoundSale(sales[id])' /\ PassesOf(sales'[id].alloc) \subseteq passes'
    <3>1. CASE id \in DOMAIN sales /\ sales'[id] = sales[id]
      BY <2>2, <3>1 DEF SalesInv, ImportedSalesAreSound, SoundSale, PassesInUseStay
    <3>2. ASSUME NEW j \in DOMAIN payload[b].rows,
                 sales'[id] = SaleOf(payload[b].rows[j])
          PROVE  SoundSale(sales[id])' /\ PassesOf(sales'[id].alloc) \subseteq passes'
      <4>1. SoundSale(SaleOf(payload[b].rows[j]))
        BY <2>2 DEF SalesInv, PayloadInv
      <4>2. SoundSale(sales[id])'
        BY <2>2, <3>2, <4>1 DEF SoundSale
      <4>3. sales'[id].alloc = payload[b].rows[j].alloc
        BY <3>2 DEF SaleOf
      <4> QED
        BY <1>2, <2>2, <4>2, <4>3 DEF BulkCreate
    <3> QED
      BY <2>4, <2>6, <3>1, <3>2
  <2> QED
    BY <2>5, <2>6 DEF SalesInv, ImportedSalesAreSound, PassesInUseStay
<1>3. CASE ~ValidateBatch(b) /\ ~BulkCreate(b)
  <2>1. UNCHANGED <<matches, passes, payload>>
    BY <1>3, WithoutTypes
       DEF RequestNext, RefuseBatch, CommitFails, Refuse, CommitAnswered,
           CommitAnswerLost, FindTargets, NothingToRevert, DeleteHistories,
           DeleteSales, RevertFails, RevertAnswer
  <2>2. /\ DOMAIN sales' \subseteq DOMAIN sales
        /\ \A id \in DOMAIN sales' : sales'[id] = sales[id]
    <3>1. ASSUME NEW gone, Without(gone)
          PROVE  /\ DOMAIN sales' \subseteq DOMAIN sales
                 /\ \A id \in DOMAIN sales' : sales'[id] = sales[id]
      BY <3>1, WithoutTypes
    <3> QED
      BY <1>3, <3>1
         DEF RequestNext, RefuseBatch, CommitFails, Refuse, CommitAnswered,
             CommitAnswerLost, FindTargets, NothingToRevert, DeleteHistories,
             DeleteSales, RevertFails
  <2>3. \/ commit' = commit
        \/ \E st \in {"refused", "answered", "lost"} :
             commit' = [commit EXCEPT ![b] = st]
    BY <1>3 DEF RequestNext, RefuseBatch, CommitFails, Refuse, CommitAnswered,
         CommitAnswerLost, FindTargets, NothingToRevert, DeleteHistories,
         DeleteSales, RevertFails, RevertAnswer
  <2>4. \A c \in Batches : commit'[c] = "valid" => commit[c] = "valid"
    BY <2>3 DEF TypeOK
  <2> QED
    BY <2>1, <2>2, <2>4, SalesKept
<1> QED
  BY <1>1, <1>2, <1>3

LEMMA OthersSales ==
    ASSUME TypeOK, SalesInv, OthersNext
    PROVE  SalesInv'
<1> USE DEF requests
<1>1. ASSUME NEW m \in Fixtures, AddMatch(m) PROVE SalesInv'
  BY <1>1, SalesKept DEF AddMatch
<1>2. ASSUME NEW id, EditSale(id) PROVE SalesInv'
  BY <1>2, SalesKept DEF EditSale
<1>3. ASSUME NEW id, DeleteSale(id) PROVE SalesInv'
  BY <1>3, WithoutTypes, SalesKept DEF DeleteSale
<1>4. ASSUME NEW p \in Passes, CountAllocations(p) PROVE SalesInv'
  BY <1>4, SalesKept DEF CountAllocations
<1>5. ASSUME NEW p \in Passes, RemovePass(p) PROVE SalesInv'
  <2>1. UNCHANGED <<matches, sales, requests>>
    BY <1>5 DEF RemovePass
  <2>2. \A id \in DOMAIN sales :
          PassesOf(sales[id].alloc) \intersect passes \subseteq passes'
    BY <1>5 DEF RemovePass, InUse
  <2> QED
    BY <2>1, <2>2, SalesKept
<1> QED
  BY <1>1, <1>2, <1>3, <1>4, <1>5 DEF OthersNext

LEMMA SalesStep ==
    ASSUME TypeOK, SalesInv, [Next]_vars
    PROVE  SalesInv'
<1>1. CASE UNCHANGED vars
  BY <1>1, SalesKept DEF vars, database, requests
<1> QED
  BY <1>1, WizardSales, RequestSales, OthersSales DEF Next

-----------------------------------------------------------------------------
(* The draft.                                                              *)

LEMMA DraftStep ==
    ASSUME TypeOK, DraftInv, [Next]_vars
    PROVE  DraftInv'
<1>1. CASE UNCHANGED <<rows, edits, previewed>>
  BY <1>1 DEF DraftInv
<1>2. CASE UnmountDraft
  <2>1. /\ rows' = << >> /\ previewed'.sel = << >> /\ previewed'.home = {}
    BY <1>2 DEF UnmountDraft, NoRows
  <2> QED
    BY <2>1, NothingTyped DEF DraftInv
<1>3. CASE edits' = edits + 1 /\ UNCHANGED previewed
  <2>1. edits' # 0
    BY <1>3 DEF TypeOK
  <2> QED
    BY <1>3, <2>1 DEF DraftInv
<1>4. CASE PreviewAnswered
  BY <1>4, PreviewTable
<1>5. ASSUME WizardNext \/ PreviewNext
      PROVE  \/ UNCHANGED <<rows, edits, previewed>>
             \/ UnmountDraft
             \/ edits' = edits + 1 /\ UNCHANGED previewed
             \/ PreviewAnswered
  BY <1>5 DEF WizardNext, PreviewNext, OpenDialog, Close, PassesChosen,
         BackToPasses, SubmitUpload, BackToUpload, Validate, Send, Undo,
         TogglePass, ChooseFile, DeleteRow, UpdateRow, UpdateAllocation, AddRow,
         PreviewFails, table
<1>6. ASSUME NEW b \in Batches, RequestNext(b)
      PROVE  UNCHANGED <<rows, edits, previewed>>
  BY <1>6 DEF RequestNext, ValidateBatch, RefuseBatch, BulkCreate, CommitFails,
         Refuse, CommitAnswered, CommitAnswerLost, FindTargets, NothingToRevert,
         DeleteHistories, DeleteSales, RevertFails, RevertAnswer, table
<1>7. ASSUME OthersNext
      PROVE  UNCHANGED <<rows, edits, previewed>>
  BY <1>7 DEF OthersNext, AddMatch, EditSale, DeleteSale, CountAllocations,
         RemovePass, table
<1> QED
  BY <1>1, <1>2, <1>3, <1>4, <1>5, <1>6, <1>7 DEF Next, vars, table

-----------------------------------------------------------------------------
(* The theorems.                                                           *)

LEMMA ImportStarts == Init => ImportInv
<1> SUFFICES ASSUME Init PROVE ImportInv
  OBVIOUS
<1> USE DEF Init
<1>1. TypeOK
  <2>1. /\ matches \subseteq Fixtures /\ missing \subseteq Fixtures
        /\ passes \subseteq Passes /\ counted \subseteq Passes
    BY ImportAssumption DEF ImportAssumption
  <2>2. DOMAIN sales \subseteq Ids /\ edited \subseteq DOMAIN sales
    OBVIOUS
  <2>3. /\ selected \in Seq(Passes) /\ uploadSel \in Seq(Passes) /\ IsTable(rows)
    BY NothingTyped
  <2>4. /\ payload \in [Batches -> [sel : Seq(Passes), rows : Seq(Row)]]
        /\ \A b \in Batches : IsTable(payload[b].rows)
    BY NothingTyped DEF Idle, IsTable
  <2>5. /\ commit \in [Batches -> {"unsent", "sent", "valid", "created",
                                   "answered", "lost", "refused"}]
        /\ revert \in [Batches -> {"unsent", "sent", "found", "deleting", "done",
                                   "failed"}]
        /\ sender \in [Batches -> Nat]
        /\ covered \in [Batches -> SUBSET Ids]
    OBVIOUS
  <2> QED
    BY <2>1, <2>2, <2>3, <2>4, <2>5 DEF TypeOK
<1>2. \A b \in Batches : SalesOf(b) = {}
  BY DEF SalesOf
<1>3. BatchInv /\ MountedInv /\ SenderInv /\ UndoneIsGone
  BY <1>2 DEF BatchInv, MountedInv, SenderInv, UndoneIsGone
<1>4. DraftInv
  BY NothingTyped DEF DraftInv, NoRows
<1>5. PayloadInv /\ ImportedSalesAreSound /\ PassesInUseStay
  BY DEF PayloadInv, ImportedSalesAreSound, PassesInUseStay
<1> QED
  BY <1>1, <1>3, <1>4, <1>5 DEF ImportInv

LEMMA ImportStep == ImportInv /\ [Next]_vars => ImportInv'
<1> SUFFICES ASSUME ImportInv, [Next]_vars PROVE ImportInv'
  OBVIOUS
<1>1. TypeOK /\ DraftInv /\ BatchesInv /\ SalesInv
  BY DEF ImportInv, BatchesInv, SalesInv
<1>2. TypeOK'
  <2>1. CASE UNCHANGED vars
    BY <1>1, <2>1
       DEF vars, database, modal, table, panel, requests, TypeOK, Ids, IsTable
  <2> QED
    BY <1>1, <2>1, WizardTypes, RequestTypes, OthersTypes DEF Next
<1>3. BatchesInv' /\ SalesInv' /\ DraftInv'
  BY <1>1, BatchesStep, SalesStep, DraftStep
<1> QED
  BY <1>2, <1>3 DEF ImportInv, BatchesInv, SalesInv

(* The inductive invariant of the import, for every number of files,       *)
(* passes, fixtures, batches and edits.                                    *)
THEOREM ImportInductive == Spec => []ImportInv
<1> QED
  BY ImportStarts, ImportStep, PTL DEF Spec

(* Every variable of the wizard, the draft, the batches and the database   *)
(* keeps its type.                                                         *)
THEOREM ImportTypes == Spec => []TypeOK
<1>1. ImportInv => TypeOK
  BY DEF ImportInv
<1> QED
  BY <1>1, ImportInductive, PTL

(* "it must be identical here and in validateCommitRows": of any draft     *)
(* nobody has edited, the commit finds in each row the error the preview   *)
(* has found, and no other.                                                *)
THEOREM PreviewPredicts == Spec => []PreviewPredictsCommit
<1>1. ImportInv => PreviewPredictsCommit
  <2> SUFFICES ASSUME ImportInv, step = "draft", edits = 0,
                      selected = previewed.sel, NEW i \in DOMAIN rows
               PROVE  OnlyError(rows[i].rowStatus) =
                        OnlyError(ValidateCommitRow(rows[i], previewed.home,
                                                    selected).rowStatus)
    BY DEF PreviewPredictsCommit
  <2>1. PICK raw, home, sel, d :
          /\ raw = rows[i].raw /\ home = previewed.home /\ sel = selected
          /\ d = rows[i]
    OBVIOUS
  <2>2. d = ResolveDraftRow(raw, home, sel)
    BY <2>1 DEF ImportInv, DraftInv
  <2>3. raw \in RawRow /\ home \in SUBSET Fixtures /\ sel \in Seq(Passes)
    <3>1. rows \in Seq(Row) /\ selected \in Seq(Passes)
      BY DEF ImportInv, TypeOK, IsTable
    <3>2. d \in Row
      BY <2>1, <3>1
    <3> QED
      BY <2>1, <3>1, <3>2 DEF ImportInv, DraftInv, Row
  <2>4. OnlyError(ValidateCommitRow(d, home, sel).rowStatus) =
          OnlyError(d.rowStatus)
    BY <2>2, <2>3, CommitAgrees
  <2> QED
    BY <2>1, <2>4
<1> QED
  BY <1>1, ImportInductive, PTL

(* bulkCreate writes sound sales only, whatever the client made of the     *)
(* rows between the preview and the commit.                                *)
THEOREM ImportedAreSound == Spec => []ImportedSalesAreSound
<1>1. ImportInv => ImportedSalesAreSound
  BY DEF ImportInv
<1> QED
  BY <1>1, ImportInductive, PTL

(* The foreign key of the allocations and the count of                     *)
(* SeasonPassesService.remove leave no ticket without its pass.            *)
THEOREM PassesStay == Spec => []PassesInUseStay
<1>1. ImportInv => PassesInUseStay
  BY DEF ImportInv
<1> QED
  BY <1>1, ImportInductive, PTL

(* A draft has one batch of sales, unless the answer of a commit was lost: *)
(* of two batches of a draft one is always spent.                          *)
THEOREM OneBatch == Spec => []OneBatchPerDraft
<1>1. ImportInv => OneBatchPerDraft
  BY DEF ImportInv, BatchInv, SenderInv, Spent, OneBatchPerDraft
<1> QED
  BY <1>1, ImportInductive, PTL

(* DELETE :batchId answers 200 only when no sale of the batch is left.     *)
THEOREM UndoneGone == Spec => []UndoneIsGone
<1>1. ImportInv => UndoneIsGone
  BY DEF ImportInv
<1> QED
  BY <1>1, ImportInductive, PTL
=============================================================================
