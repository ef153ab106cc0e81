----------------------------- MODULE SaleProofs -----------------------------
(***************************************************************************)
(* TLAPS proofs about the sale lifecycle, for every set of sales, requests,*)
(* recipients, passes and payloads: the types, the invariant IInv and what *)
(* follows from it, then the invariants that build on IInv (stamps, the    *)
(* moves of the ledger, the order of locks, what is not found).            *)
(***************************************************************************)
EXTENDS SaleProperties, TLAPS

USE DEF Answers, TxSteps, Steps

LEMMA EmptyRowType ==
    /\ EmptyRow("UNUSED") \in Row /\ EmptyRow("DELETED") \in Row
    /\ EmptyRow("PENDING") \in Row
    /\ ~Live(EmptyRow("UNUSED")) /\ ~Live(EmptyRow("DELETED"))
BY DEF EmptyRow, Row, RowStatus, SaleStatus, Live

LEMMA BlankTypes == Unread \in Snapshot /\ BlankView \in View
BY EmptyRowType DEF Unread, Snapshot, BlankView, View

LEMMA TicketTypes ==
    /\ \A a \in Allocations : sumTickets(a) \in Counts
    /\ NoAllocs \notin Allocations
BY DEF Counts, Allocations

LEMMA StoredType ==
    ASSUME TypeOK, NEW s \in Sales
    PROVE  Stored(s) \in Snapshot
BY DEF TypeOK, Stored, Snapshot

LEMMA PayloadType ==
    ASSUME NEW r \in Requests, RequestInv(r), Running(r)
    PROVE  req[r] \in Payload /\ SaleOf(r) \in Sales /\ Running(r)
BY ConstantsAssumption DEF RequestInv, Payload, SaleOf

LEMMA PatchedRowType ==
    ASSUME TypeInv, NEW r \in Requests, pc[r] \in TxSteps
    PROVE  PatchedRow(r) \in Row /\ (Live(view[r].row) => Live(PatchedRow(r)))
<1>1. req[r] \in Payload /\ view[r].row \in Row
  BY PayloadType DEF TypeInv, TypeOK, Running, View
<1>2. req[r].allocs # NoAllocs => sumTickets(req[r].allocs) \in Counts
  BY <1>1, TicketTypes DEF Payload
<1>3. CASE Kind(r) = "ungift"
  BY <1>1, <1>3 DEF PatchedRow, Row, RowStatus, SaleStatus, Live
<1>4. CASE Kind(r) # "ungift"
  <2>1. \A status, from, to, stamp : stamp \in BOOLEAN =>
           Mirror(status, from, to, stamp) \in BOOLEAN
    BY DEF Mirror
  <2>2. req[r].target \in Targets \union {"NONE"}
    BY <1>1 DEF Payload
  <2> QED
    BY <1>1, <1>2, <1>4, <2>1, <2>2
       DEF PatchedRow, PatchedTickets, Row, RowStatus, SaleStatus, Live, Targets
<1> QED
  BY <1>3, <1>4

(* A request whose own step, payload and snapshot do not move keeps its    *)
(* invariant.                                                              *)
LEMMA RequestFrame ==
    ASSUME NEW q \in Requests, RequestInv(q), pc'[q] = pc[q],
           req'[q] = req[q], snap'[q] = snap[q]
    PROVE  RequestInv(q)'
BY DEF RequestInv, Running, Kind

LEMMA InitTypeInv == Init => TypeInv
BY EmptyRowType, BlankTypes, ConstantsAssumption
   DEF Init, TypeInv, TypeOK, RequestInv, Running

(* A request that ends, for whatever reason, leaves a typed state.         *)
LEMMA AnswerTypeInv ==
    ASSUME TypeInv, NEW r \in Requests, NEW a \in Answers, Answer(r, a)
    PROVE  TypeInv'
<1>1. TypeOK'
  BY BlankTypes DEF TypeInv, TypeOK, Answer, Goto, Release, db
<1>2. RequestInv(r)'
  BY DEF Answer, Goto, RequestInv, Running, TypeInv, TypeOK
<1>3. ASSUME NEW q \in Requests, q # r PROVE RequestInv(q)'
  BY <1>3, RequestFrame DEF Answer, Goto, TypeInv, TypeOK
<1> QED
  BY <1>1, <1>2, <1>3 DEF TypeInv

(* Each step of a request preserves the types.                             *)
LEMMA StepTypeInv ==
    ASSUME TypeInv, NEW r \in Requests, Step(r)
    PROVE  TypeInv'
<1> USE DEF TypeInv
<1>req. ASSUME Running(r) PROVE req[r] \in Payload /\ SaleOf(r) \in Sales
  BY <1>req, PayloadType
<1>others. ASSUME TypeOK', RequestInv(r)',
                  \A q \in Requests \ {r} : /\ pc'[q] = pc[q] /\ req'[q] = req[q]
                                           /\ snap'[q] = snap[q]
           PROVE  TypeInv'
  BY <1>others, RequestFrame
<1>1. CASE ReadCached(r)
  <2>1. SaleOf(r) \in Sales
    BY <1>1, <1>req DEF ReadCached, Running
  <2>2. PICK x \in Snapshot : snap' = [snap EXCEPT ![r] = x]
    BY <1>1, <2>1, StoredType DEF ReadCached, TypeOK
  <2>3. PICK next \in {"fill", "check"} : pc' = [pc EXCEPT ![r] = next]
    BY <1>1 DEF ReadCached, Goto
  <2>4. TypeOK'
    BY <1>1, <2>2, <2>3 DEF ReadCached, TypeOK, db
  <2>5. RequestInv(r)'
    BY <1>1, <2>2, <2>3 DEF ReadCached, TypeOK, RequestInv, Running
  <2> QED
    BY <1>1, <1>others, <2>2, <2>3, <2>4, <2>5 DEF ReadCached, TypeOK
<1>2. CASE FillCache(r)
  <2>1. SaleOf(r) \in Sales
    BY <1>2, <1>req DEF FillCache, Running
  <2>4. TypeOK'
    BY <1>2, <2>1 DEF FillCache, TypeOK, db, Goto
  <2>5. RequestInv(r)'
    BY <1>2 DEF FillCache, TypeOK, RequestInv, Running, Goto
  <2> QED
    BY <1>2, <1>others, <2>4, <2>5 DEF FillCache, TypeOK, Goto
<1>3. CASE Check(r)
  <2>1. Running(r) /\ req[r].op = "update" /\ pc[r] = "check"
    BY <1>3 DEF Check, Running, RequestInv
  <2>2. CASE \E a \in Answers : Answer(r, a)
    BY <2>2, AnswerTypeInv
  <2>3. CASE ~\E a \in Answers : Answer(r, a)
    <3>1. /\ Live(snap[r].row) /\ ~Refused(snap[r].row.status, req[r])
          /\ Goto(r, "lockSale")
          /\ UNCHANGED <<db, played, cache, lock, req, snap, view, cron>>
      BY <1>3, <2>3 DEF Check
    <3>2. TypeOK'
      BY <3>1 DEF TypeOK, db, Goto
    <3>3. Kind(r) = "enterGift" => req[r].recipient # None
      BY <3>1 DEF Kind, Refused, LacksRecipient
    <3>4. RequestInv(r)'
      BY <2>1, <3>1, <3>3, <1>req DEF TypeOK, RequestInv, Running, Goto, Kind
    <3> QED
      BY <3>1, <3>2, <3>4, <1>others DEF TypeOK, Goto
  <2> QED
    BY <2>2, <2>3
<1>4. CASE ReadDb(r)
  <2>1. SaleOf(r) \in Sales
    BY <1>4, <1>req DEF ReadDb, Running
  <2>2. CASE \E a \in Answers : Answer(r, a)
    BY <2>2, AnswerTypeInv
  <2>3. CASE ~\E a \in Answers : Answer(r, a)
    <3>1. /\ Live(sale[SaleOf(r)])
          /\ snap' = [snap EXCEPT ![r] = Stored(SaleOf(r))]
          /\ Goto(r, "delGift")
          /\ UNCHANGED <<db, played, cache, lock, req, view, cron>>
      BY <1>4, <2>3 DEF ReadDb
    <3>2. TypeOK'
      BY <3>1, <2>1, StoredType DEF TypeOK, db, Goto
    <3>3. Live(snap'[r].row)
      BY <3>1, <2>1 DEF TypeOK, Stored
    <3>4. pc'[r] = "delGift" /\ req'[r] = req[r] /\ req[r].op \in {"ungift", "delete"}
      BY <1>4, <3>1, <1>req DEF TypeOK, ReadDb, Running, Goto, Payload
    <3>5. Kind(r)' # "enterGift"
      BY <3>4 DEF Kind, Intent
    <3>6. RequestInv(r)'
      BY <1>4, <3>3, <3>4, <3>5 DEF ReadDb, RequestInv, Running
    <3> QED
      BY <3>1, <3>2, <3>6, <1>others DEF TypeOK, Goto
  <2> QED
    BY <2>2, <2>3
<1>5. CASE DeleteGiftRow(r)
  <2>1. TypeOK'
    BY <1>5 DEF DeleteGiftRow, Locked, Acquire, TypeOK, db, Goto
  <2>2. RequestInv(r)'
    BY <1>5, <1>req, PayloadType
       DEF DeleteGiftRow, Statement, Locked, TypeOK, RequestInv, Running, Goto, Kind, Payload
  <2> QED
    BY <1>5, <2>1, <2>2, <1>others DEF DeleteGiftRow, Locked, TypeOK, Goto
<1>6. CASE DeleteHistories(r)
  <2>1. SaleOf(r) \in Sales
    BY <1>6, <1>req DEF DeleteHistories, Statement, Running
  <2>2. TypeOK'
    BY <1>6, <2>1 DEF DeleteHistories, Locked, Acquire, TypeOK, db, Goto, View
  <2>3. RequestInv(r)'
    BY <1>6, <1>req
       DEF DeleteHistories, Statement, Locked, TypeOK, RequestInv, Running, Goto, Kind
  <2> QED
    BY <1>6, <2>2, <2>3, <1>others DEF DeleteHistories, Locked, TypeOK, Goto
<1>7. CASE DeleteAllocations(r)
  <2>1. TypeOK'
    BY <1>7 DEF DeleteAllocations, Locked, Acquire, TypeOK, db, Goto
  <2>2. RequestInv(r)'
    BY <1>7, <1>req
       DEF DeleteAllocations, Statement, Locked, TypeOK, RequestInv, Running, Goto, Kind
  <2> QED
    BY <1>7, <2>1, <2>2, <1>others DEF DeleteAllocations, Locked, TypeOK, Goto
<1>8. CASE LockSale(r)
  <2>1. SaleOf(r) \in Sales
    BY <1>8, <1>req DEF LockSale, Statement, Running
  <2>2. CASE \E a \in Answers : Answer(r, a)
    BY <2>2, AnswerTypeInv
  <2>3. CASE ~\E a \in Answers : Answer(r, a)
    <3>1. Locked(r, "row") /\ \E v \in View : view' = [view EXCEPT ![r] = v]
      BY <1>8, <2>1, <2>3 DEF LockSale, TypeOK, View
    <3>2. TypeOK'
      BY <3>1 DEF Locked, Acquire, TypeOK, db, Goto
    <3>3. RequestInv(r)'
      BY <1>8, <3>1, <1>req
         DEF LockSale, Statement, Locked, TypeOK, RequestInv, Running, Goto, Kind
    <3> QED
      BY <3>1, <3>2, <3>3, <1>others DEF Locked, TypeOK, Goto
  <2> QED
    BY <2>2, <2>3
<1>9. CASE WriteRow(r)
  <2>2. CASE \E a \in Answers : Answer(r, a)
    BY <2>2, AnswerTypeInv
  <2>3. CASE ~\E a \in Answers : Answer(r, a)
    <3>1. /\ view' = [view EXCEPT ![r].row = PatchedRow(r)]
          /\ Goto(r, "children")
          /\ UNCHANGED <<db, played, cache, lock, req, snap, cron>>
      BY <1>9, <2>3 DEF WriteRow
    <3>2. PatchedRow(r) \in Row
      BY <1>9, PatchedRowType DEF WriteRow, Statement
    <3>3. TypeOK'
      BY <3>1, <3>2 DEF TypeOK, db, Goto, View
    <3>4. RequestInv(r)'
      BY <1>9, <3>1, <1>req
         DEF WriteRow, Statement, TypeOK, RequestInv, Running, Goto, Kind
    <3> QED
      BY <3>1, <3>3, <3>4, <1>others DEF TypeOK, Goto
  <2> QED
    BY <2>2, <2>3
<1>10. CASE DeleteRow(r)
  <2>2. CASE \E a \in Answers : Answer(r, a)
    BY <2>2, AnswerTypeInv
  <2>3. CASE ~\E a \in Answers : Answer(r, a)
    <3>1. /\ view' = [view EXCEPT ![r] =
               [row |-> EmptyRow("DELETED"), gift |-> None,
                alloc |-> NoAllocs, hist |-> << >>]]
          /\ Goto(r, "commit")
          /\ UNCHANGED <<db, played, cache, lock, req, snap, cron>>
      BY <1>10, <2>3 DEF DeleteRow, HistoryRestricts
    <3>2. view' \in [Requests -> View]
      BY <3>1, EmptyRowType DEF TypeOK, View
    <3>x. TypeOK'
      BY <3>1, <3>2 DEF TypeOK, db, Goto
    <3>3. RequestInv(r)'
      BY <1>10, <3>1, <1>req
         DEF DeleteRow, Statement, TypeOK, RequestInv, Running, Goto, Kind
    <3> QED
      BY <3>1, <3>x, <3>3, <1>others DEF TypeOK, Goto
  <2> QED
    BY <2>2, <2>3
<1>11. CASE WriteChildren(r)
  <2>1. req[r] \in Payload /\ snap[r].row.status \in SaleStatus
    BY <1>11, <1>req DEF WriteChildren, Statement, Running, RequestInv, Live
  <2>2. view' \in [Requests -> View]
    <3> DEFINE a == IF req[r].allocs = NoAllocs THEN view[r].alloc ELSE req[r].allocs
               h == Append(view[r].hist, snap[r].row.status)
    <3>1. view[r] \in View
      BY DEF TypeOK
    <3>2. a \in Allocations \union {NoAllocs} /\ h \in Seq(SaleStatus)
      BY <2>1, <3>1 DEF Payload, View
    <3>3. view' = [view EXCEPT ![r].alloc = a, ![r].hist = h]
      BY <1>11 DEF WriteChildren, TypeOK
    <3> HIDE DEF a, h
    <3> QED
      BY <3>1, <3>2, <3>3 DEF TypeOK, View
  <2>4. TypeOK'
    BY <1>11, <2>2 DEF WriteChildren, Locked, Acquire, TypeOK, db, Goto
  <2>3. RequestInv(r)'
    BY <1>11, <1>req
       DEF WriteChildren, Statement, Locked, TypeOK, RequestInv, Running, Goto, Kind
  <2> QED
    BY <1>11, <2>4, <2>3, <1>others DEF WriteChildren, Locked, TypeOK, Goto
<1>12. CASE WriteGift(r)
  <2>1. req[r] \in Payload
    BY <1>12, <1>req DEF WriteGift, Statement, Running
  <2>2. CASE \E a \in Answers : Answer(r, a)
    BY <2>2, AnswerTypeInv
  <2>3. CASE ~\E a \in Answers : Answer(r, a)
    <3>1. /\ Locked(r, "commit")
          /\ view' = [view EXCEPT ![r].gift =
                        IF req[r].recipient = None THEN @ ELSE req[r].recipient]
      BY <1>12, <2>3 DEF WriteGift
    <3>2. view' \in [Requests -> View]
      <4> DEFINE who == IF req[r].recipient = None THEN view[r].gift
                        ELSE req[r].recipient
      <4>1. view[r] \in View /\ who \in Recipients \union {None}
        BY <2>1 DEF TypeOK, View, Payload
      <4>2. view' = [view EXCEPT ![r].gift = who]
        BY <3>1 DEF TypeOK
      <4> HIDE DEF who
      <4> QED
        BY <4>1, <4>2 DEF TypeOK, View
    <3>x. TypeOK'
      BY <3>1, <3>2 DEF Locked, Acquire, TypeOK, db, Goto
    <3>3. RequestInv(r)'
      BY <1>12, <3>1, <1>req
         DEF WriteGift, Statement, Locked, TypeOK, RequestInv, Running, Goto, Kind
    <3> QED
      BY <3>1, <3>x, <3>3, <1>others DEF Locked, TypeOK, Goto
  <2> QED
    BY <2>2, <2>3
<1>13. CASE Commit(r)
  <2>1. SaleOf(r) \in Sales /\ view[r] \in View
    BY <1>13, <1>req DEF Commit, Running, TypeOK
  <2>2. TypeOK'
    BY <1>13, <2>1 DEF Commit, NewRecipients, Release, TypeOK, Goto, View
  <2>3. RequestInv(r)'
    BY <1>13, <1>req DEF Commit, TypeOK, RequestInv, Running, Goto
  <2> QED
    BY <1>13, <2>2, <2>3, <1>others DEF Commit, TypeOK, Goto
<1>14. CASE Invalidate(r)
  <2>1. TypeOK'
    BY <1>14, BlankTypes DEF Invalidate, TypeOK, Goto, db
  <2>2. RequestInv(r)'
    BY <1>14 DEF Invalidate, TypeOK, RequestInv, Running, Goto
  <2> QED
    BY <1>14, <2>1, <2>2, RequestFrame DEF Invalidate, TypeOK, Goto
<1> QED
  BY <1>1, <1>2, <1>3, <1>4, <1>5, <1>6, <1>7, <1>8, <1>9, <1>10, <1>11,
     <1>12, <1>13, <1>14 DEF Step

(* The environment of the requests: arrivals, the cron, time, the TTL.     *)
LEMMA WorldTypeInv ==
    ASSUME TypeInv
    PROVE  /\ \A r \in Requests : \A p \in Payloads : Start(r, p) => TypeInv'
           /\ \A s \in Sales : \A a \in Allocations : AddSale(s, a) => TypeInv'
           /\ \A s \in Sales : Kickoff(s) \/ Expire(s) => TypeInv'
           /\ Cron \/ FlushSales \/ UNCHANGED vars => TypeInv'
<1> USE DEF TypeInv
<1>frame. ASSUME TypeOK', UNCHANGED <<pc, req, snap>> PROVE TypeInv'
  BY <1>frame, RequestFrame
<1>1. ASSUME NEW r \in Requests, NEW p \in Payloads, Start(r, p) PROVE TypeInv'
  <2>1. TypeOK'
    BY <1>1 DEF Start, TypeOK, Goto, db
  <2>2. RequestInv(r)'
    BY <1>1 DEF Start, TypeOK, Goto, RequestInv, Running
  <2> QED
    BY <1>1, <2>1, <2>2, RequestFrame DEF Start, TypeOK, Goto
<1>2. ASSUME NEW s \in Sales, NEW a \in Allocations, AddSale(s, a) PROVE TypeInv'
  <2>1. [status |-> "PENDING", soldAt |-> FALSE, cancelledAt |-> FALSE,
         nbTickets |-> sumTickets(a)] \in Row
    BY TicketTypes DEF Row, RowStatus, SaleStatus
  <2>2. TypeOK'
    <3>1. sale' \in [Sales -> Row]
      BY <1>2, <2>1 DEF AddSale, TypeOK
    <3> QED
      BY <1>2, <3>1 DEF AddSale, TypeOK
  <2> QED
    BY <1>2, <2>2, <1>frame DEF AddSale
<1>3. ASSUME NEW s \in Sales, Kickoff(s) \/ Expire(s) PROVE TypeInv'
  <2>1. TypeOK'
    BY <1>3 DEF Kickoff, Expire, TypeOK, db
  <2> QED
    BY <1>3, <2>1, <1>frame DEF Kickoff, Expire
<1>4. CASE CronUpdate
  <2>1. sale' \in [Sales -> Row]
    <3>1. ASSUME NEW row \in Row
          PROVE  CancelledRow(row) \in Row
      BY DEF CancelledRow, Row, RowStatus, SaleStatus
    <3> QED
      BY <1>4, <3>1 DEF CronUpdate, TypeOK
  <2>2. /\ cron' = "inval"
        /\ UNCHANGED <<gift, alloc, hist, recips, played, cache, lock, pc,
                       req, snap, view>>
    BY <1>4 DEF CronUpdate
  <2>3. TypeOK'
    BY <2>1, <2>2 DEF TypeOK
  <2> QED
    BY <2>2, <2>3, <1>frame
<1>5. CASE CronRead \/ CronInvalidate \/ FlushSales \/ UNCHANGED vars
  <2>1. TypeOK'
    BY <1>5 DEF CronRead, CronInvalidate, FlushSales, vars, TypeOK, db
  <2> QED
    BY <1>5, <2>1, <1>frame DEF CronRead, CronInvalidate, FlushSales, vars
<1> QED
  BY <1>1, <1>2, <1>3, <1>4, <1>5 DEF Cron

LEMMA NextTypeInv == TypeInv /\ [Next]_vars => TypeInv'
<1> SUFFICES ASSUME TypeInv, [Next]_vars PROVE TypeInv'
  OBVIOUS
<1>1. ASSUME NEW r \in Requests, Crash(r) \/ DeadlockVictim(r) PROVE TypeInv'
  BY <1>1, AnswerTypeInv DEF Crash, DeadlockVictim
<1> QED
  BY <1>1, StepTypeInv, WorldTypeInv DEF Next

(* Every variable keeps its type, and a request in its transaction has a   *)
(* payload that passed the checks of UpdateSaleUsecase on its snapshot.    *)
THEOREM TypeCorrect == Spec => []TypeOK
<1>1. Spec => []TypeInv
  BY InitTypeInv, NextTypeInv, PTL DEF Spec
<1>2. TypeInv => TypeOK
  BY DEF TypeInv
<1> QED
  BY <1>1, <1>2, PTL

-----------------------------------------------------------------------------
(* The inductive invariant.                                                *)

LEMMA InitIInv == Init => IInv
<1> SUFFICES ASSUME Init PROVE IInv
  OBVIOUS
<1>1. \A r \in Requests : LockInv(r)
  BY ConstantsAssumption DEF Init, LockInv, Holding, Running, Resources, Tables
<1>2. \A r \in Requests : ViewInv(r)
  BY DEF Init, ViewInv
<1>3. GiftIffGifted /\ TicketsMatchAllocations /\ DeletedLeavesNothing
  BY EmptyRowType
     DEF Init, GiftIffGifted, TicketsMatchAllocations, DeletedLeavesNothing,
         EmptyRow, Live, SaleStatus
<1> QED
  BY <1>1, <1>2, <1>3, InitTypeInv DEF IInv

(* A request that does not move, and whose sale nobody else commits to     *)
(* while it holds the row lock, keeps its part of the invariant.           *)
LEMMA HolderFrame ==
    ASSUME NEW q \in Requests, LockInv(q), ViewInv(q),
           pc'[q] = pc[q], req'[q] = req[q], snap'[q] = snap[q],
           view'[q] = view[q],
           Holding(q) => LET s == SaleOf(q) IN
             /\ sale'[s] = sale[s] /\ gift'[s] = gift[s] /\ alloc'[s] = alloc[s]
             /\ lock'[<<"sales", s>>] = lock[<<"sales", s>>],
           \A s \in Sales :
             lock'[<<"gifts", s>>] = q => lock[<<"gifts", s>>] = q
    PROVE  LockInv(q)' /\ ViewInv(q)'
<1>1. SaleOf(q)' = SaleOf(q) /\ Kind(q)' = Kind(q)
  BY DEF SaleOf, Kind
<1>2. LockInv(q)'
  BY <1>1 DEF LockInv, Holding, Running
<1>3. ViewInv(q)'
  BY <1>1 DEF ViewInv, Holding
<1> QED
  BY <1>2, <1>3

LEMMA SaleLockIsResource ==
    \A s \in Sales : <<"sales", s>> \in Resources /\ <<"gifts", s>> \in Resources
BY DEF Resources, Tables

(* Locks the other requests hold survive an acquire and a release of r.    *)
LEMMA OthersKeepLocks ==
    ASSUME TypeOK, NEW r \in Requests, NEW q \in Requests \ {r},
           \/ CanLock(r) /\ Acquire(r)
           \/ Release(r)
           \/ UNCHANGED lock
    PROVE  \A x \in Resources : lock'[x] = q <=> lock[x] = q
BY ConstantsAssumption DEF TypeOK, CanLock, Acquire, Release

(* A step of r that publishes nothing preserves the invariant if it        *)
(* preserves r's own part.                                                 *)
LEMMA QuietStep ==
    ASSUME IInv, TypeInv', NEW r \in Requests,
           UNCHANGED <<sale, gift, alloc, hist>>,
           \A q \in Requests \ {r} :
             /\ pc'[q] = pc[q] /\ req'[q] = req[q]
             /\ snap'[q] = snap[q] /\ view'[q] = view[q],
           \/ CanLock(r) /\ Acquire(r)
           \/ Release(r)
           \/ UNCHANGED lock,
           LockInv(r)', ViewInv(r)'
    PROVE  IInv'
<1>1. ASSUME NEW q \in Requests \ {r} PROVE LockInv(q)' /\ ViewInv(q)'
  <2>1. \A x \in Resources : lock'[x] = q <=> lock[x] = q
    BY OthersKeepLocks DEF IInv, TypeInv
  <2>2. LockInv(q) /\ ViewInv(q) /\ RequestInv(q)
    BY DEF IInv, TypeInv
  <2>3. Holding(q) => SaleOf(q) \in Sales /\ lock[<<"sales", SaleOf(q)>>] = q
    BY <2>2, PayloadType DEF Holding, Running, LockInv
  <2> QED
    BY <2>1, <2>2, <2>3, HolderFrame, SaleLockIsResource
<1>2. GiftIffGifted' /\ TicketsMatchAllocations' /\ DeletedLeavesNothing'
  BY DEF IInv, GiftIffGifted, TicketsMatchAllocations, DeletedLeavesNothing
<1> QED
  BY <1>1, <1>2 DEF IInv

LEMMA AnswerIInv ==
    ASSUME IInv, NEW r \in Requests, NEW a \in Answers, Answer(r, a)
    PROVE  IInv'
<1>1. TypeInv'
  BY AnswerTypeInv DEF IInv
<1>2. pc'[r] = a
  BY DEF Answer, Goto, IInv, TypeInv, TypeOK
<1>3. LockInv(r)'
  BY <1>2, SaleLockIsResource, ConstantsAssumption
     DEF Answer, Release, LockInv, Holding, IInv, TypeInv, TypeOK
<1>4. ViewInv(r)'
  BY <1>2 DEF ViewInv
<1> QED
  BY <1>1, <1>3, <1>4, QuietStep DEF Answer, Goto, db, IInv, TypeInv, TypeOK

LEMMA RunningSale ==
    ASSUME IInv, NEW r \in Requests, Running(r)
    PROVE  req[r] \in Payload /\ SaleOf(r) \in Sales
BY PayloadType DEF IInv, TypeInv

(* Before it locks the sale row a request relies on nothing.               *)
LEMMA EarlyStep ==
    ASSUME IInv, TypeInv', NEW r \in Requests,
           UNCHANGED <<sale, gift, alloc, hist, req>>,
           \A q \in Requests \ {r} :
             pc'[q] = pc[q] /\ snap'[q] = snap[q] /\ view'[q] = view[q],
           \/ CanLock(r) /\ Acquire(r) /\ req[r].op # "update"
           \/ UNCHANGED lock,
           pc[r] # "commit",
           pc'[r] \in {"fill", "check", "delGift", "delHist", "delAlloc",
                       "lockSale"}
    PROVE  IInv'
<1>1. ~Holding(r)'
  BY DEF Holding
<1>2. ASSUME req[r].op = "update", NEW s \in Sales, lock'[<<"gifts", s>>] = r
      PROVE  FALSE
  BY <1>2 DEF IInv, LockInv
<1>op. req[r].op # "update" => pc'[r] \notin {"fill", "check"}
  BY DEF TypeInv, RequestInv
<1>3. LockInv(r)'
  BY <1>1, <1>2, <1>op DEF LockInv
<1>4. ViewInv(r)'
  BY DEF ViewInv
<1> QED
  BY <1>3, <1>4, QuietStep

LEMMA LockSaleIInv ==
    ASSUME IInv, TypeInv', NEW r \in Requests, LockSale(r)
    PROVE  IInv'
<1>1. CASE \E a \in Answers : Answer(r, a)
  BY <1>1, AnswerIInv
<1>2. CASE ~\E a \in Answers : Answer(r, a)
  <2> DEFINE s == SaleOf(r)
  <2>1. pc[r] = "lockSale" /\ s \in Sales /\ req[r] \in Payload
    BY RunningSale DEF LockSale, Statement, Running
  <2>2. /\ CanLock(r) /\ Locked(r, "row") /\ Live(sale[s])
        /\ view' = [view EXCEPT ![r] =
               [row   |-> sale[s],
                gift  |-> IF lock[<<"gifts", s>>] = r THEN None ELSE gift[s],
                alloc |-> alloc[s],
                hist  |-> IF req[r].op = "delete" THEN view[r].hist
                          ELSE hist[s]]]
    BY <1>2 DEF LockSale, Statement
  <2>3. /\ pc' = [pc EXCEPT ![r] = "row"]
        /\ UNCHANGED <<sale, gift, alloc, hist, req, snap>>
    BY <2>2 DEF Locked, Goto, db
  <2>4. Needs(r) = {<<"sales", s>>}
    BY <2>1 DEF Needs
  <2>5. /\ lock'[<<"sales", s>>] = r
        /\ \A t \in Sales : lock'[<<"gifts", t>>] = lock[<<"gifts", t>>]
    BY <2>1, <2>2, <2>4, SaleLockIsResource DEF Locked, Acquire
  <2>6. req[r].op = "update" => \A t \in Sales : lock[<<"gifts", t>>] # r
    BY <2>1 DEF IInv, LockInv
  <2>7. SaleOf(r)' = s /\ pc'[r] = "row"
    BY <2>3 DEF SaleOf, IInv, TypeInv, TypeOK
  <2>8. LockInv(r)'
    BY <2>1, <2>2, <2>3, <2>5, <2>6, <2>7 DEF LockInv, Holding, Running
  <2>9. view'[r].row = sale[s] /\ view'[r].alloc = alloc[s]
        /\ view'[r].gift = IF lock[<<"gifts", s>>] = r THEN None ELSE gift[s]
    BY <2>2 DEF IInv, TypeInv, TypeOK
  <2>10. ViewInv(r)'
    BY <2>1, <2>3, <2>6, <2>7, <2>9 DEF ViewInv
  <2> QED
    BY <2>2, <2>3, <2>8, <2>10, QuietStep DEF Locked, IInv, TypeInv, TypeOK
<1> QED
  BY <1>1, <1>2

(* What the first write of an update or an un-gift makes of the row it     *)
(* locked.                                                                 *)
LEMMA PatchedRowFacts ==
    ASSUME IInv, NEW r \in Requests, pc[r] = "row", req[r].op # "delete",
           ~PinnedByGift(r, PatchedRow(r))
    PROVE  /\ Live(PatchedRow(r))
           /\ IF Kind(r) = "enterGift" THEN PatchedRow(r).status = "GIFTED"
              ELSE PatchedRow(r).status = "GIFTED" <=> view[r].gift # None
           /\ PatchedRow(r).nbTickets =
                sumTickets(IF req[r].allocs = NoAllocs THEN view[r].alloc
                           ELSE req[r].allocs)
<1> DEFINE s == SaleOf(r)
<1>1. s \in Sales /\ req[r] \in Payload
  BY RunningSale DEF Running
<1>2. /\ view[r].row = sale[s] /\ view[r].alloc = alloc[s]
      /\ view[r].gift \in {gift[s], None}
      /\ req[r].op = "update" => view[r].gift = gift[s]
      /\ Live(sale[s])
  BY DEF IInv, ViewInv, LockInv, Holding
<1>3. /\ sale[s].status = "GIFTED" <=> gift[s] # None
      /\ sale[s].nbTickets = sumTickets(alloc[s])
  BY <1>1, <1>2 DEF IInv, GiftIffGifted, TicketsMatchAllocations
<1>4. Live(PatchedRow(r))
  BY <1>2, PatchedRowType DEF IInv
<1>5. CASE req[r].op = "ungift"
  <2>1. Kind(r) = "ungift" /\ req[r].allocs = NoAllocs
    BY <1>1, <1>5 DEF Kind, Intent, Payload
  <2>2. sale[s] \in Row
    BY <1>1 DEF IInv, TypeInv, TypeOK
  <2>3. PatchedRow(r).status = "PENDING"
        /\ PatchedRow(r).nbTickets = sale[s].nbTickets
    BY <2>1, <2>2, <1>2 DEF PatchedRow, Row
  <2> QED
    BY <1>2, <1>3, <1>4, <2>1, <2>3 DEF PinnedByGift
<1>6. CASE req[r].op = "update"
  <2>1. Kind(r) \in {"enterGift", "updateGift", "plain"}
    BY <1>6 DEF Kind, Intent
  <2>2. PatchedRow(r).status = IF Kind(r) = "updateGift" \/ req[r].target = "NONE"
                               THEN sale[s].status ELSE req[r].target
    BY <2>1, <1>2 DEF PatchedRow
  <2>3. Kind(r) = "enterGift" => req[r].target = "GIFTED"
    BY <1>6 DEF Kind, Intent
  <2>4. Kind(r) = "plain" => req[r].target # "GIFTED"
    BY <1>6 DEF Kind, Intent
  <2>5. PatchedRow(r).nbTickets =
          IF req[r].allocs = NoAllocs THEN sale[s].nbTickets
          ELSE sumTickets(req[r].allocs)
    BY <2>1, <1>2 DEF PatchedRow, PatchedTickets
  <2>6. view[r].gift # None => PatchedRow(r).status = sale[s].status
    BY <1>2 DEF PinnedByGift
  <2> QED
    BY <1>2, <1>3, <1>4, <1>6, <2>1, <2>2, <2>3, <2>4, <2>5, <2>6
<1> QED
  BY <1>1, <1>5, <1>6 DEF Payload

LEMMA WriteRowIInv ==
    ASSUME IInv, TypeInv', NEW r \in Requests, WriteRow(r)
    PROVE  IInv'
<1>1. CASE \E a \in Answers : Answer(r, a)
  BY <1>1, AnswerIInv
<1>2. CASE ~\E a \in Answers : Answer(r, a)
  <2> DEFINE s == SaleOf(r)
  <2>1. pc[r] = "row" /\ req[r].op # "delete"
    BY DEF WriteRow, Statement
  <2>2. /\ ~PinnedByGift(r, PatchedRow(r))
        /\ view' = [view EXCEPT ![r].row = PatchedRow(r)]
        /\ Goto(r, "children")
        /\ UNCHANGED <<db, played, cache, lock, req, snap, cron>>
    BY <1>2 DEF WriteRow
  <2>3. /\ pc'[r] = "children" /\ view'[r].row = PatchedRow(r)
        /\ view'[r].gift = view[r].gift /\ view'[r].alloc = view[r].alloc
        /\ \A q \in Requests \ {r} : pc'[q] = pc[q] /\ view'[q] = view[q]
    BY <2>2 DEF IInv, TypeInv, TypeOK, View, Goto
  <2>4. /\ SaleOf(r)' = s /\ Kind(r)' = Kind(r)
        /\ UNCHANGED <<sale, gift, alloc, hist, req, snap, lock>>
    BY <2>2 DEF SaleOf, Kind, db
  <2>5. LockInv(r)'
    BY <2>1, <2>3, <2>4 DEF IInv, LockInv, Holding, Running
  <2>6. req[r].op = "update" => view[r].gift = gift[s]
    BY <2>1 DEF IInv, ViewInv
  <2>7. ViewInv(r)'
    BY <2>1, <2>2, <2>3, <2>4, <2>6, PatchedRowFacts DEF ViewInv
  <2> QED
    BY <2>3, <2>4, <2>5, <2>7, QuietStep
<1> QED
  BY <1>1, <1>2

LEMMA DeleteRowIInv ==
    ASSUME IInv, TypeInv', NEW r \in Requests, DeleteRow(r)
    PROVE  IInv'
<1>1. CASE \E a \in Answers : Answer(r, a)
  BY <1>1, AnswerIInv
<1>2. CASE ~\E a \in Answers : Answer(r, a)
  <2>1. pc[r] = "row" /\ req[r].op = "delete"
    BY DEF DeleteRow, Statement
  <2>2. /\ view' = [view EXCEPT ![r] =
               [row |-> EmptyRow("DELETED"), gift |-> None,
                alloc |-> NoAllocs, hist |-> << >>]]
        /\ Goto(r, "commit")
        /\ UNCHANGED <<db, played, cache, lock, req, snap, cron>>
    BY <1>2 DEF DeleteRow, HistoryRestricts
  <2>3. /\ pc'[r] = "commit" /\ view'[r].row = EmptyRow("DELETED")
        /\ view'[r].gift = None /\ view'[r].alloc = NoAllocs
        /\ view'[r].hist = << >>
        /\ \A q \in Requests \ {r} : pc'[q] = pc[q] /\ view'[q] = view[q]
    BY <2>2 DEF IInv, TypeInv, TypeOK, Goto
  <2>4. /\ SaleOf(r)' = SaleOf(r)
        /\ UNCHANGED <<sale, gift, alloc, hist, req, snap, lock>>
    BY <2>2 DEF SaleOf, db
  <2>5. LockInv(r)'
    BY <2>1, <2>3, <2>4 DEF IInv, LockInv, Holding, Running
  <2>6. EmptyRow("DELETED").status # "GIFTED"
    BY DEF EmptyRow
  <2>7. ViewInv(r)'
    BY <2>1, <2>3, <2>4, <2>6, EmptyRowType DEF ViewInv
  <2> QED
    BY <2>3, <2>4, <2>5, <2>7, QuietStep
<1> QED
  BY <1>1, <1>2

LEMMA WriteChildrenIInv ==
    ASSUME IInv, TypeInv', NEW r \in Requests, WriteChildren(r)
    PROVE  IInv'
<1> DEFINE s == SaleOf(r)
           a == IF req[r].allocs = NoAllocs THEN view[r].alloc ELSE req[r].allocs
<1>1. pc[r] = "children" /\ req[r].op # "delete" /\ CanLock(r) /\ Acquire(r)
  BY DEF WriteChildren, Statement, Locked, IInv, TypeInv, RequestInv
<1>2. /\ pc'[r] = IF Kind(r) \in {"enterGift", "updateGift"} THEN "gift"
                  ELSE "commit"
      /\ view'[r].row = view[r].row /\ view'[r].gift = view[r].gift
      /\ view'[r].alloc = a
      /\ \A q \in Requests \ {r} : pc'[q] = pc[q] /\ view'[q] = view[q]
  BY DEF WriteChildren, Locked, Goto, IInv, TypeInv, TypeOK, View
<1>3. UNCHANGED <<sale, gift, alloc, hist, req, snap>>
  BY DEF WriteChildren, Locked, db
<1>4. SaleOf(r)' = s /\ Kind(r)' = Kind(r)
  BY <1>3 DEF SaleOf, Kind
<1>5. \A x \in Needs(r) : x[1] = "sale_pass_allocations"
  BY <1>1 DEF Needs
<1>6. LockInv(r)'
  <2>1. s \in Sales /\ lock[<<"sales", s>>] = r /\ Live(sale[s])
    BY <1>1, RunningSale DEF IInv, LockInv, Holding, Running
  <2>2. lock'[<<"sales", s>>] = r
    BY <1>1, <2>1, SaleLockIsResource DEF Acquire
  <2>3. \A t \in Sales : lock'[<<"gifts", t>>] = lock[<<"gifts", t>>]
    BY <1>1, <1>5, SaleLockIsResource DEF Acquire
  <2>4. req[r].op = "update" => \A t \in Sales : lock[<<"gifts", t>>] # r
    BY <1>1 DEF IInv, LockInv
  <2> QED
    BY <1>2, <1>3, <1>4, <2>1, <2>2, <2>3, <2>4 DEF LockInv, Running
<1>7. ViewInv(r)'
  <2>1. /\ Live(view[r].row)
        /\ req[r].op = "update" => view[r].gift = gift[s]
        /\ IF Kind(r) = "enterGift" THEN view[r].row.status = "GIFTED"
           ELSE view[r].row.status = "GIFTED" <=> view[r].gift # None
        /\ view[r].row.nbTickets = sumTickets(a)
    BY <1>1 DEF IInv, ViewInv
  <2> HIDE DEF a
  <2> QED
    BY <1>2, <1>3, <1>4, <2>1 DEF ViewInv
<1> QED
  BY <1>1, <1>2, <1>3, <1>6, <1>7, QuietStep

LEMMA WriteGiftIInv ==
    ASSUME IInv, TypeInv', NEW r \in Requests, WriteGift(r)
    PROVE  IInv'
<1>1. CASE \E a \in Answers : Answer(r, a)
  BY <1>1, AnswerIInv
<1>2. CASE ~\E a \in Answers : Answer(r, a)
  <2> DEFINE s == SaleOf(r)
             who == IF req[r].recipient = None THEN view[r].gift
                    ELSE req[r].recipient
  <2>1. /\ pc[r] = "gift" /\ Kind(r) \in {"enterGift", "updateGift"}
        /\ Kind(r) = "enterGift" => req[r].recipient # None
    BY DEF WriteGift, Statement, IInv, TypeInv, RequestInv
  <2>2. /\ CanLock(r) /\ Acquire(r)
        /\ Kind(r) = "enterGift" <=> view[r].gift = None
        /\ pc' = [pc EXCEPT ![r] = "commit"]
        /\ view' = [view EXCEPT ![r].gift = who]
        /\ UNCHANGED <<sale, gift, alloc, hist, req, snap>>
    BY <1>2, <2>1 DEF WriteGift, GiftExists, GiftMissing, Statement, Locked, Goto, db, IInv, TypeInv, TypeOK
  <2>3. /\ pc'[r] = "commit"
        /\ view'[r].row = view[r].row /\ view'[r].gift = who
        /\ view'[r].alloc = view[r].alloc
        /\ \A q \in Requests \ {r} : pc'[q] = pc[q] /\ view'[q] = view[q]
    BY <2>2 DEF IInv, TypeInv, TypeOK, View
  <2>4. SaleOf(r)' = s /\ s \in Sales
    BY <2>1, <2>2, RunningSale DEF SaleOf, Running
  <2>5. \A x \in Needs(r) : x[1] \in {"gifts", "recipients"}
    BY <2>1 DEF Needs, GiftNeeds
  <2>6. lock'[<<"sales", s>>] = r /\ Live(sale[s])
    BY <2>1, <2>2, <2>4, <2>5, SaleLockIsResource
       DEF IInv, LockInv, Holding, Acquire
  <2>7. LockInv(r)'
    BY <2>2, <2>3, <2>4, <2>6 DEF LockInv, Holding, Running
  <2>8. /\ Live(view[r].row)
        /\ IF Kind(r) = "enterGift" THEN view[r].row.status = "GIFTED"
           ELSE view[r].row.status = "GIFTED" <=> view[r].gift # None
        /\ view[r].row.nbTickets = sumTickets(view[r].alloc)
    BY <2>1 DEF IInv, ViewInv
  <2>9. who # None /\ view[r].row.status = "GIFTED"
    BY <2>1, <2>2, <2>8
  <2> HIDE DEF who
  <2>10. ViewInv(r)'
    BY <2>2, <2>3, <2>4, <2>8, <2>9 DEF ViewInv
  <2> QED
    BY <2>2, <2>3, <2>7, <2>10, QuietStep
<1> QED
  BY <1>1, <1>2

(* COMMIT publishes a consistent view; nobody else holds this sale's row.  *)
LEMMA CommitIInv ==
    ASSUME IInv, TypeInv', NEW r \in Requests, Commit(r)
    PROVE  IInv'
<1> DEFINE s == SaleOf(r)
<1>1. pc[r] = "commit" /\ s \in Sales /\ lock[<<"sales", s>>] = r
  BY RunningSale DEF Commit, Running, IInv, LockInv, Holding
<1>2. /\ sale'  = [sale  EXCEPT ![s] = view[r].row]
      /\ gift'  = [gift  EXCEPT ![s] = view[r].gift]
      /\ alloc' = [alloc EXCEPT ![s] = view[r].alloc]
      /\ hist'  = [hist  EXCEPT ![s] = view[r].hist]
      /\ pc' = [pc EXCEPT ![r] = "inval"]
      /\ Release(r)
      /\ UNCHANGED <<req, snap, view>>
  BY DEF Commit, Goto
<1>3. LockInv(r)' /\ ViewInv(r)'
  <2>1. pc'[r] = "inval"
    BY <1>2 DEF IInv, TypeInv, TypeOK
  <2>2. \A t \in Sales : lock'[<<"gifts", t>>] # r
    BY <1>2, SaleLockIsResource, ConstantsAssumption DEF Release
  <2> QED
    BY <2>1, <2>2 DEF LockInv, ViewInv, Holding
<1>4. ASSUME NEW q \in Requests \ {r} PROVE LockInv(q)' /\ ViewInv(q)'
  <2>1. \A x \in Resources : lock'[x] = q <=> lock[x] = q
    BY <1>2, OthersKeepLocks DEF IInv, TypeInv
  <2>2. LockInv(q) /\ ViewInv(q)
    BY DEF IInv
  <2>3. Holding(q) => SaleOf(q) \in Sales /\ lock[<<"sales", SaleOf(q)>>] = q
    BY <2>2, RunningSale DEF Holding, Running, LockInv
  <2>4. Holding(q) => SaleOf(q) # s
    BY <1>1, <2>3
  <2>5. pc'[q] = pc[q]
    BY <1>2 DEF IInv, TypeInv, TypeOK
  <2>6. Holding(q) => LET t == SaleOf(q) IN
          /\ sale'[t] = sale[t] /\ gift'[t] = gift[t] /\ alloc'[t] = alloc[t]
    BY <1>2, <2>3, <2>4 DEF IInv, TypeInv, TypeOK
  <2>7. /\ \A t \in Sales : lock'[<<"gifts", t>>] = q => lock[<<"gifts", t>>] = q
        /\ Holding(q) => lock'[<<"sales", SaleOf(q)>>] = lock[<<"sales", SaleOf(q)>>]
    BY <2>1, <2>3, SaleLockIsResource
  <2> QED
    BY <1>2, <2>2, <2>5, <2>6, <2>7, HolderFrame
<1>5. /\ view[r].row.status = "GIFTED" <=> view[r].gift # None
      /\ Live(view[r].row) => view[r].row.nbTickets = sumTickets(view[r].alloc)
      /\ ~Live(view[r].row) => /\ view[r].gift = None
                               /\ view[r].alloc = NoAllocs
                               /\ view[r].hist = << >>
  BY <1>1 DEF IInv, ViewInv
<1>6. ASSUME NEW t \in Sales
      PROVE  /\ sale'[t].status = "GIFTED" <=> gift'[t] # None
             /\ Live(sale'[t]) => sale'[t].nbTickets = sumTickets(alloc'[t])
             /\ sale'[t].status = "DELETED" =>
                  hist'[t] = << >> /\ alloc'[t] = NoAllocs /\ gift'[t] = None
  <2>1. CASE t = s
    BY <1>2, <1>5, <2>1 DEF IInv, TypeInv, TypeOK, Live, SaleStatus
  <2>2. CASE t # s
    BY <1>2, <2>2 DEF IInv, TypeInv, TypeOK, GiftIffGifted,
                      TicketsMatchAllocations, DeletedLeavesNothing
  <2> QED
    BY <2>1, <2>2
<1>7. GiftIffGifted' /\ TicketsMatchAllocations' /\ DeletedLeavesNothing'
  BY <1>6 DEF GiftIffGifted, TicketsMatchAllocations, DeletedLeavesNothing
<1> QED
  BY <1>3, <1>4, <1>7 DEF IInv

LEMMA StepIInv ==
    ASSUME IInv, NEW r \in Requests, Step(r)
    PROVE  IInv'
<1>t. TypeInv'
  BY StepTypeInv DEF IInv
<1> USE <1>t
<1>1. CASE ReadCached(r)
  BY <1>1, EarlyStep DEF ReadCached, Goto, db, IInv, TypeInv, TypeOK
<1>2. CASE FillCache(r)
  BY <1>2, EarlyStep DEF FillCache, Goto, db, IInv, TypeInv, TypeOK
<1>3. CASE Check(r)
  <2>1. CASE \E a \in Answers : Answer(r, a)
    BY <2>1, AnswerIInv
  <2>2. CASE ~\E a \in Answers : Answer(r, a)
    BY <1>3, <2>2, EarlyStep DEF Check, Goto, db, IInv, TypeInv, TypeOK
  <2> QED
    BY <2>1, <2>2
<1>4. CASE ReadDb(r)
  <2>1. CASE \E a \in Answers : Answer(r, a)
    BY <2>1, AnswerIInv
  <2>2. CASE ~\E a \in Answers : Answer(r, a)
    BY <1>4, <2>2, EarlyStep DEF ReadDb, Goto, db, IInv, TypeInv, TypeOK
  <2> QED
    BY <2>1, <2>2
<1>5. CASE DeleteGiftRow(r) \/ DeleteHistories(r) \/ DeleteAllocations(r)
  <2>1. /\ pc[r] \in {"delGift", "delHist", "delAlloc"} /\ req[r].op # "update"
        /\ CanLock(r) /\ Acquire(r)
    BY <1>5 DEF DeleteGiftRow, DeleteHistories, DeleteAllocations, Statement,
                Locked, IInv, TypeInv, RequestInv
  <2>2. /\ UNCHANGED <<sale, gift, alloc, hist, req, snap>>
        /\ pc'[r] \in {"delHist", "delAlloc", "lockSale"}
        /\ \A q \in Requests \ {r} : pc'[q] = pc[q] /\ view'[q] = view[q]
    BY <1>5 DEF DeleteGiftRow, DeleteHistories, DeleteAllocations, Locked,
                Goto, db, IInv, TypeInv, TypeOK
  <2> QED
    BY <2>1, <2>2, EarlyStep
<1>6. CASE Invalidate(r)
  <2>1. pc[r] = "inval" /\ pc'[r] = "ok"
    BY <1>6 DEF Invalidate, Goto, IInv, TypeInv, TypeOK
  <2>2. UNCHANGED <<sale, gift, alloc, hist, lock>>
    BY <1>6 DEF Invalidate, db
  <2>3. \A s \in Sales : lock[<<"gifts", s>>] # r
    BY <2>1 DEF IInv, LockInv
  <2>4. LockInv(r)' /\ ViewInv(r)'
    BY <2>1, <2>2, <2>3 DEF LockInv, ViewInv, Holding
  <2> QED
    BY <1>6, <2>2, <2>4, QuietStep DEF Invalidate, Goto, IInv, TypeInv, TypeOK
<1> QED
  BY <1>1, <1>2, <1>3, <1>4, <1>5, <1>6, LockSaleIInv, WriteRowIInv,
     DeleteRowIInv, WriteChildrenIInv, WriteGiftIInv, CommitIInv DEF Step

(* What happens around the requests leaves their part of the invariant     *)
(* alone: AddSale writes a row nobody holds, CronUpdate waits for the rows *)
(* it writes.                                                              *)
LEMMA WorldIInv ==
    ASSUME IInv
    PROVE  /\ \A r \in Requests : \A p \in Payloads : Start(r, p) => IInv'
           /\ \A s \in Sales : \A a \in Allocations : AddSale(s, a) => IInv'
           /\ \A s \in Sales : Kickoff(s) \/ Expire(s) => IInv'
           /\ Cron \/ FlushSales \/ UNCHANGED vars => IInv'
<1>held. ASSUME NEW q \in Requests, Holding(q)
         PROVE  /\ SaleOf(q) \in Sales /\ Live(sale[SaleOf(q)])
                /\ lock[<<"sales", SaleOf(q)>>] = q
  BY <1>held, RunningSale DEF IInv, LockInv, Holding, Running
<1>frame. ASSUME TypeInv', UNCHANGED <<lock, pc, req, snap, view>>,
                 GiftIffGifted', TicketsMatchAllocations', DeletedLeavesNothing',
                 \A q \in Requests : Holding(q) =>
                   LET s == SaleOf(q) IN /\ sale'[s] = sale[s]
                                         /\ gift'[s] = gift[s]
                                         /\ alloc'[s] = alloc[s]
          PROVE  IInv'
  BY <1>frame, HolderFrame DEF IInv
<1>1. ASSUME NEW r \in Requests, NEW p \in Payloads, Start(r, p) PROVE IInv'
  <2>1. TypeInv'
    BY <1>1, WorldTypeInv DEF IInv
  <2>2. pc[r] = "idle" /\ pc'[r] = "read"
    BY <1>1 DEF Start, Goto, IInv, TypeInv, TypeOK
  <2>3. UNCHANGED <<sale, gift, alloc, hist, lock, snap, view>>
    BY <1>1 DEF Start, db
  <2>4. LockInv(r)' /\ ViewInv(r)'
    BY <2>2, <2>3 DEF LockInv, ViewInv, Holding, IInv
  <2> QED
    BY <1>1, <2>1, <2>3, <2>4, QuietStep DEF Start, Goto, IInv, TypeInv, TypeOK
<1>2. ASSUME NEW s \in Sales, NEW a \in Allocations, AddSale(s, a) PROVE IInv'
  <2>1. TypeInv'
    BY <1>2, WorldTypeInv DEF IInv
  <2>2. /\ sale[s].status = "UNUSED"
        /\ sale'[s].status = "PENDING" /\ sale'[s].nbTickets = sumTickets(a)
        /\ alloc'[s] = a
        /\ \A t \in Sales \ {s} : sale'[t] = sale[t] /\ alloc'[t] = alloc[t]
        /\ UNCHANGED <<gift, hist, lock, pc, req, snap, view>>
    BY <1>2 DEF AddSale, IInv, TypeInv, TypeOK
  <2>3. ~Live(sale[s])
    BY <2>2 DEF Live, SaleStatus
  <2>4. \A q \in Requests : Holding(q) => SaleOf(q) # s /\ SaleOf(q) \in Sales
    BY <2>3, <1>held
  <2>5. ASSUME NEW t \in Sales
        PROVE  /\ sale'[t].status = "GIFTED" <=> gift'[t] # None
               /\ Live(sale'[t]) => sale'[t].nbTickets = sumTickets(alloc'[t])
               /\ sale'[t].status = "DELETED" =>
                    hist'[t] = << >> /\ alloc'[t] = NoAllocs /\ gift'[t] = None
    <3>1. CASE t = s
      <4>1. gift[s] = None
        BY <2>2 DEF IInv, GiftIffGifted
      <4> QED
        BY <2>2, <3>1, <4>1
    <3>2. CASE t # s
      BY <2>2, <3>2 DEF IInv, GiftIffGifted, TicketsMatchAllocations,
                        DeletedLeavesNothing, Live
    <3> QED
      BY <3>1, <3>2
  <2>6. GiftIffGifted' /\ TicketsMatchAllocations' /\ DeletedLeavesNothing'
    BY <2>5 DEF GiftIffGifted, TicketsMatchAllocations, DeletedLeavesNothing
  <2> QED
    BY <2>1, <2>2, <2>4, <2>6, <1>frame
<1>3. ASSUME \/ \E s \in Sales : Kickoff(s) \/ Expire(s)
             \/ CronRead \/ CronInvalidate \/ FlushSales \/ UNCHANGED vars
      PROVE  IInv'
  <2>1. TypeInv'
    BY <1>3, WorldTypeInv DEF IInv, Cron
  <2>2. UNCHANGED <<sale, gift, alloc, hist, lock, pc, req, snap, view>>
    BY <1>3 DEF Kickoff, Expire, CronRead, CronInvalidate, FlushSales, vars, db
  <2>3. GiftIffGifted' /\ TicketsMatchAllocations' /\ DeletedLeavesNothing'
    BY <2>2 DEF IInv, GiftIffGifted, TicketsMatchAllocations,
                DeletedLeavesNothing
  <2> QED
    BY <2>1, <2>2, <2>3, <1>frame
<1>4. CASE CronUpdate
  <2>1. TypeInv'
    BY <1>4, WorldTypeInv DEF IInv, Cron
  <2>2. /\ UNCHANGED <<gift, alloc, hist, lock, pc, req, snap, view>>
        /\ \A s \in Due : lock[<<"sales", s>>] = None
    BY <1>4 DEF CronUpdate
  <2>3. \A s \in Sales \ Due : sale'[s] = sale[s]
    BY <1>4 DEF CronUpdate
  <2>4. ASSUME NEW s \in Sales \cap Due
        PROVE  /\ sale[s].status = "PENDING" /\ sale'[s].status = "CANCELLED"
               /\ sale'[s].nbTickets = sale[s].nbTickets
    <3>1. sale[s] \in Row /\ sale[s].status = "PENDING"
      BY DEF IInv, TypeInv, TypeOK, Due
    <3>2. sale'[s] = CancelledRow(sale[s])
      BY <1>4 DEF CronUpdate
    <3> QED
      BY <3>1, <3>2 DEF CancelledRow, Row
  <2>5. \A q \in Requests : Holding(q) => SaleOf(q) \in Sales \ Due
    BY <2>2, <1>held, ConstantsAssumption
  <2>6. ASSUME NEW t \in Sales
        PROVE  /\ sale'[t].status = "GIFTED" <=> gift'[t] # None
               /\ Live(sale'[t]) => sale'[t].nbTickets = sumTickets(alloc'[t])
               /\ sale'[t].status = "DELETED" =>
                    hist'[t] = << >> /\ alloc'[t] = NoAllocs /\ gift'[t] = None
    <3>1. CASE t \in Due
      <4>1. /\ sale[t].status = "PENDING" /\ sale'[t].status = "CANCELLED"
            /\ sale'[t].nbTickets = sale[t].nbTickets
            /\ gift'[t] = gift[t] /\ alloc'[t] = alloc[t]
        BY <2>2, <2>4, <3>1
      <4> QED
        BY <4>1 DEF IInv, GiftIffGifted, TicketsMatchAllocations, Live, SaleStatus
    <3>2. CASE t \notin Due
      BY <2>2, <2>3, <3>2 DEF IInv, GiftIffGifted, TicketsMatchAllocations,
                              DeletedLeavesNothing, Live
    <3> QED
      BY <3>1, <3>2
  <2>7. GiftIffGifted' /\ TicketsMatchAllocations' /\ DeletedLeavesNothing'
    BY <2>6 DEF GiftIffGifted, TicketsMatchAllocations, DeletedLeavesNothing
  <2> QED
    BY <2>1, <2>2, <2>3, <2>5, <2>7, <1>frame
<1> QED
  BY <1>1, <1>2, <1>3, <1>4 DEF Cron

LEMMA NextIInv == IInv /\ [Next]_vars => IInv'
<1> SUFFICES ASSUME IInv, [Next]_vars PROVE IInv'
  OBVIOUS
<1>1. ASSUME NEW r \in Requests, Crash(r) \/ DeadlockVictim(r) PROVE IInv'
  BY <1>1, AnswerIInv DEF Crash, DeadlockVictim
<1> QED
  BY <1>1, StepIInv, WorldIInv DEF Next

(* The invariant the safety theorems follow from: whoever holds a sale's   *)
(* row lock has a view that COMMIT may publish.                            *)
THEOREM Inductive == Spec => []IInv
BY InitIInv, NextIInv, PTL DEF Spec

(* Under every interleaving of updates, un-gifts, deletes and the cron a   *)
(* committed sale is GIFTED exactly when it has a gift row.                *)
THEOREM GiftedHasGift == Spec => []GiftIffGifted
<1>1. IInv => GiftIffGifted
  BY DEF IInv
<1> QED
  BY <1>1, Inductive, PTL

(* nbTickets is always the total of the sale's allocations.                *)
THEOREM TicketsAreAllocated == Spec => []TicketsMatchAllocations
<1>1. IInv => TicketsMatchAllocations
  BY DEF IInv
<1> QED
  BY <1>1, Inductive, PTL

(* A deleted sale has no history, allocation or gift row.                  *)
THEOREM DeleteIsComplete == Spec => []DeletedLeavesNothing
<1>1. IInv => DeletedLeavesNothing
  BY DEF IInv
<1> QED
  BY <1>1, Inductive, PTL

(* A step that is not the commit of an un-gift or a delete leaves a gifted *)
(* sale gifted.                                                            *)
LEMMA GiftedStays ==
    ASSUME IInv, [Next]_vars, NEW s \in Sales,
           sale[s].status = "GIFTED", sale'[s].status # "GIFTED"
    PROVE  \E r \in Requests : /\ pc[r] = "commit" /\ SaleOf(r) = s
                               /\ req[r].op \in {"ungift", "delete"}
<1>1. CASE \E r \in Requests : Commit(r)
  <2>1. PICK r \in Requests : Commit(r)
    BY <1>1
  <2>2. pc[r] = "commit" /\ req[r] \in Payload
    BY <2>1, RunningSale DEF Commit, Running
  <2>3. SaleOf(r) = s /\ sale'[s] = view[r].row
    BY <2>1 DEF Commit, IInv, TypeInv, TypeOK
  <2>4. gift[s] # None
    BY DEF IInv, GiftIffGifted
  <2>5. req[r].op # "update"
    BY <2>2, <2>3, <2>4 DEF IInv, ViewInv
  <2> QED
    BY <2>2, <2>3, <2>5 DEF Payload
<1>2. CASE ~\E r \in Requests : Commit(r)
  <2>1. sale' # sale
    OBVIOUS
  <2>2. \A r \in Requests : ~Step(r)
    BY <1>2, <2>1
       DEF Step, ReadCached, FillCache, Check, ReadDb, DeleteGiftRow,
           DeleteHistories, DeleteAllocations, LockSale, WriteRow, DeleteRow,
           WriteChildren, WriteGift, Invalidate, Locked, Answer, db
  <2>3. CronUpdate \/ \E t \in Sales : \E a \in Allocations : AddSale(t, a)
    BY <2>1, <2>2
       DEF Next, Cron, CronRead, CronInvalidate, FlushSales, Start, Crash, DeadlockVictim,
           Answer, Kickoff, Expire, vars, db
  <2> QED
    BY <2>3 DEF CronUpdate, Due, AddSale, IInv, TypeInv, TypeOK
<1> QED
  BY <1>1, <1>2

(* However stale the snapshot of an update, only un-gift and delete move a *)
(* sale out of GIFTED.                                                     *)
THEOREM GiftedIsTerminal == Spec => GiftedLeftOnlyByUngift
<1>1. IInv /\ [Next]_vars =>
        [\A s \in Sales :
           sale[s].status = "GIFTED" /\ sale'[s].status # "GIFTED" =>
             \E r \in Requests : /\ pc[r] = "commit" /\ SaleOf(r) = s
                                 /\ req[r].op \in {"ungift", "delete"}]_vars
  BY GiftedStays
<1> QED
  BY <1>1, Inductive, PTL DEF Spec, GiftedLeftOnlyByUngift

-----------------------------------------------------------------------------
(* Who moves what: the frames of the invariants that build on IInv.        *)

OwnStep(r) ==
    Step(r) \/ Crash(r) \/ DeadlockVictim(r) \/ \E p \in Payloads : Start(r, p)

WorldStep ==
    \/ \E s \in Sales : \/ \E a \in Allocations : AddSale(s, a)
                        \/ Kickoff(s) \/ Expire(s)
    \/ FlushSales \/ Cron
    \/ UNCHANGED vars

LEMMA NextSplit ==
    ASSUME [Next]_vars
    PROVE  WorldStep \/ \E r \in Requests : OwnStep(r)
BY DEF Next, OwnStep, WorldStep

(* A request moves nothing of another request.                             *)
LEMMA OwnFrame ==
    ASSUME TypeOK, NEW r \in Requests, OwnStep(r), NEW q \in Requests \ {r}
    PROVE  /\ pc'[q] = pc[q] /\ req'[q] = req[q]
           /\ snap'[q] = snap[q] /\ view'[q] = view[q]
<1>1. CASE \E a \in Answers : Answer(r, a)
  BY <1>1 DEF Answer, Goto, TypeOK
<1>2. CASE ~\E a \in Answers : Answer(r, a)
  <2>1. CASE \E p \in Payloads : Start(r, p)
    BY <2>1 DEF Start, Goto, TypeOK
  <2>2. CASE ReadCached(r) \/ FillCache(r) \/ Check(r) \/ ReadDb(r)
    BY <1>2, <2>2 DEF ReadCached, FillCache, Check, ReadDb, Goto, TypeOK
  <2>3. CASE DeleteGiftRow(r) \/ DeleteHistories(r) \/ DeleteAllocations(r)
    BY <2>3 DEF DeleteGiftRow, DeleteHistories, DeleteAllocations, Locked,
                Goto, TypeOK
  <2>4. CASE LockSale(r)
    BY <1>2, <2>4 DEF LockSale, Locked, Goto, TypeOK
  <2>5. CASE WriteRow(r) \/ DeleteRow(r)
    BY <1>2, <2>5 DEF WriteRow, DeleteRow, Goto, TypeOK
  <2>6. CASE WriteChildren(r) \/ WriteGift(r)
    BY <1>2, <2>6 DEF WriteChildren, WriteGift, Locked, Goto, TypeOK
  <2>7. CASE Commit(r) \/ Invalidate(r)
    BY <2>7 DEF Commit, Invalidate, Goto, TypeOK
  <2> QED
    BY <1>2, <2>1, <2>2, <2>3, <2>4, <2>5, <2>6, <2>7
       DEF OwnStep, Step, Crash, DeadlockVictim
<1> QED
  BY <1>1, <1>2

(* What happens around the requests moves nothing of theirs.               *)
LEMMA WorldFrame ==
    WorldStep => UNCHANGED <<gift, hist, recips, lock, pc, req, snap, view>>
BY DEF WorldStep, AddSale, Kickoff, Expire, Cron, CronRead, CronUpdate,
       CronInvalidate, FlushSales, vars, db

(* A request publishes nothing but at COMMIT.                              *)
LEMMA OwnQuiet ==
    ASSUME NEW r \in Requests, OwnStep(r), ~Commit(r)
    PROVE  UNCHANGED <<db, played>>
<1>1. CASE \E a \in Answers : Answer(r, a)
  BY <1>1 DEF Answer
<1>2. CASE ~\E a \in Answers : Answer(r, a)
  BY <1>2 DEF OwnStep, Step, Crash, DeadlockVictim, Start, ReadCached,
       FillCache, Check, ReadDb, DeleteGiftRow, DeleteHistories,
       DeleteAllocations, LockSale, WriteRow, DeleteRow, WriteChildren,
       WriteGift, Invalidate, Locked
<1> QED
  BY <1>1, <1>2

(* The row a holder will commit: as it was locked, patched or deleted.     *)
LEMMA HolderRow ==
    ASSUME IInv, [Next]_vars, NEW q \in Requests, Holding(q)'
    PROVE  /\ req'[q] = req[q] /\ snap'[q] = snap[q]
           /\ \/ LockSale(q) /\ pc'[q] = "row" /\ view'[q].row = sale[SaleOf(q)]
              \/ /\ WriteRow(q) /\ ~PinnedByGift(q, PatchedRow(q))
                 /\ view'[q].row = PatchedRow(q)
              \/ /\ DeleteRow(q) /\ req[q].op = "delete"
                 /\ view'[q].row = EmptyRow("DELETED")
              \/ /\ pc[q] \in {"children", "gift"} /\ ~Commit(q)
                 /\ view'[q].row = view[q].row
              \/ Holding(q) /\ pc'[q] = pc[q] /\ view'[q] = view[q]
<1> USE DEF IInv, TypeInv
<1>1. CASE WorldStep \/ \E r \in Requests \ {q} : OwnStep(r)
  <2>1. UNCHANGED <<pc[q], req[q], snap[q], view[q]>>
    BY <1>1, WorldFrame, OwnFrame
  <2> QED
    BY <2>1 DEF Holding
<1>2. CASE OwnStep(q)
  <2>0. /\ ~\E a \in Answers : Answer(q, a)
        /\ pc'[q] \in {"row", "children", "gift", "commit"}
    BY DEF Holding, Answer, Goto, TypeOK
  <2>1. CASE LockSale(q)
    BY <2>0, <2>1 DEF LockSale, Locked, Goto, TypeOK
  <2>2. CASE WriteRow(q)
    BY <2>0, <2>2 DEF WriteRow, Goto, TypeOK, View
  <2>3. CASE DeleteRow(q)
    BY <2>0, <2>3 DEF DeleteRow, Goto, TypeOK, Statement
  <2>4. CASE WriteChildren(q)
    BY <2>0, <2>4 DEF WriteChildren, Locked, Goto, TypeOK, View, Statement, Commit
  <2>5. CASE WriteGift(q)
    BY <2>0, <2>5 DEF WriteGift, Locked, Goto, TypeOK, View, Statement, Commit
  <2>6. ~\E p \in Payloads : Start(q, p)
    BY <2>0 DEF Start, Goto, TypeOK
  <2>7. ~(ReadCached(q) \/ FillCache(q) \/ Check(q) \/ ReadDb(q))
    BY <2>0 DEF ReadCached, FillCache, Check, ReadDb, Goto, TypeOK
  <2>8. ~(DeleteGiftRow(q) \/ DeleteHistories(q) \/ DeleteAllocations(q))
    BY <2>0 DEF DeleteGiftRow, DeleteHistories, DeleteAllocations, Locked, Goto,
           TypeOK
  <2>9. ~(Commit(q) \/ Invalidate(q))
    BY <2>0 DEF Commit, Invalidate, Goto, TypeOK
  <2> QED
    BY <1>2, <2>0, <2>1, <2>2, <2>3, <2>4, <2>5, <2>6, <2>7, <2>8, <2>9
       DEF OwnStep, Step, Crash, DeadlockVictim
<1> QED
  BY <1>1, <1>2, NextSplit

-----------------------------------------------------------------------------
(* Where a committed sale row comes from.                                  *)
LEMMA SaleMoves ==
    ASSUME IInv, [Next]_vars, NEW s \in Sales
    PROVE  \/ sale'[s] = sale[s]
           \/ \E r \in Requests :
                /\ Commit(r) /\ SaleOf(r) = s /\ Holding(r)
                /\ sale'[s] = view[r].row
           \/ /\ \E a \in Allocations : AddSale(s, a)
              /\ sale'[s].status = "PENDING"
           \/ /\ CronUpdate /\ s \in Due
              /\ sale'[s] = CancelledRow(sale[s])
<1> USE DEF IInv, TypeInv, TypeOK
<1>1. CASE \E r \in Requests : Commit(r)
  <2>1. PICK r \in Requests : Commit(r)
    BY <1>1
  <2>2. SaleOf(r) \in Sales /\ Holding(r)
    BY <2>1, RunningSale DEF Commit, Running, Holding
  <2> QED
    BY <2>1, <2>2 DEF Commit
<1>2. CASE \E r \in Requests : OwnStep(r) /\ ~Commit(r)
  BY <1>2, OwnQuiet DEF db
<1>3. CASE WorldStep
  <2>1. CASE \E t \in Sales : \E a \in Allocations : AddSale(t, a)
    <3>1. PICK t \in Sales, a \in Allocations : AddSale(t, a)
      BY <2>1
    <3>2. sale'[t].status = "PENDING"
          /\ \A x \in Sales \ {t} : sale'[x] = sale[x]
      BY <3>1 DEF AddSale
    <3> QED
      BY <3>1, <3>2
  <2>2. CASE CronUpdate
    BY <2>2 DEF CronUpdate
  <2>3. CASE /\ ~\E t \in Sales : \E a \in Allocations : AddSale(t, a)
             /\ ~CronUpdate
    BY <1>3, <2>3 DEF WorldStep, Kickoff, Expire, Cron, CronRead,
                      CronInvalidate, FlushSales, vars, db
  <2> QED
    BY <2>1, <2>2, <2>3
<1> QED
  BY <1>1, <1>2, <1>3, NextSplit

(* Only LockSale makes a request the holder of a sale, whose row stays as  *)
(* it is until that request commits it.                                    *)
LEMMA HeldRowStays ==
    ASSUME IInv, [Next]_vars, NEW q \in Requests, Holding(q), ~Commit(q)
    PROVE  sale'[SaleOf(q)] = sale[SaleOf(q)]
<1> DEFINE s == SaleOf(q)
<1>1. /\ s \in Sales /\ lock[<<"sales", s>>] = q /\ Live(sale[s])
  BY RunningSale DEF IInv, LockInv, Holding, Running
<1>2. ASSUME NEW r \in Requests, Commit(r), SaleOf(r) = s
      PROVE  r = q
  BY <1>1, <1>2 DEF Commit, IInv, LockInv, Holding
<1>3. ~\E a \in Allocations : AddSale(s, a)
  BY <1>1 DEF AddSale, Live, SaleStatus
<1>4. ~(CronUpdate /\ s \in Due)
  BY <1>1, ConstantsAssumption DEF CronUpdate
<1> QED
  BY <1>1, <1>2, <1>3, <1>4, SaleMoves

-----------------------------------------------------------------------------
(* Stamps.                                                                 *)

(* A patch writes CANCELLED only over CANCELLED, and then moves no stamp:  *)
(* the snapshot's status is also the one it moves to.                      *)
LEMMA PatchKeepsStamps ==
    ASSUME IInv, NEW r \in Requests, pc[r] = "row", req[r].op # "delete",
           Stamped(view[r].row)
    PROVE  Stamped(PatchedRow(r))
<1>1. req[r] \in Payload /\ view[r].row \in Row
  BY RunningSale DEF Running, IInv, TypeInv, TypeOK, View
<1>2. CASE Kind(r) = "ungift"
  BY <1>1, <1>2 DEF PatchedRow, Stamped, Row
<1>3. CASE Kind(r) # "ungift"
  <2>1. CASE Kind(r) = "updateGift" \/ req[r].target = "NONE"
    BY <1>1, <1>3, <2>1 DEF PatchedRow, Stamped, Mirror
  <2>2. CASE Kind(r) # "updateGift" /\ req[r].target # "NONE"
    BY <1>1, <1>3, <2>2 DEF PatchedRow, Stamped, Payload, Targets
  <2> QED
    BY <2>1, <2>2
<1> QED
  BY <1>2, <1>3

LEMMA StampStep == IInv /\ StampInv /\ [Next]_vars => StampInv'
<1> SUFFICES ASSUME IInv, StampInv, [Next]_vars PROVE StampInv'
  OBVIOUS
<1>1. ASSUME NEW s \in Sales PROVE Stamped(sale'[s])
  <2>1. CASE sale'[s].status = "PENDING" \/ sale'[s] = sale[s]
    BY <2>1 DEF StampInv, Stamped
  <2>2. CASE CronUpdate /\ sale'[s] = CancelledRow(sale[s])
    BY <2>2 DEF CancelledRow, Stamped, IInv, TypeInv, TypeOK, Row
  <2> QED
    BY <2>1, <2>2, SaleMoves DEF StampInv
<1>2. ASSUME NEW q \in Requests, Holding(q)' PROVE Stamped(view'[q].row)
  <2>1. CASE LockSale(q) /\ view'[q].row = sale[SaleOf(q)]
    BY <2>1, RunningSale DEF LockSale, Statement, Running, StampInv
  <2>2. CASE WriteRow(q) /\ view'[q].row = PatchedRow(q)
    BY <2>2, PatchKeepsStamps DEF WriteRow, Statement, StampInv, Holding
  <2>3. CASE view'[q].row = EmptyRow("DELETED")
    BY <2>3 DEF EmptyRow, Stamped
  <2>4. CASE Holding(q) /\ view'[q].row = view[q].row
    BY <2>4 DEF StampInv
  <2> QED
    BY <1>2, <2>1, <2>2, <2>3, <2>4, HolderRow DEF Holding
<1> QED
  BY <1>1, <1>2 DEF StampInv, Stamped, Holding

(* A sale the cron cancelled keeps its cancellation date and has no sale   *)
(* date, whatever snapshot the timestamp patch of an edit starts from.     *)
THEOREM CancelledKeepsStamp == Spec => []CancelledIsStamped
<1>1. Init => StampInv
  BY DEF Init, StampInv, Stamped, EmptyRow, Holding
<1>2. StampInv => CancelledIsStamped
  BY DEF StampInv, Stamped, CancelledIsStamped
<1> QED
  BY <1>1, <1>2, StampStep, Inductive, PTL DEF Spec

-----------------------------------------------------------------------------
(* The moves of the ledger.                                                *)

(* What the first write of an update or an un-gift does to the status and  *)
(* the tickets of the row it locked.                                       *)
LEMMA PatchedRowMoves ==
    ASSUME IInv, NEW r \in Requests, pc[r] = "row", req[r].op # "delete"
    PROVE  LET row == PatchedRow(r)  old == sale[SaleOf(r)] IN
           /\ row.status \in {"PENDING", "SOLD", "GIFTED", old.status}
           /\ row.nbTickets \in Counts \union {old.nbTickets}
           /\ req[r].op = "ungift" => /\ row.status = "PENDING"
                                     /\ row.nbTickets = old.nbTickets
<1>1. /\ req[r] \in Payload /\ view[r].row \in Row
      /\ view[r].row = sale[SaleOf(r)]
  BY RunningSale DEF Running, IInv, TypeInv, TypeOK, View, ViewInv
<1>2. PatchedTickets(r) \in Counts \union {view[r].row.nbTickets}
  BY <1>1, TicketTypes DEF PatchedTickets, Payload
<1>3. (req[r].op = "ungift") <=> (Kind(r) = "ungift")
  BY <1>1 DEF Kind, Intent, Payload
<1> QED
  BY <1>1, <1>2, <1>3 DEF PatchedRow, Row, Payload, Targets

LEMMA MoveStep ==
    ASSUME IInv, [Next]_vars, NEW q \in Requests, MoveInv(q)
    PROVE  MoveInv(q)'
<1> SUFFICES ASSUME pc'[q] \in {"children", "gift", "commit"}
             PROVE  LET row == view'[q].row  old == sale'[SaleOf(q)'] IN
           IF req'[q].op = "delete" THEN row = EmptyRow("DELETED")
           ELSE /\ row.status \in {"PENDING", "SOLD", "GIFTED", old.status}
                /\ row.nbTickets \in Counts \union {old.nbTickets}
                /\ req'[q].op = "ungift" => /\ row.status = "PENDING"
                                           /\ row.nbTickets = old.nbTickets
  BY DEF MoveInv
<1>1. Holding(q)' /\ req'[q] = req[q] /\ SaleOf(q)' = SaleOf(q)
  BY HolderRow DEF Holding, SaleOf
<1>2. CASE WriteRow(q) /\ view'[q].row = PatchedRow(q)
  <2>1. Holding(q) /\ ~Commit(q) /\ pc[q] = "row" /\ req[q].op # "delete"
    BY <1>2 DEF WriteRow, Statement, Holding, Commit
  <2> QED
    BY <1>1, <1>2, <2>1, HeldRowStays, PatchedRowMoves
<1>3. CASE /\ pc[q] \in {"children", "gift", "commit"} /\ ~Commit(q)
           /\ view'[q].row = view[q].row
  <2>1. Holding(q)
    BY <1>3 DEF Holding
  <2> QED
    BY <1>1, <1>3, <2>1, HeldRowStays DEF MoveInv
<1>4. Commit(q) => pc'[q] = "inval"
  BY DEF Commit, Goto, IInv, TypeInv, TypeOK
<1> QED
  BY <1>1, <1>2, <1>3, <1>4, HolderRow

-----------------------------------------------------------------------------
(* The mapping of one sale that moves while the others stay.               *)
LEMMA LedgerFrame ==
    ASSUME TypeOK, NEW s \in Sales, NEW row \in Row,
           sale' = [sale EXCEPT ![s] = row]
    PROVE  /\ [x \in Sales |-> sale'[x].status] =
                [[x \in Sales |-> sale[x].status] EXCEPT ![s] = row.status]
           /\ [x \in Sales |-> sale'[x].nbTickets] =
                [[x \in Sales |-> sale[x].nbTickets] EXCEPT ![s] = row.nbTickets]
BY DEF TypeOK

LEMMA LedgerIntro ==
    ASSUME NEW s \in Sales
    PROVE  /\ Ledger!Ungift(s) \/ Ledger!Remove(s) \/ Ledger!Play(s) =>
                Ledger!LedgerNext
           /\ \A n \in Counts \union {sale[s].nbTickets} :
                /\ Ledger!Create(s, n) => Ledger!LedgerNext
                /\ \A target \in Ledger!Open :
                     Ledger!Manage(s, target, n) => Ledger!LedgerNext
                /\ \A who \in Recipients :
                     Ledger!Give(s, who, n) \/ Ledger!Regive(s, who, n) =>
                       Ledger!LedgerNext
BY DEF Ledger!LedgerNext

(* A commit is one move of the ledger.                                     *)
LEMMA CommitMoves ==
    ASSUME IInv, NEW r \in Requests, MoveInv(r), Commit(r)
    PROVE  Ledger!LedgerNext
<1> USE DEF IInv, TypeInv
<1> DEFINE v == view[r]
<1>0. PICK s \in Sales, to \in RowStatus, n \in Counts \union {0},
           who \in Recipients \union {None} :
        /\ s = SaleOf(r) /\ to = v.row.status /\ n = v.row.nbTickets
        /\ who = v.gift
  BY RunningSale DEF Commit, Running, TypeOK, View, Row
<1> DEFINE old == sale[s]
<1>1. /\ pc[r] = "commit" /\ s \in Sales /\ req[r] \in Payload /\ v \in View
      /\ old \in Row /\ Live(old) /\ gift[s] \in Recipients \union {None}
  BY <1>0, RunningSale DEF Commit, Running, LockInv, Holding, TypeOK
<1>2. /\ sale' = [sale EXCEPT ![s] = v.row] /\ gift' = [gift EXCEPT ![s] = who]
      /\ recips' = recips \union ({who} \ {None}) /\ played' = played
  BY <1>0 DEF Commit, NewRecipients
<1>3. /\ to = "GIFTED" <=> who # None
      /\ ~Live(v.row) => /\ req[r].op = "delete"
                         /\ v.row = EmptyRow("DELETED")
      /\ req[r].op = "update" /\ gift[s] # None => who # None
  BY <1>0, <1>1 DEF ViewInv
<1>4. old.status = "GIFTED" <=> gift[s] # None
  BY <1>0, <1>1 DEF GiftIffGifted
<1>5. IF req[r].op = "delete" THEN v.row = EmptyRow("DELETED") ELSE
        /\ to \in {"PENDING", "SOLD", "GIFTED", old.status}
        /\ n \in Counts \union {old.nbTickets}
        /\ req[r].op = "ungift" => to = "PENDING" /\ n = old.nbTickets
  BY <1>0, <1>1 DEF MoveInv
<1>6. v.row \in Row
  BY <1>0, <1>1 DEF View
<1>7. /\ [x \in Sales |-> sale'[x].status] =
           [[x \in Sales |-> sale[x].status] EXCEPT ![s] = to]
      /\ [x \in Sales |-> sale'[x].nbTickets] =
           [[x \in Sales |-> sale[x].nbTickets] EXCEPT ![s] = n]
  BY <1>0, <1>1, <1>2, <1>6, LedgerFrame
<1>8. old.status \in Ledger!Open \union {"GIFTED"}
  BY <1>1 DEF Live, SaleStatus, Ledger!Open
<1>9. n \in Counts \union {old.nbTickets} \/ req[r].op = "delete"
  BY <1>0, <1>5
<1>10. CASE req[r].op = "delete"
  <2>1. to = "DELETED" /\ n = 0 /\ who = None
    BY <1>0, <1>3, <1>5, <1>10 DEF EmptyRow
  <2>2. Ledger!Remove(s)
    <3> HIDE DEF v
    <3> QED
      BY <1>1, <1>2, <1>7, <1>8, <2>1 DEF Ledger!Remove
  <2> QED
    BY <1>1, <2>2, LedgerIntro
<1>11. CASE req[r].op # "delete" /\ to = "GIFTED"
  <2>1. who \in Recipients /\ recips' = recips \union {who}
    BY <1>2, <1>3, <1>6, <1>11
  <2>2. CASE old.status = "GIFTED"
    <3>1. [x \in Sales |-> sale'[x].status] = [x \in Sales |-> sale[x].status]
      BY <1>1, <1>7, <1>11, <2>2
    <3>2. Ledger!Regive(s, who, n)
      <4> HIDE DEF v
      <4> QED
        BY <1>1, <1>2, <1>7, <1>9, <1>11, <2>1, <2>2, <3>1
           DEF Ledger!Regive, Ledger!Recount
    <3> QED
      BY <1>1, <1>9, <1>11, <2>1, <3>2, LedgerIntro
  <2>3. CASE old.status # "GIFTED"
    <3>1. Ledger!Give(s, who, n)
      <4> HIDE DEF v
      <4> QED
        BY <1>1, <1>2, <1>7, <1>8, <1>9, <1>11, <2>1, <2>3
           DEF Ledger!Give, Ledger!Recount
    <3> QED
      BY <1>1, <1>9, <1>11, <2>1, <3>1, LedgerIntro
  <2> QED
    BY <2>2, <2>3
<1>12. CASE /\ req[r].op # "delete" /\ to # "GIFTED"
            /\ old.status = "GIFTED"
  <2>1. req[r].op = "ungift" /\ who = None
    BY <1>1, <1>3, <1>4, <1>12 DEF Payload
  <2>2. to = "PENDING" /\ n = old.nbTickets
    BY <1>5, <2>1
  <2>3. [x \in Sales |-> sale'[x].nbTickets] = [x \in Sales |-> sale[x].nbTickets]
    BY <1>1, <1>7, <2>2
  <2>4. Ledger!Ungift(s)
    <3> HIDE DEF v
    <3> QED
      BY <1>1, <1>2, <1>7, <1>12, <2>1, <2>2, <2>3 DEF Ledger!Ungift
  <2> QED
    BY <1>1, <2>4, LedgerIntro
<1>13. CASE /\ req[r].op # "delete" /\ to # "GIFTED"
            /\ old.status # "GIFTED"
  <2>1. who = None /\ gift[s] = None
    BY <1>3, <1>4, <1>13
  <2>2. gift' = gift /\ recips' = recips
    BY <1>1, <1>2, <2>1 DEF TypeOK
  <2>3. /\ old.status \in Ledger!Open
        /\ to \in {"PENDING", "SOLD", old.status}
    BY <1>5, <1>8, <1>13
  <2>4. Ledger!Manage(s, to, n)
    <3> HIDE DEF v
    <3> QED
      BY <1>1, <1>2, <1>7, <1>9, <1>13, <2>2, <2>3
         DEF Ledger!Manage, Ledger!Recount
  <2>5. to \in Ledger!Open
    BY <2>3 DEF Ledger!Open
  <2> QED
    BY <1>1, <1>9, <1>13, <2>4, <2>5, LedgerIntro
<1> QED
  BY <1>10, <1>11, <1>12, <1>13

(* Every step of the code is a move of the ledger or changes no row.       *)
LEMMA LedgerStep ==
    ASSUME IInv, \A r \in Requests : MoveInv(r), [Next]_vars
    PROVE  [Ledger!LedgerNext]_(Ledger!ledger)
<1> USE DEF IInv, TypeInv
<1>1. CASE \E r \in Requests : OwnStep(r)
  <2>1. PICK r \in Requests : OwnStep(r)
    BY <1>1
  <2>2. CASE Commit(r)
    BY <2>2, CommitMoves
  <2>3. CASE ~Commit(r)
    BY <2>1, <2>3, OwnQuiet DEF Ledger!ledger, db
  <2> QED
    BY <2>2, <2>3
<1>2. CASE WorldStep
  <2>1. ASSUME NEW s \in Sales, NEW a \in Allocations, AddSale(s, a)
        PROVE  Ledger!LedgerNext
    <3> DEFINE row == [status |-> "PENDING", soldAt |-> FALSE,
                       cancelledAt |-> FALSE, nbTickets |-> sumTickets(a)]
    <3>1. row \in Row /\ sumTickets(a) \in Counts
      BY TicketTypes DEF Row, RowStatus, SaleStatus
    <3>2. /\ sale' = [sale EXCEPT ![s] = row] /\ sale[s].status = "UNUSED"
          /\ UNCHANGED <<gift, recips, played>>
      BY <2>1 DEF AddSale
    <3>3. /\ [x \in Sales |-> sale'[x].status] =
               [[x \in Sales |-> sale[x].status] EXCEPT ![s] = "PENDING"]
          /\ [x \in Sales |-> sale'[x].nbTickets] =
               [[x \in Sales |-> sale[x].nbTickets] EXCEPT ![s] = sumTickets(a)]
      BY <3>1, <3>2, LedgerFrame
    <3>4. Ledger!Create(s, sumTickets(a))
      BY <3>1, <3>2, <3>3 DEF Ledger!Create
    <3> QED
      BY <3>1, <3>4 DEF Ledger!LedgerNext
  <2>2. CASE CronUpdate
    <3>1. ASSUME NEW s \in Sales
          PROVE  /\ sale'[s].status =
                      IF s \in played /\ sale[s].status = "PENDING"
                      THEN "CANCELLED" ELSE sale[s].status
                 /\ sale'[s].nbTickets = sale[s].nbTickets
      <4>1. sale[s] \in Row
        BY DEF TypeOK
      <4>2. sale'[s] = IF s \in played /\ sale[s].status = "PENDING"
                       THEN CancelledRow(sale[s]) ELSE sale[s]
        BY <2>2 DEF CronUpdate, Due
      <4> QED
        BY <4>1, <4>2 DEF CancelledRow, Row
    <3>2. UNCHANGED <<gift, recips, played>>
      BY <2>2 DEF CronUpdate
    <3>3. Ledger!CancelPlayed
      BY <3>1, <3>2 DEF Ledger!CancelPlayed
    <3> QED
      BY <3>3 DEF Ledger!LedgerNext
  <2>3. ASSUME NEW s \in Sales, Kickoff(s) PROVE Ledger!LedgerNext
    <3>1. Ledger!Play(s)
      BY <2>3 DEF Kickoff, Ledger!Play, db
    <3> QED
      BY <3>1 DEF Ledger!LedgerNext
  <2>4. CASE \/ \E s \in Sales : Expire(s)
             \/ CronRead \/ CronInvalidate \/ FlushSales \/ UNCHANGED vars
    BY <2>4 DEF Expire, CronRead, CronInvalidate, FlushSales, vars, db, Ledger!ledger
  <2> QED
    BY <1>2, <2>1, <2>2, <2>3, <2>4 DEF WorldStep, Cron
<1> QED
  BY <1>1, <1>2, NextSplit

(* Requests, transactions, row locks and caches together implement the     *)
(* ledger: every committed change of a sale is one of its moves.           *)
THEOREM LifecycleImplementsLedger == Spec => ImplementsLedger
<1> DEFINE Moves == \A r \in Requests : MoveInv(r)
<1>1. Init => Moves
  BY DEF Init, MoveInv
<1>2. IInv /\ Moves /\ [Next]_vars => Moves'
  BY MoveStep
<1>3. Init => Ledger!LedgerInit
  BY DEF Init, Ledger!LedgerInit, EmptyRow
<1>4. IInv /\ Moves /\ [Next]_vars => [Ledger!LedgerNext]_(Ledger!ledger)
  BY LedgerStep
<1> HIDE DEF Moves
<1> QED
  BY <1>1, <1>2, <1>3, <1>4, Inductive, PTL
     DEF Spec, ImplementsLedger, Ledger!LedgerSpec

-----------------------------------------------------------------------------
(* The lock order.                                                         *)

(* What a step of a request does to the locks.                             *)
LEMMA OwnLocks ==
    ASSUME NEW r \in Requests, OwnStep(r)
    PROVE  \/ CanLock(r) /\ Acquire(r)
           \/ Release(r)
           \/ UNCHANGED lock
<1>1. CASE \E a \in Answers : Answer(r, a)
  BY <1>1 DEF Answer
<1>2. CASE ~\E a \in Answers : Answer(r, a)
  BY <1>2 DEF OwnStep, Step, Crash, DeadlockVictim, Start, ReadCached,
       FillCache, Check, ReadDb, DeleteGiftRow, DeleteHistories,
       DeleteAllocations, LockSale, WriteRow, DeleteRow, WriteChildren,
       WriteGift, Commit, Invalidate, Locked, Statement
<1> QED
  BY <1>1, <1>2

LEMMA LockKinds ==
    /\ \A s \in Sales : /\ <<"sales", s>> \in Resources
                        /\ <<"gifts", s>> \in Resources
                        /\ <<"sale_histories", s>> \in Resources
                        /\ <<"sale_pass_allocations", s>> \in Resources
    /\ \A n \in Recipients : <<"recipients", n>> \in Resources
BY DEF Resources, Tables

(* A request that locks rows for its next statement.                       *)
LEMMA AcquireOrder ==
    ASSUME IInv, NEW q \in Requests, LockOrder(q), CanLock(q), Acquire(q),
           pc[q] \in {"delGift", "delHist", "delAlloc", "lockSale",
                      "children", "gift"},
           req'[q] = req[q], pc'[q] \in TxSteps,
           pc[q] = "lockSale" => pc'[q] = "row",
           pc[q] = "children" => pc'[q] \in {"gift", "commit"},
           pc[q] = "gift" => pc'[q] = "commit",
           pc[q] \in {"delGift", "delHist", "delAlloc"} =>
             pc'[q] \in {"delHist", "delAlloc", "lockSale"}
    PROVE  LockOrder(q)'
<1> DEFINE s == SaleOf(q)
<1>1. s \in Sales /\ SaleOf(q)' = s
  BY RunningSale DEF Running, SaleOf
<1>2. \A x \in Resources : lock'[x] = q => lock[x] = q \/ x \in Needs(q)
  BY DEF Acquire
<1>3. CASE pc[q] \in {"delGift", "delHist", "delAlloc"}
  <2>1. \A x \in Needs(q) :
          x[1] \in {"gifts", "sale_histories", "sale_pass_allocations"}
    BY <1>3 DEF Needs
  <2>2. req[q].op # "update"
    BY <1>3, RunningSale DEF Running, IInv, TypeInv, RequestInv, Payload
  <2>3. \A t \in Sales : lock'[<<"sales", t>>] # q
    BY <1>2, <1>3, <2>1, LockKinds DEF LockOrder, Holding
  <2>4. \A n \in Recipients : lock'[<<"recipients", n>>] # q
    BY <1>2, <1>3, <2>1, LockKinds DEF LockOrder
  <2> QED
    BY <1>1, <2>2, <2>3, <2>4 DEF LockOrder
<1>4. CASE pc[q] = "lockSale"
  <2>1. Needs(q) = {<<"sales", s>>}
    BY <1>4 DEF Needs
  <2> QED
    BY <1>1, <1>2, <1>4, <2>1, LockKinds DEF LockOrder, Holding
<1>5. CASE pc[q] = "children"
  <2>1. Needs(q) \subseteq {<<"sale_pass_allocations", s>>}
    BY <1>5 DEF Needs
  <2> QED
    BY <1>1, <1>2, <1>5, <2>1, LockKinds DEF LockOrder, Holding
<1>6. CASE pc[q] = "gift"
  <2>1. \A x \in Needs(q) : x[1] \in {"gifts", "recipients"}
    BY <1>6 DEF Needs, GiftNeeds
  <2> QED
    BY <1>1, <1>2, <1>6, <2>1, LockKinds DEF LockOrder, Holding
<1> QED
  BY <1>3, <1>4, <1>5, <1>6

LEMMA LockOrderStep ==
    ASSUME IInv, [Next]_vars, NEW q \in Requests, LockOrder(q)
    PROVE  LockOrder(q)'
<1> USE DEF IInv, TypeInv
<1>free. ASSUME \A x \in Resources : lock'[x] # q PROVE LockOrder(q)'
  BY <1>free, LockKinds DEF LockOrder
<1>rel. Release(q) => \A x \in Resources : lock'[x] # q
  BY ConstantsAssumption DEF Release
<1>1. CASE WorldStep
  BY <1>1, WorldFrame DEF LockOrder, Holding, SaleOf
<1>2. CASE \E r \in Requests \ {q} : OwnStep(r)
  <2>1. PICK r \in Requests \ {q} : OwnStep(r)
    BY <1>2
  <2>2. \A x \in Resources : lock'[x] = q <=> lock[x] = q
    BY <2>1, OwnLocks, OthersKeepLocks
  <2>3. pc'[q] = pc[q] /\ req'[q] = req[q]
    BY <2>1, OwnFrame
  <2> QED
    BY <2>2, <2>3, LockKinds DEF LockOrder, Holding, SaleOf
<1>3. CASE OwnStep(q)
  <2>1. CASE (\E a \in Answers : Answer(q, a)) \/ Commit(q)
    BY <2>1, <1>free, <1>rel DEF Answer, Commit
  <2>2. CASE /\ ~\E a \in Answers : Answer(q, a)
             /\ \/ \E p \in Payloads : Start(q, p)
                \/ ReadCached(q) \/ FillCache(q) \/ Check(q) \/ ReadDb(q)
                \/ Invalidate(q)
    <3>1. lock' = lock /\ pc[q] \notin TxSteps
      BY <2>2 DEF Start, ReadCached, FillCache, Check, ReadDb, Invalidate
    <3> QED
      BY <3>1, <1>free DEF LockOrder
  <2>3. CASE WriteRow(q) /\ ~\E a \in Answers : Answer(q, a)
    <3>1. /\ lock' = lock /\ pc[q] = "row" /\ pc'[q] = "children"
          /\ req'[q] = req[q]
      BY <2>3 DEF WriteRow, Statement, Goto, TypeOK
    <3> QED
      BY <3>1, LockKinds DEF LockOrder, Holding, SaleOf
  <2>4. CASE DeleteRow(q) /\ ~\E a \in Answers : Answer(q, a)
    <3>1. /\ lock' = lock /\ pc[q] = "row" /\ pc'[q] = "commit"
          /\ req'[q] = req[q]
      BY <2>4 DEF DeleteRow, Statement, Goto, TypeOK
    <3> QED
      BY <3>1, LockKinds DEF LockOrder, Holding, SaleOf
  <2>5. CASE /\ ~\E a \in Answers : Answer(q, a)
             /\ \/ DeleteGiftRow(q) \/ DeleteHistories(q)
                \/ DeleteAllocations(q) \/ LockSale(q)
    BY <2>5, AcquireOrder
       DEF DeleteGiftRow, DeleteHistories, DeleteAllocations, LockSale,
           Statement, Locked, Goto, TypeOK
  <2>6. CASE /\ ~\E a \in Answers : Answer(q, a)
             /\ WriteChildren(q) \/ WriteGift(q)
    BY <2>6, AcquireOrder
       DEF WriteChildren, WriteGift, Statement, Locked, Goto, TypeOK
  <2> QED
    BY <1>3, <2>1, <2>2, <2>3, <2>4, <2>5, <2>6
       DEF OwnStep, Step, Crash, DeadlockVictim
<1> QED
  BY <1>1, <1>2, <1>3, NextSplit

(* An update that waits for another waits for its sale row; but that one   *)
(* waits as well, so it has no sale row yet.                               *)
LEMMA UpdatesWaitForSales ==
    ASSUME IInv, NEW r \in Requests, NEW q \in Requests, Waits(r, q),
           LockOrder(r), LockOrder(q),
           req[r] # None /\ req[r].op = "update",
           req[q] # None /\ req[q].op = "update",
           \E p \in Requests : Waits(q, p)
    PROVE  pc[r] = "lockSale" /\ Holding(q)
<1> DEFINE s == SaleOf(r)
<1>1. PICK x \in Needs(r) : q # r /\ lock[x] = q
  BY DEF Waits
<1>2. pc[q] # "commit"
  BY DEF Waits, Needs
<1>3. pc[r] \in {"lockSale", "row", "children", "gift"}
  BY <1>1 DEF IInv, TypeInv, RequestInv, Needs
<1>4. s \in Sales /\ req[r] \in Payload
  BY <1>3, RunningSale DEF Running
<1>5. CASE pc[r] = "lockSale"
  BY <1>1, <1>4, <1>5 DEF Needs, LockOrder
<1>6. CASE pc[r] = "row"
  BY <1>1, <1>2, <1>4, <1>6 DEF Needs, IInv, LockInv
<1>7. CASE pc[r] = "children"
  <2>1. lock[<<"sale_pass_allocations", s>>] = q
    BY <1>1, <1>7 DEF Needs
  <2>2. pc[q] = "gift" /\ SaleOf(q) = s
    BY <1>2, <1>4, <2>1 DEF LockOrder
  <2>3. lock[<<"sales", s>>] = q /\ lock[<<"sales", s>>] = r
    BY <1>7, <2>2 DEF IInv, LockInv, Holding
  <2> QED
    BY <1>1, <2>3
<1>8. CASE pc[r] = "gift"
  <2>1. \/ x = <<"gifts", s>>
        \/ \E n \in Recipients : x = <<"recipients", n>>
    BY <1>1, <1>4, <1>8 DEF Needs, GiftNeeds, Payload
  <2> QED
    BY <1>1, <1>2, <1>4, <2>1 DEF IInv, LockInv, LockOrder
<1> QED
  BY <1>3, <1>5, <1>6, <1>7, <1>8

LEMMA OrderPreventsCycles ==
    ASSUME IInv, \A r \in Requests : LockOrder(r)
    PROVE  UpdatesNeverDeadlock
<1> DEFINE Updates == {r \in Requests : req[r] # None /\ req[r].op = "update"}
<1> SUFFICES ASSUME NEW S \in SUBSET Updates, WaitCycle(S) PROVE FALSE
  BY DEF UpdatesNeverDeadlock
<1>1. PICK r \in S : TRUE
  BY DEF WaitCycle
<1>2. PICK q \in S : Waits(r, q)
  BY DEF WaitCycle
<1>3. PICK p \in S : Waits(q, p)
  BY DEF WaitCycle
<1>4. PICK o \in S : Waits(p, o)
  BY DEF WaitCycle
<1>5. Holding(q)
  BY <1>2, <1>3, UpdatesWaitForSales
<1>6. pc[q] = "lockSale"
  BY <1>3, <1>4, UpdatesWaitForSales
<1> QED
  BY <1>5, <1>6 DEF Holding

(* Updates and gifts take the sale row first, so that no set of them ever  *)
(* waits for each other in a circle; a deadlock needs an un-gift or a      *)
(* delete.                                                                 *)
THEOREM UpdatesAloneNeverDeadlock == Spec => []UpdatesNeverDeadlock
<1> DEFINE Ordered == \A r \in Requests : LockOrder(r)
<1>1. Init => Ordered
  <2> SUFFICES ASSUME Init, NEW r \in Requests PROVE LockOrder(r)
    OBVIOUS
  <2>1. \A x \in Resources : lock[x] # r
    BY ConstantsAssumption DEF Init
  <2> QED
    BY <2>1, LockKinds DEF LockOrder
<1>2. IInv /\ Ordered /\ [Next]_vars => Ordered'
  BY LockOrderStep
<1>3. IInv /\ Ordered => UpdatesNeverDeadlock
  BY OrderPreventsCycles
<1> HIDE DEF Ordered
<1> QED
  BY <1>1, <1>2, <1>3, Inductive, PTL DEF Spec

-----------------------------------------------------------------------------
(* What is not found.                                                      *)

(* A row never goes back to "not yet there", and a deleted one stays so.   *)
LEMMA RowsDoNotReturn ==
    ASSUME IInv, [Next]_vars, NEW s \in Sales
    PROVE  /\ sale[s].status # "UNUSED" => sale'[s].status # "UNUSED"
           /\ Gone(s) => Gone(s)'
<1>1. CASE sale'[s] = sale[s]
  BY <1>1 DEF Gone
<1>2. ASSUME NEW r \in Requests, Commit(r), SaleOf(r) = s, Holding(r),
             sale'[s] = view[r].row
      PROVE  sale'[s].status # "UNUSED" /\ ~Gone(s)
  <2>1. pc[r] = "commit" /\ Live(sale[s])
    BY <1>2 DEF Commit, IInv, LockInv
  <2>2. Live(view[r].row) \/ view[r].row = EmptyRow("DELETED")
    BY <2>1 DEF IInv, ViewInv
  <2> QED
    BY <1>2, <2>1, <2>2 DEF Live, SaleStatus, EmptyRow, Gone
<1>3. ASSUME NEW a \in Allocations, AddSale(s, a), sale'[s].status = "PENDING"
      PROVE  sale'[s].status # "UNUSED" /\ ~Gone(s)
  BY <1>3 DEF AddSale, Gone
<1>4. CASE s \in Due /\ sale'[s] = CancelledRow(sale[s])
  BY <1>4 DEF CancelledRow, Due, Gone, IInv, TypeInv, TypeOK, Row
<1> QED
  BY <1>1, <1>2, <1>3, <1>4, SaleMoves

(* A request knows its sale from the moment it arrives.                    *)
LEMMA SaleIsKnown ==
    ASSUME IInv, [Next]_vars, NEW q \in Requests, Running(q)',
           Running(q) => sale[SaleOf(q)].status # "UNUSED"
    PROVE  sale'[SaleOf(q)'].status # "UNUSED"
<1> USE DEF IInv, TypeInv
<1>1. ASSUME Running(q), req'[q] = req[q] PROVE sale'[SaleOf(q)'].status # "UNUSED"
  BY <1>1, RunningSale, RowsDoNotReturn DEF SaleOf
<1>2. CASE WorldStep \/ \E r \in Requests \ {q} : OwnStep(r)
  <2>1. pc'[q] = pc[q] /\ req'[q] = req[q]
    BY <1>2, WorldFrame, OwnFrame
  <2> QED
    BY <2>1, <1>1 DEF Running
<1>3. CASE \E p \in Payloads : Start(q, p)
  <2>1. PICK p \in Payloads : Start(q, p)
    BY <1>3
  <2>2. SaleOf(q)' = p.sale /\ sale' = sale /\ sale[p.sale].status # "UNUSED"
    BY <2>1 DEF Start, SaleOf, db, TypeOK
  <2> QED
    BY <2>2
<1>4. CASE OwnStep(q) /\ ~\E p \in Payloads : Start(q, p)
  <2>1. ~\E a \in Answers : Answer(q, a)
    BY DEF Answer, Goto, TypeOK, Running
  <2>2. ~Invalidate(q)
    BY DEF Invalidate, Goto, TypeOK, Running
  <2>3. Running(q) /\ req' = req
    BY <1>4, <2>1, <2>2
       DEF OwnStep, Step, Crash, DeadlockVictim, ReadCached, FillCache, Check,
           ReadDb, DeleteGiftRow, DeleteHistories, DeleteAllocations, LockSale,
           WriteRow, DeleteRow, WriteChildren, WriteGift, Commit, Statement,
           Locked, Running
  <2> QED
    BY <2>3, <1>1
<1> QED
  BY <1>2, <1>3, <1>4, NextSplit

LEMMA CacheMoves ==
    ASSUME IInv, [Next]_vars, NEW s \in Sales
    PROVE  \/ cache'[s] \in {cache[s], None}
           \/ \E r \in Requests : /\ pc[r] = "fill" /\ SaleOf(r) = s
                                  /\ cache'[s] = snap[r]
<1> USE DEF IInv, TypeInv, TypeOK
<1>1. CASE WorldStep
  BY <1>1 DEF WorldStep, AddSale, Kickoff, Expire, Cron, CronRead, CronUpdate,
              CronInvalidate, FlushSales, vars
<1>2. CASE \E r \in Requests : FillCache(r)
  BY <1>2 DEF FillCache
<1>3. CASE \E r \in Requests : OwnStep(r) /\ ~FillCache(r)
  <2>1. PICK r \in Requests : OwnStep(r) /\ ~FillCache(r)
    BY <1>3
  <2>2. CASE \E a \in Answers : Answer(r, a)
    BY <2>2 DEF Answer
  <2>3. CASE ~\E a \in Answers : Answer(r, a)
    BY <2>1, <2>3
       DEF OwnStep, Step, Crash, DeadlockVictim, Start, ReadCached, Check,
           ReadDb, DeleteGiftRow, DeleteHistories, DeleteAllocations, LockSale,
           WriteRow, DeleteRow, WriteChildren, WriteGift, Commit, Invalidate,
           Locked
  <2> QED
    BY <2>2, <2>3
<1> QED
  BY <1>1, <1>2, <1>3, NextSplit

LEMMA SnapMoves ==
    ASSUME IInv, [Next]_vars, NEW q \in Requests, pc'[q] \in {"fill", "check"}
    PROVE  /\ Running(q) /\ SaleOf(q)' = SaleOf(q)
           /\ \/ pc[q] \in {"fill", "check"} /\ snap'[q] = snap[q]
              \/ cache[SaleOf(q)] # None /\ snap'[q] = cache[SaleOf(q)]
              \/ snap'[q] = Stored(SaleOf(q))
<1> USE DEF IInv, TypeInv
<1>1. CASE WorldStep \/ \E r \in Requests \ {q} : OwnStep(r)
  <2>1. pc'[q] = pc[q] /\ req'[q] = req[q] /\ snap'[q] = snap[q]
    BY <1>1, WorldFrame, OwnFrame
  <2> QED
    BY <2>1 DEF Running, SaleOf
<1>2. CASE OwnStep(q)
  <2>0. ~\E a \in Answers : Answer(q, a)
    BY DEF Answer, Goto, TypeOK
  <2>1. CASE ReadCached(q) \/ FillCache(q)
    BY <2>1 DEF ReadCached, FillCache, Running, SaleOf, TypeOK
  <2>2. ~(Check(q) \/ ReadDb(q) \/ \E p \in Payloads : Start(q, p))
    BY <2>0 DEF Check, ReadDb, Start, Goto, TypeOK
  <2>3. ~(DeleteGiftRow(q) \/ DeleteHistories(q) \/ DeleteAllocations(q))
    BY DEF DeleteGiftRow, DeleteHistories, DeleteAllocations, Locked, Goto,
           TypeOK
  <2>4. ~(LockSale(q) \/ WriteRow(q) \/ DeleteRow(q))
    BY <2>0 DEF LockSale, WriteRow, DeleteRow, Locked, Goto, TypeOK
  <2>5. ~(WriteChildren(q) \/ WriteGift(q) \/ Commit(q) \/ Invalidate(q))
    BY <2>0 DEF WriteChildren, WriteGift, Commit, Invalidate, Locked, Goto, TypeOK
  <2> QED
    BY <1>2, <2>0, <2>1, <2>2, <2>3, <2>4, <2>5
       DEF OwnStep, Step, Crash, DeadlockVictim
<1> QED
  BY <1>1, <1>2, NextSplit

LEMMA SeenStep == IInv /\ SeenInv /\ [Next]_vars => SeenInv'
<1> SUFFICES ASSUME IInv, SeenInv, [Next]_vars PROVE SeenInv'
  OBVIOUS
<1>1. ASSUME NEW q \in Requests, Running(q)'
      PROVE  sale'[SaleOf(q)'].status # "UNUSED"
  BY <1>1, SaleIsKnown DEF SeenInv
<1>2. ASSUME NEW q \in Requests, pc'[q] \in {"fill", "check"}
      PROVE  Live(snap'[q].row) \/ Gone(SaleOf(q))'
  <2> DEFINE s == SaleOf(q)
  <2>1. Running(q) /\ s \in Sales /\ SaleOf(q)' = s
    BY <1>2, SnapMoves, RunningSale
  <2>2. Gone(s) => Gone(SaleOf(q))'
    BY <2>1, RowsDoNotReturn DEF Gone, SaleOf
  <2>3. Live(sale[s]) \/ Gone(s)
    BY <2>1 DEF SeenInv, Gone, Live, IInv, TypeInv, TypeOK, Row, RowStatus
  <2>4. CASE pc[q] \in {"fill", "check"} /\ snap'[q] = snap[q]
    BY <2>2, <2>4 DEF SeenInv
  <2>5. CASE cache[s] # None /\ snap'[q] = cache[s]
    BY <2>1, <2>2, <2>5 DEF SeenInv
  <2>6. CASE snap'[q] = Stored(s)
    BY <2>2, <2>3, <2>6 DEF Stored
  <2> QED
    BY <1>2, <2>4, <2>5, <2>6, SnapMoves
<1>3. ASSUME NEW s \in Sales, cache'[s] # None
      PROVE  Live(cache'[s].row) \/ Gone(s)'
  <2>1. Gone(s) => Gone(s)'
    BY RowsDoNotReturn
  <2>2. CASE cache'[s] = cache[s]
    BY <1>3, <2>1, <2>2 DEF SeenInv
  <2>3. CASE \E r \in Requests : /\ pc[r] = "fill" /\ SaleOf(r) = s
                                 /\ cache'[s] = snap[r]
    BY <2>1, <2>3 DEF SeenInv
  <2> QED
    BY <1>3, <2>2, <2>3, CacheMoves
<1> QED
  BY <1>1, <1>2, <1>3 DEF SeenInv, Running, SaleOf, Gone, Live

(* A request that is answered "not found".                                 *)
LEMMA NotFoundHasCause ==
    ASSUME IInv, SeenInv, [Next]_vars, NEW r \in Requests,
           pc'[r] = "notFound", pc[r] # "notFound"
    PROVE  \/ ~Live(sale[SaleOf(r)])
           \/ Kind(r) = "updateGift" /\ gift[SaleOf(r)] = None
<1> USE DEF IInv, TypeInv
<1>1. OwnStep(r)
  BY WorldFrame, OwnFrame, NextSplit
<1>2. ~(\/ \E p \in Payloads : Start(r, p)
        \/ ReadCached(r) \/ FillCache(r) \/ WriteRow(r) \/ DeleteRow(r)
        \/ WriteChildren(r) \/ Commit(r) \/ Invalidate(r)
        \/ Crash(r) \/ DeadlockVictim(r))
  BY DEF Start, ReadCached, FillCache, WriteRow, DeleteRow, WriteChildren,
         Commit, Invalidate, Crash, DeadlockVictim, Answer, Locked, Goto, TypeOK
<1>3. ~(DeleteGiftRow(r) \/ DeleteHistories(r) \/ DeleteAllocations(r))
  BY DEF DeleteGiftRow, DeleteHistories, DeleteAllocations, Locked, Goto, TypeOK
<1>4. CASE Check(r)
  <2>1. pc[r] = "check" /\ ~Live(snap[r].row)
    BY <1>4 DEF Check, Answer, Goto, TypeOK
  <2> QED
    BY <2>1 DEF SeenInv, Gone, Live, SaleStatus
<1>5. CASE ReadDb(r)
  BY <1>5 DEF ReadDb, Answer, Goto, TypeOK
<1>6. CASE LockSale(r)
  BY <1>6 DEF LockSale, Answer, Locked, Goto, TypeOK
<1>7. CASE WriteGift(r)
  <2>0. ~Locked(r, "commit") /\ ~Answer(r, "failed")
    BY DEF Answer, Locked, Goto, TypeOK
  <2>1. pc[r] = "gift" /\ Kind(r) = "updateGift" /\ view[r].gift = None
    <3>1. Statement(r, "gift") /\ GiftMissing(r)
      BY <1>7, <2>0, Zenon DEF WriteGift
    <3> QED
      BY <3>1 DEF Statement, GiftMissing
  <2>2. req[r].op = "update"
    BY <2>1, RunningSale DEF Running, Payload, Kind, Intent
  <2> QED
    BY <2>1, <2>2 DEF ViewInv
<1> QED
  BY <1>1, <1>2, <1>3, <1>4, <1>5, <1>6, <1>7 DEF OwnStep, Step

(* "Not found" is the truth when it is said: a cached or a direct read of  *)
(* a sale that is gone, or the re-gift of a gift taken back meanwhile.     *)
THEOREM NotFoundIsTrue == Spec => NotFoundIsHonest
<1>1. Init => SeenInv
  BY DEF Init, SeenInv, Running
<1>2. IInv /\ SeenInv /\ [Next]_vars =>
        [\A r \in Requests :
           pc'[r] = "notFound" /\ pc[r] # "notFound" =>
             \/ ~Live(sale[SaleOf(r)])
             \/ Kind(r) = "updateGift" /\ gift[SaleOf(r)] = None]_vars
  BY NotFoundHasCause
<1> QED
  BY <1>1, <1>2, SeenStep, Inductive, PTL DEF Spec, NotFoundIsHonest
=============================================================================
