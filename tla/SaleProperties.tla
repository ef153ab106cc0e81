--------------------------- MODULE SaleProperties ---------------------------
(***************************************************************************)
(* What SaleLifecycle guarantees, the inductive invariant that shows it,   *)
(* and a statement of the repository that does not hold.                   *)
(***************************************************************************)
EXTENDS SaleLifecycle

(* A committed sale is GIFTED exactly when it has a gift row.  The foreign *)
(* key gives one direction; the other is left to giftSale, un-gift and     *)
(* delete (prisma/schema.prisma, model Gifts), whatever their snapshots.   *)
GiftIffGifted ==
    \A s \in Sales : sale[s].status = "GIFTED" <=> gift[s] # None

(* nbTickets, written with the sale row, is the total of the allocations,  *)
(* replaced later in the transaction, whichever of two updates wins.       *)
TicketsMatchAllocations ==
    \A s \in Sales : Live(sale[s]) =>
        sale[s].nbTickets = sumTickets(alloc[s])

(* A deleted sale leaves no history, allocation or gift row behind, though *)
(* an update may commit between the statements of the delete.              *)
DeletedLeavesNothing ==
    \A s \in Sales : sale[s].status = "DELETED" =>
        hist[s] = << >> /\ alloc[s] = NoAllocs /\ gift[s] = None

(* A sale the cron cancelled carries its cancellation date and no sale     *)
(* date, also when a stale update commits around the cron's write.         *)
CancelledIsStamped ==
    \A s \in Sales : sale[s].status = "CANCELLED" =>
        sale[s].cancelledAt /\ ~sale[s].soldAt

(* Updates and gifts alone never deadlock: they take the sale row first.   *)
(* Every wait cycle has a delete or an un-gift, which take child rows      *)
(* before the sale row.                                                    *)
UpdatesNeverDeadlock ==
    \A S \in SUBSET {r \in Requests : req[r] # None /\ req[r].op = "update"} :
        ~WaitCycle(S)

(* GIFTED is terminal for the API: only a commit of un-gift or delete      *)
(* moves a sale out of it, however stale the snapshot of an update is.     *)
GiftedLeftOnlyByUngift ==
    [][\A s \in Sales :
         sale[s].status = "GIFTED" /\ sale'[s].status # "GIFTED" =>
           \E r \in Requests : /\ pc[r] = "commit" /\ SaleOf(r) = s
                               /\ req[r].op \in {"ungift", "delete"}]_vars

(* SALE_NOT_FOUND is honest: the sale is gone, or it is an update of a     *)
(* gift that an un-gift has removed since the snapshot (PSG-38 design,     *)
(* item 3).  An unknown recipient is a 404 with a code of its own.         *)
NotFoundIsHonest ==
    [][\A r \in Requests :
         pc'[r] = "notFound" /\ pc[r] # "notFound" =>
           \/ ~Live(sale[SaleOf(r)])
           \/ Kind(r) = "updateGift" /\ gift[SaleOf(r)] = None]_vars

(* Every request that arrives is answered: waits for row locks end, by the *)
(* holder's commit or by Postgres' choice of a deadlock victim.            *)
EveryRequestEnds ==
    \A r \in Requests : pc[r] = "read" ~> pc[r] \in Answers

(* A sale still listed when its match has been played does not stay so.    *)
PlayedSalesLeavePending ==
    \A s \in Sales : s \in played /\ sale[s].status = "PENDING"
                       ~> sale[s].status # "PENDING"

(* The committed rows move only as SaleLedger says.                        *)
Ledger == INSTANCE SaleLedger WITH
    status  <- [s \in Sales |-> sale[s].status],
    tickets <- [s \in Sales |-> sale[s].nbTickets],
    holder  <- gift,
    known   <- recips,
    over    <- played

(* Every step of the detailed specification is a move of the ledger, or    *)
(* changes no committed row.                                               *)
ImplementsLedger == Ledger!LedgerSpec

-----------------------------------------------------------------------------
(* The inductive invariants behind the safety properties: what a request   *)
(* may rely on between the statement that locks the sale row and COMMIT.   *)
(* StampInv, LockOrder, SeenInv and MoveInv are inductive given IInv.      *)

Running(r) == pc[r] \notin {"idle"} \union Answers
Holding(r) == pc[r] \in {"row", "children", "gift", "commit"}

(* A running request has a payload, and one that writes has passed the     *)
(* checks on its snapshot.                                                 *)
RequestInv(r) ==
    /\ Running(r) => req[r] \in Payloads
    /\ pc[r] \in TxSteps => Live(snap[r].row)
    /\ pc[r] \in {"fill", "check"} => req[r].op = "update"
    /\ pc[r] \in {"delHist", "delAlloc"} => req[r].op = "delete"
    /\ pc[r] = "delGift" => req[r].op # "update"
    /\ pc[r] \in {"children", "gift"} => req[r].op # "delete"
    /\ pc[r] = "gift" => Kind(r) \in {"enterGift", "updateGift"}
    /\ pc[r] \in TxSteps /\ Kind(r) = "enterGift" => req[r].recipient # None

(* The holder of a sale's row lock is the only one to commit to that sale; *)
(* an update reaches the gift row only after the sale row.                 *)
LockInv(r) ==
    /\ Holding(r) =>
         lock[<<"sales", SaleOf(r)>>] = r /\ Live(sale[SaleOf(r)])
    /\ \A s \in Sales : lock[<<"gifts", s>>] = r =>
         pc[r] \in TxSteps /\ (req[r].op = "update" => pc[r] = "commit")

(* What the view of a holder says of the committed rows it started from.   *)
ViewInv(r) == LET s == SaleOf(r)  v == view[r] IN
    /\ pc[r] = "row" =>
         /\ v.row = sale[s] /\ v.alloc = alloc[s]
         /\ v.gift \in {gift[s], None}
         /\ req[r].op = "update" => v.gift = gift[s]
    /\ pc[r] \in {"children", "gift"} =>
         /\ Live(v.row)
         /\ req[r].op = "update" => v.gift = gift[s]
         /\ IF Kind(r) = "enterGift" THEN v.row.status = "GIFTED"
            ELSE v.row.status = "GIFTED" <=> v.gift # None
    /\ pc[r] = "children" =>
         v.row.nbTickets = sumTickets(IF req[r].allocs = NoAllocs
                                      THEN v.alloc ELSE req[r].allocs)
    /\ pc[r] = "gift" => v.row.nbTickets = sumTickets(v.alloc)
    /\ pc[r] = "commit" =>
         /\ v.row.status = "GIFTED" <=> v.gift # None
         /\ Live(v.row) => v.row.nbTickets = sumTickets(v.alloc)
         /\ ~Live(v.row) => /\ req[r].op = "delete"
                            /\ v.row = EmptyRow("DELETED")
                            /\ v.gift = None /\ v.alloc = NoAllocs
                            /\ v.hist = << >>
         /\ req[r].op = "update" /\ gift[s] # None => v.gift # None

TypeInv == TypeOK /\ \A r \in Requests : RequestInv(r)

IInv ==
    /\ TypeInv
    /\ \A r \in Requests : LockInv(r) /\ ViewInv(r)
    /\ GiftIffGifted /\ TicketsMatchAllocations /\ DeletedLeavesNothing

(* A cancelled row is stamped, the row a holder will commit included.      *)
Stamped(row) == row.status = "CANCELLED" => row.cancelledAt /\ ~row.soldAt
StampInv ==
    /\ \A s \in Sales : Stamped(sale[s])
    /\ \A r \in Requests : Holding(r) => Stamped(view[r].row)

(* The order in which row locks are taken: what a holder has reached.      *)
LockOrder(r) ==
    /\ \A x \in Resources : lock[x] = r => pc[r] \in TxSteps
    /\ \A s \in Sales : lock[<<"sales", s>>] = r =>
         Holding(r) /\ SaleOf(r) = s
    /\ \A n \in Recipients : lock[<<"recipients", n>>] = r =>
         pc[r] = "commit"
    /\ \A s \in Sales :
         lock[<<"sale_pass_allocations", s>>] = r /\ req[r].op = "update" =>
           pc[r] \in {"gift", "commit"} /\ SaleOf(r) = s

(* A copy of a row that is gone is a copy of a deleted row, for good: ids  *)
(* are known only once their sale is there.                                *)
Gone(s) == sale[s].status = "DELETED"
SeenInv ==
    /\ \A r \in Requests : Running(r) =>
         sale[SaleOf(r)].status # "UNUSED"
    /\ \A r \in Requests : pc[r] \in {"fill", "check"} =>
         Live(snap[r].row) \/ Gone(SaleOf(r))
    /\ \A s \in Sales : cache[s] # None => Live(cache[s].row) \/ Gone(s)

(* What the row a holder will commit may differ in from the committed one. *)
MoveInv(r) == LET s == SaleOf(r)  v == view[r] IN
    pc[r] \in {"children", "gift", "commit"} =>
      IF req[r].op = "delete" THEN v.row = EmptyRow("DELETED")
      ELSE /\ v.row.status \in {"PENDING", "SOLD", "GIFTED", sale[s].status}
           /\ v.row.nbTickets \in Counts \union {sale[s].nbTickets}
           /\ req[r].op = "ungift" => /\ v.row.status = "PENDING"
                                     /\ v.row.nbTickets = sale[s].nbTickets

-----------------------------------------------------------------------------
(* A statement of the repository that the code does not keep.              *)

(* update-sale.usecase.ts:257: "GIFTED is reachable only from PENDING".    *)
(* The matrix is tested on the snapshot, the write on whatever is there.   *)
GiftedOnlyFromPending ==
    [][\A s \in Sales :
         sale'[s].status = "GIFTED" /\ sale[s].status # "GIFTED" =>
           sale[s].status = "PENDING"]_vars
=============================================================================
