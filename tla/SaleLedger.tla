----------------------------- MODULE SaleLedger -----------------------------
(***************************************************************************)
(* What the database promises about a user's sales once requests, the cron *)
(* and row locks are forgotten: every committed change of a sale is one of *)
(* the moves below.  SaleLifecycle implements this specification.          *)
(*                                                                         *)
(* The moves are those the code makes under every interleaving, which is   *)
(* weaker than the transition matrix of UpdateSaleUsecase: the matrix is   *)
(* tested on a snapshot, so Give may start from any status but GIFTED.     *)
(***************************************************************************)
EXTENDS Naturals

CONSTANTS
    Sales,
    Recipients,
    Counts,      \* the numbers of tickets a sale may be listed with
    None         \* no recipient

VARIABLES
    status,   \* status of each sale
    tickets,  \* tickets of each sale
    holder,   \* who each sale was gifted to, or None
    known,    \* recipients the user has ever gifted to
    over      \* sales whose match has been played

ledger == <<status, tickets, holder, known, over>>

Open == {"PENDING", "SOLD", "CANCELLED"}

LedgerInit ==
    /\ status  = [s \in Sales |-> "UNUSED"]
    /\ tickets = [s \in Sales |-> 0]
    /\ holder  = [s \in Sales |-> None]
    /\ known   = {}
    /\ over    = {}

Create(s, n) ==
    /\ status[s] = "UNUSED" /\ n \in Counts
    /\ status'  = [status EXCEPT ![s] = "PENDING"]
    /\ tickets' = [tickets EXCEPT ![s] = n]
    /\ UNCHANGED <<holder, known, over>>

(* The count an edit leaves: the old one or a new one.                     *)
Recount(s, n) ==
    /\ n \in Counts \union {tickets[s]}
    /\ tickets' = [tickets EXCEPT ![s] = n]

(* The user lists or sells a sale that is not gifted, or edits it as it is.*)
Manage(s, target, n) ==
    /\ status[s] \in Open /\ target \in {"PENDING", "SOLD", status[s]}
    /\ status'  = [status EXCEPT ![s] = target]
    /\ Recount(s, n)
    /\ UNCHANGED <<holder, known, over>>

Give(s, who, n) ==
    /\ status[s] \in Open
    /\ status'  = [status EXCEPT ![s] = "GIFTED"]
    /\ Recount(s, n)
    /\ holder'  = [holder EXCEPT ![s] = who]
    /\ known'   = known \union {who}
    /\ UNCHANGED over

(* A gifted sale stays gifted, perhaps to someone else.                    *)
Regive(s, who, n) ==
    /\ status[s] = "GIFTED"
    /\ Recount(s, n)
    /\ holder'  = [holder EXCEPT ![s] = who]
    /\ known'   = known \union {who}
    /\ UNCHANGED <<status, over>>

Ungift(s) ==
    /\ status[s] = "GIFTED"
    /\ status' = [status EXCEPT ![s] = "PENDING"]
    /\ holder' = [holder EXCEPT ![s] = None]
    /\ UNCHANGED <<tickets, known, over>>

Remove(s) ==
    /\ status[s] \in Open \union {"GIFTED"}
    /\ status'  = [status EXCEPT ![s] = "DELETED"]
    /\ tickets' = [tickets EXCEPT ![s] = 0]
    /\ holder'  = [holder EXCEPT ![s] = None]
    /\ UNCHANGED <<known, over>>

(* Every sale still listed when its match has been played is cancelled.    *)
CancelPlayed ==
    /\ status' = [s \in Sales |->
                    IF s \in over /\ status[s] = "PENDING" THEN "CANCELLED"
                    ELSE status[s]]
    /\ UNCHANGED <<tickets, holder, known, over>>

Play(s) ==
    /\ over' = over \union {s}
    /\ UNCHANGED <<status, tickets, holder, known>>

LedgerNext ==
    \/ \E s \in Sales : \E n \in Counts \union {tickets[s]} :
         \/ Create(s, n)
         \/ \E target \in Open : Manage(s, target, n)
         \/ \E who \in Recipients : Give(s, who, n) \/ Regive(s, who, n)
    \/ \E s \in Sales : Ungift(s) \/ Remove(s) \/ Play(s)
    \/ CancelPlayed

LedgerSpec == LedgerInit /\ [][LedgerNext]_ledger
=============================================================================
