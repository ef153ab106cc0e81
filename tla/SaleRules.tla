----------------------------- MODULE SaleRules -----------------------------
(***************************************************************************)
(* The rules of UpdateSaleUsecase on the status of a sale                  *)
(* (src/src/api/sales/usecases/update-sale).  They are tested on the sale  *)
(* the usecase has read, which need not be the sale it then writes.        *)
(***************************************************************************)

LEGAL_TRANSITIONS ==
    [PENDING   |-> {"PENDING", "SOLD", "GIFTED"},
     SOLD      |-> {"PENDING", "SOLD"},
     CANCELLED |-> {"PENDING", "SOLD"},
     GIFTED    |-> {"GIFTED"}]

isKickoffGuarded(current, target) ==
    target = "SOLD" \/ (target = "GIFTED" /\ current # "GIFTED")
=============================================================================
