------------------------------- MODULE MCSale -------------------------------
(* Instances of the sale lifecycle for TLC.                                *)
EXTENDS SaleProperties, TLC

CONSTANTS r1, r2, r3, s1, s2, ann, bob, p1, p2

Edit(s, target, recipient, allocs) ==
    [op |-> "update", sale |-> s, target |-> target, recipient |-> recipient,
     byId |-> FALSE, allocs |-> allocs]
Ungift(s) == [Edit(s, "NONE", None, NoAllocs) EXCEPT !.op = "ungift"]
Delete(s) == [Edit(s, "NONE", None, NoAllocs) EXCEPT !.op = "delete"]
ById(p)   == [p EXCEPT !.byId = TRUE]
OneEach   == [p \in Passes |-> 1]

(* Every kind of request on one sale.                                      *)
AllPayloads ==
    {Edit(s1, t, n, a) : t \in Targets \union {"NONE"},
        n \in {ann, None}, a \in {NoAllocs, OneEach}}
    \union {ById(Edit(s1, "GIFTED", ann, NoAllocs)), Ungift(s1), Delete(s1)}

(* Gifts and re-gifts of two sales between two names.                      *)
GiftPayloads ==
    {Edit(s, "GIFTED", n, NoAllocs) : s \in {s1, s2}, n \in {ann, bob}}
    \union {Edit(s1, "GIFTED", None, NoAllocs),
            Edit(s1, "SOLD", None, NoAllocs), Edit(s1, "NONE", None, OneEach),
            Ungift(s1), Ungift(s2), Delete(s1)}

(* Selling, and back to the list after the cron.                           *)
ListPayloads ==
    {Edit(s1, t, None, NoAllocs) : t \in {"PENDING", "SOLD"}}
    \union {Edit(s1, "GIFTED", ann, NoAllocs), Ungift(s1), Delete(s1)}

Symmetry == Permutations(Requests)
=============================================================================
