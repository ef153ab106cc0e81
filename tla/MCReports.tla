----------------------------- MODULE MCReports -----------------------------
EXTENDS Reports

(* The season's report, with two buckets that have extremes and one that   *)
(* has none; a sale moves between them.                                    *)
MCWanted == [season |-> {"unrealized", "pending", "leadTime"}]
=============================================================================
