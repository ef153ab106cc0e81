------------------------------- MODULE MCAsk --------------------------------
(* Instances of the quota for TLC.                                         *)
EXTENDS AskRateLimit

CONSTANTS q1, q2, q3
=============================================================================
