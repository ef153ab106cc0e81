------------------------------ MODULE HourQuota -----------------------------
(***************************************************************************)
(* What /ask promises a user about one hour, once Redis, its scripts, keys *)
(* and TTLs are forgotten: the limiter is a counter that starts every hour *)
(* at zero.  AskRateLimit implements this specification, with a counter    *)
(* per hour, slots that are given back after their hour and keys that      *)
(* expire.                                                                 *)
(***************************************************************************)
EXTENDS Naturals

CONSTANT Limit

VARIABLES
    hour,
    used,     \* what the limiter counts in this hour
    served,   \* questions of this hour that were let through and keep a slot
    refused   \* questions of this hour that were refused

quota == <<hour, used, served, refused>>

QuotaInit == hour = 0 /\ used = 0 /\ served = 0 /\ refused = 0

Serve ==
    /\ used < Limit
    /\ used' = used + 1 /\ served' = served + 1
    /\ UNCHANGED <<hour, refused>>

(* A refusal uses up the quota, too, but there is none below the limit.    *)
Refuse ==
    /\ used >= Limit
    /\ used' = used + 1 /\ refused' = refused + 1
    /\ UNCHANGED <<hour, served>>

(* Counted, and the answer of Redis is lost.                               *)
Lose ==
    /\ used' = used + 1
    /\ UNCHANGED <<hour, served, refused>>

(* The slot of a question the model has failed.                            *)
GiveBack ==
    /\ served > 0
    /\ used' = used - 1 /\ served' = served - 1
    /\ UNCHANGED <<hour, refused>>

NextHour ==
    /\ hour' = hour + 1
    /\ used' = 0 /\ served' = 0 /\ refused' = 0

QuotaNext == Serve \/ Refuse \/ Lose \/ GiveBack \/ NextHour

QuotaSpec == QuotaInit /\ [][QuotaNext]_quota
=============================================================================
