------------------------------ MODULE MCCache -------------------------------
(* Instances of the cache for TLC.                                         *)
EXTENDS RedisCache

CONSTANTS r1, r2, w1, w2
=============================================================================
