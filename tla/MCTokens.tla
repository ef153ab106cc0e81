------------------------------ MODULE MCTokens ------------------------------
(* An instance of RefreshTokens for TLC.                                   *)
EXTENDS RefreshTokens, TLC

MCSymmetry == Permutations(Requests) \union Permutations(Families)
=============================================================================
