----------------------------- MODULE CacheAside -----------------------------
(***************************************************************************)
(* What RedisService.get promises about one key, once commands, locks and  *)
(* polls are forgotten.  A reader gets what is kept, or the row as it is   *)
(* at one moment after it has asked; only a row that was read is kept, by  *)
(* the reader who read it, once, and perhaps late; what is kept may go at  *)
(* any moment.  That loads are few is no part of it, nor is freshness.     *)
(*                                                                         *)
(* RedisCache implements this specification, command by command, and so do *)
(* the lookups of Accounts and Reports, which take a get in fewer steps.   *)
(***************************************************************************)
CONSTANTS
    Readers,
    None      \* nothing kept, nothing got

VARIABLES
    row,      \* the row, moved by its writers: an input
    kept,     \* the value under the key, or None
    at,       \* "away", "asked", "loaded", "closing" or "ended" of each
    value     \* what a reader has got, None if it has failed

aside == <<kept, at, value>>

AsideInit ==
    /\ kept  = None
    /\ at    = [r \in Readers |-> "away"]
    /\ value = [r \in Readers |-> None]

(* Reader r goes on to step s with v in hand.                              *)
Gets(r, s, v) ==
    /\ at'    = [at EXCEPT ![r] = s]
    /\ value' = [value EXCEPT ![r] = v]

Ask(r) ==
    /\ at[r] \in {"away", "ended"}
    /\ Gets(r, "asked", None)
    /\ UNCHANGED kept

Hit(r) ==
    /\ at[r] = "asked" /\ kept # None
    /\ Gets(r, "ended", kept)
    /\ UNCHANGED kept

(* The loader, also of a reader that will not fill the key, or that missed *)
(* the key before another filled it.                                       *)
Load(r) ==
    /\ at[r] = "asked"
    /\ Gets(r, "loaded", row) \/ Gets(r, "ended", row)
    /\ UNCHANGED kept

(* Redis may throw at who keeps the row, whether it is kept or not.        *)
Keep(r) ==
    /\ at[r] = "loaded"
    /\ \E s \in {"closing", "ended"} :
          Gets(r, s, value[r]) \/ Gets(r, s, None)
    /\ kept' = value[r] \/ UNCHANGED kept

(* The loader or Redis throws.                                             *)
Fail(r) ==
    /\ at[r] = "asked"
    /\ Gets(r, "closing", None) \/ Gets(r, "ended", None)
    /\ UNCHANGED kept

(* A reader that has locked others out lets them in, or throws at it.      *)
Close(r) ==
    /\ at[r] = "closing"
    /\ Gets(r, "ended", value[r]) \/ Gets(r, "ended", None)
    /\ UNCHANGED kept

Leave(r) == Gets(r, "away", None) /\ UNCHANGED kept

(* A flush, or the TTL.                                                    *)
Forget == kept' = None /\ UNCHANGED <<at, value>>

AsideNext ==
    \/ \E r \in Readers :
         \/ Ask(r) \/ Hit(r) \/ Load(r) \/ Keep(r) \/ Fail(r)
         \/ Close(r) \/ Leave(r)
    \/ Forget

AsideSpec == AsideInit /\ [][AsideNext]_aside
=============================================================================
