---------------------------- MODULE RefreshTokens ----------------------------
(***************************************************************************)
(* Refresh tokens.  A client of the API signs in and gets a token of a new *)
(* family; each token is presented once, deleted from Redis and replaced   *)
(* by another of its family.  A token that is not in Redis revokes the     *)
(* family, and so does a logout.                                           *)
(*                                                                         *)
(* A request is several commands to Redis, and requests interleave between *)
(* any two.  The model has no more than MaxTokens tokens.  An X_Y before   *)
(* an X is a mutation of X.                                                *)
(***************************************************************************)
EXTENDS Integers, FiniteSets

CONSTANTS
    Requests,   \* requests: sign-ins, refreshes, logouts
    Families,   \* families of tokens, one per sign-in
    MaxTokens,  \* bound: tokens, numbered in the order of issue
    None

Tokens == 1 .. MaxTokens

ASSUME TokensAssumption == MaxTokens \in Nat /\ None \notin Families

VARIABLES
    family,  \* the family of each token that was issued
    live,    \* tokens in Redis
    held,    \* tokens that clients know
    pc,      \* step of a request
    token,   \* the token it presented or will answer with, 0 for none
    fam,     \* its family
    met,     \* tokens its SCAN found
    rough    \* families whose client sent a request before it had the answer
             \* to the last one, lost an answer, presented a token that was
             \* not its newest, logged out, or let a token expire

store  == <<family, live>>
client == <<pc, token, fam, met>>
vars   == <<store, held, client, rough>>

Init ==
    /\ family = [t \in Tokens |-> None]
    /\ live   = {}
    /\ held   = {}
    /\ pc     = [r \in Requests |-> "idle"]
    /\ token  = [r \in Requests |-> 0]
    /\ fam    = [r \in Requests |-> None]
    /\ met    = [r \in Requests |-> {}]
    /\ rough  = {}

Issued  == {t \in Tokens : family[t] # None}
Of(f)   == {t \in Tokens : family[t] = f}
Busy(f) == \E r \in Requests : pc[r] # "idle" /\ fam[r] = f

(* The token its client got last.                                          *)
Newest(t) == \A u \in held \intersect Of(family[t]) : u <= t

Step(r, s) == pc' = [pc EXCEPT ![r] = s]

Rest(r) ==
    /\ Step(r, "idle")
    /\ token' = [token EXCEPT ![r] = 0]
    /\ fam'   = [fam EXCEPT ![r] = None]
    /\ met'   = [met EXCEPT ![r] = {}]

-----------------------------------------------------------------------------

(* login: a family of its own.                                             *)
Login(r, f) ==
    /\ pc[r] = "idle"
    /\ Of(f) = {} /\ ~Busy(f) /\ f \notin rough
    /\ Step(r, "issue")
    /\ fam' = [fam EXCEPT ![r] = f]
    /\ UNCHANGED <<store, held, token, met, rough>>

(* The token, which parses, is looked up.                                  *)
Present(r, t, s) ==
    /\ pc[r] = "idle" /\ t \in held
    /\ Step(r, s)
    /\ token' = [token EXCEPT ![r] = t]
    /\ fam'   = [fam EXCEPT ![r] = family[t]]
    /\ UNCHANGED <<store, held, met>>

(* refreshTokens: a token that is missing has been used before.            *)
Refresh(r, t) ==
    /\ Present(r, t, IF t \in live THEN "delete" ELSE "scan")
    /\ rough' = rough \union
                  (IF Busy(family[t]) \/ ~Newest(t) THEN {family[t]} ELSE {})

(* A DEL, which does not say whether there was anything.                   *)
Delete_Kept(r) ==
    /\ pc[r] = "delete"
    /\ Step(r, "find")
    /\ UNCHANGED <<store, held, token, fam, met, rough>>
Delete(r) ==
    /\ pc[r] = "delete"
    /\ live' = live \ {token[r]}
    /\ Step(r, "find")
    /\ UNCHANGED <<family, held, token, fam, met, rough>>

(* findById; nothing removes a user.                                       *)
FindUser(r) ==
    /\ pc[r] = "find"
    /\ Step(r, "issue")
    /\ UNCHANGED <<store, held, token, fam, met, rough>>

(* issueTokenPair                                                          *)
IssueTokenPair(r) ==
    /\ pc[r] = "issue"
    /\ \E t \in Tokens \ Issued :
         /\ \A u \in Tokens \ Issued : t <= u
         /\ family' = [family EXCEPT ![t] = fam[r]]
         /\ live'   = live \union {t}
         /\ token'  = [token EXCEPT ![r] = t]
    /\ Step(r, "answer")
    /\ UNCHANGED <<held, fam, met, rough>>

Answer(r) ==
    /\ pc[r] = "answer"
    /\ held' = held \union {token[r]}
    /\ Rest(r)
    /\ UNCHANGED <<store, rough>>

(* logout: of somebody else's token it is refused, of one that is missing  *)
(* there is nothing to do.                                                 *)
Logout(r, t, mine) ==
    /\ Present(r, t, IF t \in live /\ mine THEN "scan" ELSE "answered")
    /\ rough' = IF mine THEN rough \union {family[t]} ELSE rough

NothingDone(r) ==
    /\ pc[r] = "answered"
    /\ Rest(r)
    /\ UNCHANGED <<store, held, rough>>

(* invalidatePattern of the family: SCAN, and DEL of what it found.        *)
Scan(r) ==
    /\ pc[r] = "scan"
    /\ met' = [met EXCEPT ![r] = live \intersect Of(fam[r])]
    /\ Step(r, "revoke")
    /\ UNCHANGED <<store, held, token, fam, rough>>

Revoke(r) ==
    /\ pc[r] = "revoke"
    /\ live' = live \ met[r]
    /\ Rest(r)
    /\ UNCHANGED <<family, held, rough>>

(* Redis or the database fails, or the answer is lost.                     *)
Fail(r) ==
    /\ pc[r] # "idle"
    /\ rough' = rough \union {fam[r]}
    /\ Rest(r)
    /\ UNCHANGED <<store, held>>

TokenExpires(t) ==
    /\ t \in live
    /\ live'  = live \ {t}
    /\ rough' = rough \union {family[t]}
    /\ UNCHANGED <<family, held, client>>

Next ==
    \/ \E r \in Requests :
         \/ \E f \in Families : Login(r, f)
         \/ \E t \in Tokens, mine \in BOOLEAN :
              Refresh(r, t) \/ Logout(r, t, mine)
         \/ Delete(r) \/ FindUser(r) \/ IssueTokenPair(r) \/ Answer(r)
         \/ NothingDone(r) \/ Scan(r) \/ Revoke(r) \/ Fail(r)
    \/ \E t \in Tokens : TokenExpires(t)

Spec == Init /\ [][Next]_vars

-----------------------------------------------------------------------------
(* Properties.                                                             *)

(* Every variable keeps its type.                                          *)
TypeOK ==
    /\ family \in [Tokens -> Families \union {None}]
    /\ live \subseteq Issued /\ held \subseteq Issued
    /\ pc \in [Requests -> {"idle", "delete", "find", "issue", "answer",
                            "answered", "scan", "revoke"}]
    /\ token \in [Requests -> Issued \union {0}]
    /\ fam \in [Requests -> Families \union {None}]
    /\ met \in [Requests -> SUBSET Issued]
    /\ rough \subseteq Families

(* Requests of f that are about to issue the next token.                   *)
Replacing(f) == {r \in Requests : fam[r] = f /\ pc[r] \in {"find", "issue"}}

(* "Single-use refresh" (auth.service.ts:69): a family whose client waits  *)
(* for every answer and loses none has one token, or is about to get it,   *)
(* and when no request is under way that token is the one its client has.  *)
OneTokenPerFamily ==
    \A f \in Families \ rough :
      /\ Cardinality(live \intersect Of(f)) + Cardinality(Replacing(f)) <= 1
      /\ ~Busy(f) => \A t \in Of(f) : t \in live <=> t \in held /\ Newest(t)
=============================================================================
