----------------------------- MODULE AuthProofs -----------------------------
(***************************************************************************)
(* TLAPS proofs about refresh tokens, for every set of requests and        *)
(* families and every number of tokens, and about accounts, for every set  *)
(* of forms and every number of failures.                                  *)
(***************************************************************************)
EXTENDS Accounts, RefreshTokens, FiniteSetTheorems, TLAPS

USE TokensAssumption, AccountsAssumption

(* What the fields of a request under way are about.                       *)
RequestsInv ==
    \A r \in Requests :
      /\ pc[r] = "idle" <=> fam[r] = None
      /\ pc[r] \in {"delete", "answer"} => token[r] \in Of(fam[r])
      /\ pc[r] \in {"scan", "revoke"} => fam[r] \in rough
      /\ \A t \in met[r] : family[t] = fam[r]

(* Tokens are issued in their order.                                       *)
InOrder == \A t \in Issued, u \in Tokens : u < t => u \in Issued

Working == {"delete", "find", "issue", "answer"}
Works(r, f) == fam[r] = f /\ pc[r] \in Working

OnlyLive(f, t) == \A u \in Of(f) : u \in live <=> u = t

(* A family whose client is in order has one request at work, whose step   *)
(* says which token of the family is live, or none, and then the newest    *)
(* token its client has is the live one.                                   *)
FamilyInv(f) ==
    /\ \A r, q \in Requests : Works(r, f) /\ Works(q, f) => r = q
    /\ \A r \in Requests : fam[r] = f =>
         /\ pc[r] = "delete" => OnlyLive(f, token[r])
         /\ pc[r] \in {"find", "issue"} => OnlyLive(f, 0)
         /\ pc[r] = "answer" =>
              OnlyLive(f, token[r]) /\ \A t \in Of(f) : t <= token[r]
    /\ (\A r \in Requests : ~Works(r, f)) =>
         \A t \in Of(f) : t \in live <=> t \in held /\ Newest(t)

TokensInv ==
    /\ TypeOK /\ RequestsInv /\ InOrder
    /\ \A f \in Families \ rough : FamilyInv(f)

LEMMA TokensInit == Init => TokensInv
BY DEF Init, TokensInv, TypeOK, RequestsInv, InOrder, FamilyInv, Works,
       Working, Issued, Of, Tokens

-----------------------------------------------------------------------------
(* Types, request fields and the order of issue.                           *)

BasicInv == TypeOK /\ RequestsInv /\ InOrder

LEMMA IssueOrder ==
    ASSUME BasicInv, NEW r \in Requests, NEW t \in Tokens \ Issued,
           \A u \in Tokens \ Issued : t <= u,
           family' = [family EXCEPT ![t] = fam[r]], fam[r] \in Families
    PROVE  /\ Issued' = Issued \union {t}
           /\ InOrder'
           /\ \A u \in Issued : u < t /\ family'[u] = family[u]
           /\ family'[t] = fam[r]
<1> USE DEF BasicInv, TypeOK, Tokens
<1>1. Issued' = Issued \union {t} /\ family'[t] = fam[r] BY DEF Issued
<1>2. \A u \in Issued : u < t /\ family'[u] = family[u]
  BY DEF InOrder, Issued
<1>3. InOrder' BY <1>1, <1>2 DEF InOrder, Issued
<1> QED BY <1>1, <1>2, <1>3

LEMMA PresentStep ==
    ASSUME BasicInv, NEW r \in Requests, NEW t \in Tokens,
           NEW s \in {"delete", "scan", "answered"}, Present(r, t, s),
           rough' \in SUBSET Families, rough \subseteq rough',
           s = "scan" => family[t] \in rough'
    PROVE  BasicInv'
<1> USE DEF BasicInv, TypeOK, Present, Step, store
<1>1. t \in Issued /\ family[t] \in Families BY DEF Issued
<1>2. Issued' = Issued BY DEF Issued
<1>3. TypeOK' BY <1>1, <1>2
<1>4. RequestsInv'
  <2>1. met[r] = {} BY DEF RequestsInv, Issued
  <2> QED BY <1>1, <2>1 DEF RequestsInv, Of
<1>5. InOrder' BY <1>2 DEF InOrder
<1> QED BY <1>3, <1>4, <1>5

LEMMA BasicStep == TokensInv /\ [Next]_vars => BasicInv'
<1> SUFFICES ASSUME TokensInv, [Next]_vars PROVE BasicInv' OBVIOUS
<1>0. BasicInv BY DEF TokensInv, BasicInv
<1> USE <1>0 DEF BasicInv, TypeOK, RequestsInv, Step, Rest, store, Of
<1>1. ASSUME NEW r \in Requests, NEW f \in Families, Login(r, f)
      PROVE  BasicInv'
  BY <1>1 DEF Login, Issued, InOrder
<1>2. ASSUME NEW r \in Requests, NEW t \in Tokens, Refresh(r, t)
      PROVE  BasicInv'
  <2>1. Present(r, t, IF t \in live THEN "delete" ELSE "scan")
    BY <1>2 DEF Refresh
  <2>2. family[t] \in Families BY <2>1 DEF Present, Issued
  <2>3. rough' \in SUBSET Families /\ rough \subseteq rough'
    BY <1>2, <2>2 DEF Refresh
  <2>4. t \notin live => family[t] \in rough'
    <3>1. SUFFICES ASSUME t \notin live, ~Busy(family[t]), Newest(t),
                          family[t] \notin rough
                   PROVE  FALSE
      BY <1>2 DEF Refresh
    <3>2. FamilyInv(family[t]) BY <2>2, <3>1 DEF TokensInv
    <3>3. \A q \in Requests : ~Works(q, family[t])
      BY <3>1 DEF Busy, Works, Working
    <3> QED BY <2>1, <3>1, <3>2, <3>3 DEF FamilyInv, Of, Present
  <2> QED BY <2>1, <2>3, <2>4, PresentStep
<1>3. ASSUME NEW r \in Requests, NEW t \in Tokens, NEW mine \in BOOLEAN,
             Logout(r, t, mine)
      PROVE  BasicInv'
  <2>1. Present(r, t, IF t \in live /\ mine THEN "scan" ELSE "answered")
    BY <1>3 DEF Logout
  <2>2. family[t] \in Families BY <2>1 DEF Present, Issued
  <2> QED BY <1>3, <2>1, <2>2, PresentStep DEF Logout
<1>4. ASSUME NEW r \in Requests, Delete(r) PROVE BasicInv'
  BY <1>4 DEF Delete, Issued, InOrder
<1>5. ASSUME NEW r \in Requests, FindUser(r) PROVE BasicInv'
  BY <1>5 DEF FindUser, Issued, InOrder
<1>6. ASSUME NEW r \in Requests, IssueTokenPair(r) PROVE BasicInv'
  <2>1. fam[r] \in Families BY <1>6 DEF IssueTokenPair
  <2>2. PICK t \in Tokens \ Issued :
          /\ \A u \in Tokens \ Issued : t <= u
          /\ family' = [family EXCEPT ![t] = fam[r]]
          /\ live' = live \union {t}
          /\ token' = [token EXCEPT ![r] = t]
    BY <1>6 DEF IssueTokenPair
  <2>3. /\ Issued' = Issued \union {t}
        /\ InOrder'
        /\ \A u \in Issued : u < t /\ family'[u] = family[u]
        /\ family'[t] = fam[r]
    BY <2>1, <2>2, IssueOrder
  <2>4. TypeOK' BY <1>6, <2>1, <2>2, <2>3 DEF IssueTokenPair
  <2>5. RequestsInv'
    <3>1. \A q \in Requests : met'[q] = met[q] /\ fam'[q] = fam[q]
      BY <1>6 DEF IssueTokenPair
    <3>2. \A q \in Requests : \A u \in met'[q] : family'[u] = fam'[q]
      BY <2>3, <3>1
    <3>3. \A q \in Requests : pc[q] \in {"delete", "answer"} =>
            token[q] \in Issued
      BY DEF Issued, Of
    <3> QED BY <1>6, <2>2, <2>3, <3>1, <3>2, <3>3 DEF IssueTokenPair, Of
  <2> QED BY <2>3, <2>4, <2>5
<1>7. ASSUME NEW r \in Requests, Answer(r) PROVE BasicInv'
  <2>1. token[r] \in Issued
    BY <1>7 DEF Answer, Issued, Tokens
  <2> QED BY <1>7, <2>1 DEF Answer, Issued, InOrder
<1>8. ASSUME NEW r \in Requests, NothingDone(r) PROVE BasicInv'
  BY <1>8 DEF NothingDone, Issued, InOrder
<1>9. ASSUME NEW r \in Requests, Scan(r) PROVE BasicInv'
  BY <1>9 DEF Scan, Issued, InOrder, Of
<1>10. ASSUME NEW r \in Requests, Revoke(r) PROVE BasicInv'
  BY <1>10 DEF Revoke, Issued, InOrder
<1>11. ASSUME NEW r \in Requests, Fail(r) PROVE BasicInv'
  BY <1>11 DEF Fail, Issued, InOrder
<1>12. ASSUME NEW t \in Tokens, TokenExpires(t) PROVE BasicInv'
  BY <1>12 DEF TokenExpires, client, Issued, InOrder
<1>13. CASE UNCHANGED vars BY <1>13 DEF vars, client, Issued, InOrder
<1> QED
  BY <1>1, <1>2, <1>3, <1>4, <1>5, <1>6, <1>7, <1>8, <1>9, <1>10, <1>11,
     <1>12, <1>13 DEF Next

-----------------------------------------------------------------------------
(* One token per family.                                                   *)

(* A step that touches neither the tokens of f nor the requests at work on *)
(* them.                                                                   *)
LEMMA Elsewhere ==
    ASSUME BasicInv, NEW f \in Families, FamilyInv(f),
           Of(f)' = Of(f),
           \A t \in Of(f) : (t \in live' <=> t \in live)
                            /\ (t \in held' <=> t \in held),
           \A r \in Requests : Works(r, f) \/ Works(r, f)' =>
             fam'[r] = fam[r] /\ pc'[r] = pc[r] /\ token'[r] = token[r]
    PROVE  FamilyInv(f)'
<1>1. \A r \in Requests : Works(r, f)' <=> Works(r, f) BY DEF Works
<1>2. \A t \in Of(f) : Newest(t)' <=> Newest(t)
  BY DEF Newest, Of
<1>3. \A t \in Tokens : OnlyLive(f, t)' <=> OnlyLive(f, t) BY DEF OnlyLive
<1>4. OnlyLive(f, 0)' <=> OnlyLive(f, 0) BY DEF OnlyLive
<1>5. \A r \in Requests : fam'[r] = f /\ pc'[r] \in Working =>
        Works(r, f) /\ fam'[r] = fam[r] /\ pc'[r] = pc[r]
        /\ token'[r] = token[r]
  BY <1>1 DEF Works
<1>6. \A r \in Requests : Works(r, f) /\ pc[r] \in {"delete", "answer"} =>
        token[r] \in Tokens
  BY DEF BasicInv, RequestsInv, Of, Works
<1> QED BY <1>1, <1>2, <1>3, <1>4, <1>5, <1>6 DEF FamilyInv, Working, Works

LEMMA FamilyStep ==
    ASSUME TokensInv, Next, NEW f \in Families, f \notin rough'
    PROVE  FamilyInv(f)'
<1> USE DEF Step, Rest, store, client
<1>0. BasicInv BY DEF TokensInv, BasicInv
<1> USE <1>0
<1> DEFINE Kept(r) == \A q \in Requests \ {r} : /\ fam'[q] = fam[q]
                                               /\ pc'[q] = pc[q]
                                               /\ token'[q] = token[q]
<1>1. ASSUME NEW r \in Requests, NEW g \in Families, Login(r, g)
      PROVE  FamilyInv(f)'
  <2>0. /\ fam'[r] = g /\ pc'[r] = "issue" /\ Kept(r)
        /\ Of(f)' = Of(f) /\ UNCHANGED <<live, held, rough>>
        /\ ~Works(r, f)
    BY <1>1 DEF Login, BasicInv, TypeOK, Of, Works, Working
  <2>1. CASE g # f BY <2>0, <2>1, Elsewhere DEF Works, TokensInv
  <2>2. CASE g = f
    <3>1. \A q \in Requests : ~Works(q, f) /\ Of(f) = {}
      BY <1>1, <2>2 DEF Login, Busy, Works, Working
    <3> QED
      BY <2>0, <2>2, <3>1 DEF FamilyInv, Works, Working, OnlyLive
  <2> QED BY <2>1, <2>2
<1>2. ASSUME NEW r \in Requests, NEW t \in Tokens, Refresh(r, t)
      PROVE  FamilyInv(f)'
  <2>0. /\ fam'[r] = family[t] /\ token'[r] = t /\ Kept(r)
        /\ pc'[r] = (IF t \in live THEN "delete" ELSE "scan")
        /\ Of(f)' = Of(f) /\ UNCHANGED <<live, held>>
        /\ ~Works(r, f) /\ f \notin rough /\ t \in held
    BY <1>2 DEF Refresh, Present, BasicInv, TypeOK, Of, Works, Working
  <2>1. CASE family[t] # f BY <2>0, <2>1, Elsewhere DEF Works, TokensInv
  <2>2. CASE family[t] = f
    <3>1. ~Busy(f) /\ Newest(t) BY <1>2, <2>2 DEF Refresh
    <3>2. \A q \in Requests : ~Works(q, f)
      BY <3>1 DEF Busy, Works, Working
    <3>3. FamilyInv(f) BY <2>0 DEF TokensInv
    <3>4. \A u \in Of(f) : u \in live <=> u = t
      BY <2>0, <2>2, <3>1, <3>2, <3>3
         DEF FamilyInv, Newest, Of, BasicInv, TypeOK, Tokens
    <3>5. t \in live BY <2>2, <3>4 DEF Of
    <3> QED
      BY <2>0, <2>2, <3>2, <3>4, <3>5
         DEF FamilyInv, Works, Working, OnlyLive
  <2> QED BY <2>1, <2>2
<1>3. ASSUME NEW r \in Requests, NEW t \in Tokens, NEW mine \in BOOLEAN,
             Logout(r, t, mine)
      PROVE  FamilyInv(f)'
  <2>0. /\ fam'[r] = family[t] /\ Kept(r)
        /\ pc'[r] \in {"scan", "answered"}
        /\ Of(f)' = Of(f) /\ UNCHANGED <<live, held>>
        /\ ~Works(r, f) /\ f \notin rough
    BY <1>3 DEF Logout, Present, BasicInv, TypeOK, Of, Works, Working
  <2> QED BY <2>0, Elsewhere DEF Works, Working, TokensInv
<1>4. ASSUME NEW r \in Requests, Delete(r) PROVE FamilyInv(f)'
  <2>0. /\ fam' = fam /\ token' = token /\ Kept(r) /\ pc'[r] = "find"
        /\ Of(f)' = Of(f) /\ live' = live \ {token[r]} /\ held' = held
        /\ pc[r] = "delete" /\ f \notin rough /\ token[r] \in Of(fam[r])
    BY <1>4 DEF Delete, BasicInv, TypeOK, RequestsInv, Of
  <2>1. CASE fam[r] # f
    <3>1. token[r] \notin Of(f) BY <2>0, <2>1 DEF Of
    <3> QED BY <2>0, <2>1, <3>1, Elsewhere DEF Works, TokensInv
  <2>2. CASE fam[r] = f
    <3>1. FamilyInv(f) /\ Works(r, f)
      BY <2>0, <2>2 DEF TokensInv, Works, Working
    <3>2. OnlyLive(f, token[r]) BY <2>0, <2>2, <3>1 DEF FamilyInv
    <3>3. \A u \in Of(f) : u \notin live' BY <2>0, <3>2 DEF OnlyLive
    <3>4. \A u \in Of(f) : u # 0 BY DEF Of, Tokens
    <3> QED
      BY <2>0, <2>2, <3>1, <3>3, <3>4 DEF FamilyInv, Works, Working, OnlyLive
  <2> QED BY <2>1, <2>2
<1>5. ASSUME NEW r \in Requests, FindUser(r) PROVE FamilyInv(f)'
  <2>0. /\ fam' = fam /\ token' = token /\ Kept(r) /\ pc'[r] = "issue"
        /\ Of(f)' = Of(f) /\ UNCHANGED <<live, held>>
        /\ pc[r] = "find" /\ f \notin rough
    BY <1>5 DEF FindUser, BasicInv, TypeOK, Of
  <2>1. CASE fam[r] # f BY <2>0, <2>1, Elsewhere DEF Works, TokensInv
  <2>2. CASE fam[r] = f
    BY <2>0, <2>2 DEF TokensInv, FamilyInv, Works, Working, OnlyLive
  <2> QED BY <2>1, <2>2
<1>6. ASSUME NEW r \in Requests, IssueTokenPair(r) PROVE FamilyInv(f)'
  <2>1. fam[r] \in Families
    BY <1>6 DEF IssueTokenPair, BasicInv, TypeOK, RequestsInv
  <2>2. PICK t \in Tokens \ Issued :
          /\ \A u \in Tokens \ Issued : t <= u
          /\ family' = [family EXCEPT ![t] = fam[r]]
          /\ live' = live \union {t}
          /\ token' = [token EXCEPT ![r] = t]
    BY <1>6 DEF IssueTokenPair
  <2>3. /\ Issued' = Issued \union {t}
        /\ \A u \in Issued : u < t /\ family'[u] = family[u]
        /\ family'[t] = fam[r]
    BY <2>1, <2>2, IssueOrder
  <2>0. /\ fam' = fam /\ Kept(r) /\ pc'[r] = "answer" /\ pc[r] = "issue"
        /\ token'[r] = t /\ held' = held /\ f \notin rough /\ t \notin held
        /\ FamilyInv(f)
    BY <1>6, <2>2 DEF IssueTokenPair, BasicInv, TypeOK, TokensInv
  <2>4. CASE fam[r] # f
    <3>1. Of(f)' = Of(f)
      BY <2>2, <2>3, <2>4 DEF Of, Issued, BasicInv, TypeOK
    <3>2. t \notin Of(f) BY <2>2 DEF Of, Issued
    <3> QED BY <2>0, <2>2, <2>4, <3>1, <3>2, Elsewhere DEF Works
  <2>5. CASE fam[r] = f
    <3>1. Of(f)' = Of(f) \union {t}
      BY <2>2, <2>3, <2>5 DEF Of, Issued, BasicInv, TypeOK
    <3>2. Works(r, f) /\ OnlyLive(f, 0)
      BY <2>0, <2>5 DEF FamilyInv, Works, Working
    <3>3. \A u \in Of(f) : u \in Tokens /\ u \notin live /\ u < t
      BY <2>3, <3>2 DEF OnlyLive, Of, Issued, Tokens
    <3>4. \A u \in Of(f)' : (u \in live' <=> u = t) /\ u <= t
      BY <2>2, <3>1, <3>3 DEF Tokens
    <3>5. \A q \in Requests : Works(q, f)' <=> q = r
      BY <2>0, <2>5, <3>2 DEF FamilyInv, Works, Working
    <3>6. /\ \A u \in Of(f)' : u \in live' <=> u = token'[r]
          /\ \A u \in Of(f)' : u <= token'[r]
      BY <2>0, <3>4
    <3>8. OnlyLive(f, token[r])' BY <3>6 DEF OnlyLive
    <3>7. \A q \in Requests : fam'[q] = f /\ pc'[q] \in Working => q = r
      BY <3>5 DEF Works
    <3> QED BY <2>0, <3>5, <3>6, <3>7, <3>8 DEF FamilyInv, Working
  <2> QED BY <2>4, <2>5
<1>7. ASSUME NEW r \in Requests, Answer(r) PROVE FamilyInv(f)'
  <2>0. /\ fam'[r] = None /\ pc'[r] = "idle" /\ Kept(r)
        /\ Of(f)' = Of(f) /\ live' = live /\ held' = held \union {token[r]}
        /\ pc[r] = "answer" /\ f \notin rough /\ token[r] \in Of(fam[r])
        /\ FamilyInv(f)
    BY <1>7 DEF Answer, BasicInv, TypeOK, RequestsInv, Of, TokensInv
  <2>1. CASE fam[r] # f
    <3>1. token[r] \notin Of(f) BY <2>0, <2>1 DEF Of
    <3> QED BY <2>0, <2>1, <3>1, Elsewhere, TokensAssumption DEF Works
  <2>2. CASE fam[r] = f
    <3>1. Works(r, f) /\ OnlyLive(f, token[r])
          /\ \A u \in Of(f) : u <= token[r]
      BY <2>0, <2>2 DEF FamilyInv, Works, Working
    <3>2. \A q \in Requests : ~Works(q, f)'
      BY <2>0, <3>1 DEF FamilyInv, Works, Working
    <3>3. \A u \in Of(f) : u \in held' /\ Newest(u)' <=> u = token[r]
      BY <2>0, <2>2, <3>1 DEF Newest, Of, BasicInv, TypeOK, Tokens
    <3> QED
      BY <2>0, <2>2, <3>1, <3>2, <3>3 DEF FamilyInv, Works, Working, OnlyLive
  <2> QED BY <2>1, <2>2
<1>8. ASSUME NEW r \in Requests, NothingDone(r) PROVE FamilyInv(f)'
  <2>0. /\ fam'[r] = None /\ pc[r] = "answered" /\ Kept(r)
        /\ Of(f)' = Of(f) /\ UNCHANGED <<live, held>> /\ f \notin rough
    BY <1>8 DEF NothingDone, BasicInv, TypeOK, Of
  <2> QED
    BY <2>0, Elsewhere, TokensAssumption DEF Works, Working, TokensInv
<1>9. ASSUME NEW r \in Requests, Scan(r) PROVE FamilyInv(f)'
  <2>0. /\ fam' = fam /\ pc[r] = "scan" /\ pc'[r] = "revoke" /\ Kept(r)
        /\ Of(f)' = Of(f) /\ UNCHANGED <<live, held>> /\ f \notin rough
    BY <1>9 DEF Scan, BasicInv, TypeOK, Of
  <2> QED BY <2>0, Elsewhere DEF Works, Working, TokensInv
<1>10. ASSUME NEW r \in Requests, Revoke(r) PROVE FamilyInv(f)'
  <2>0. /\ fam'[r] = None /\ pc[r] = "revoke" /\ Kept(r)
        /\ Of(f)' = Of(f) /\ live' = live \ met[r] /\ held' = held
        /\ f \notin rough /\ fam[r] \in rough
        /\ \A t \in met[r] : family[t] = fam[r]
    BY <1>10 DEF Revoke, BasicInv, TypeOK, RequestsInv, Of
  <2>1. \A t \in Of(f) : t \notin met[r] BY <2>0 DEF Of
  <2> QED
    BY <2>0, <2>1, Elsewhere, TokensAssumption DEF Works, Working, TokensInv
<1>11. ASSUME NEW r \in Requests, Fail(r) PROVE FamilyInv(f)'
  <2>0. /\ fam'[r] = None /\ fam[r] # f /\ Kept(r)
        /\ Of(f)' = Of(f) /\ UNCHANGED <<live, held>> /\ f \notin rough
    BY <1>11 DEF Fail, BasicInv, TypeOK, Of
  <2> QED BY <2>0, Elsewhere, TokensAssumption DEF Works, TokensInv
<1>12. ASSUME NEW t \in Tokens, TokenExpires(t) PROVE FamilyInv(f)'
  BY <1>12, Elsewhere DEF TokenExpires, Of, Works, TokensInv
<1> QED
  BY <1>1, <1>2, <1>3, <1>4, <1>5, <1>6, <1>7, <1>8, <1>9, <1>10, <1>11,
     <1>12 DEF Next

LEMMA TokensStep == TokensInv /\ [Next]_vars => TokensInv'
<1> SUFFICES ASSUME TokensInv, [Next]_vars PROVE TokensInv' OBVIOUS
<1>1. BasicInv' BY BasicStep
<1>2. CASE Next BY <1>1, <1>2, FamilyStep DEF TokensInv, BasicInv
<1>3. CASE UNCHANGED vars
  <2>1. ASSUME NEW f \in Families \ rough PROVE FamilyInv(f)'
    BY <1>3, <2>1, Elsewhere
       DEF vars, store, client, Of, Works, TokensInv, BasicInv
  <2> QED BY <1>1, <1>3, <2>1 DEF TokensInv, BasicInv, vars
<1> QED BY <1>2, <1>3

(* Types, the order of issue, and the state of every family in order.      *)
THEOREM TokensInvariance == Spec => []TokensInv
BY TokensInit, TokensStep, PTL DEF Spec

(* Every variable keeps its type.                                          *)
THEOREM TokenTypes == Spec => []TypeOK
BY TokensInvariance, PTL DEF TokensInv

LEMMA AtMostOne ==
    ASSUME NEW S, \A x, y \in S : x = y
    PROVE  IsFiniteSet(S) /\ Cardinality(S) \in {0, 1}
           /\ (S # {} => Cardinality(S) = 1)
<1>1. CASE S = {} BY <1>1, FS_EmptySet
<1>2. CASE S # {}
  <2>1. PICK x \in S : TRUE BY <1>2
  <2>2. S = {x} BY <2>1
  <2> QED BY <2>2, FS_Singleton
<1> QED BY <1>1, <1>2

LEMMA OneOfAFamily ==
    ASSUME TokensInv, NEW f \in Families \ rough
    PROVE  /\ Cardinality(live \intersect Of(f)) + Cardinality(Replacing(f))
                <= 1
           /\ ~Busy(f) =>
                \A t \in Of(f) : t \in live <=> t \in held /\ Newest(t)
<1>0. FamilyInv(f) /\ TypeOK /\ RequestsInv BY DEF TokensInv
<1>1. \A r, q \in Replacing(f) : r = q
  BY <1>0 DEF FamilyInv, Replacing, Works, Working
<1>2. \A t, u \in live \intersect Of(f) : t = u
  <2>1. CASE \E r \in Requests : Works(r, f)
    <3>1. PICK r \in Requests : Works(r, f) BY <2>1
    <3> QED BY <1>0, <3>1 DEF FamilyInv, Works, Working, OnlyLive
  <2>2. CASE \A r \in Requests : ~Works(r, f)
    <3>1. \A t \in live \intersect Of(f) : t \in held /\ Newest(t)
      BY <1>0, <2>2 DEF FamilyInv
    <3> QED BY <3>1 DEF Newest, Of, Tokens
  <2> QED BY <2>1, <2>2
<1>3. Replacing(f) # {} => live \intersect Of(f) = {}
  <2>1. \A t \in Of(f) : t # 0 BY DEF Of, Tokens
  <2> QED BY <1>0, <2>1 DEF FamilyInv, Replacing, OnlyLive
<1>4. Cardinality({}) = 0 BY FS_EmptySet
<1>5. /\ Cardinality(live \intersect Of(f)) \in {0, 1}
      /\ Cardinality(Replacing(f)) \in {0, 1}
  BY <1>1, <1>2, AtMostOne
<1>6. Cardinality(live \intersect Of(f)) + Cardinality(Replacing(f)) <= 1
  <2>1. CASE Replacing(f) = {} BY <1>4, <1>5, <2>1
  <2>2. CASE Replacing(f) # {}
    <3>1. Cardinality(live \intersect Of(f)) = 0 BY <1>3, <1>4, <2>2
    <3> QED BY <1>5, <3>1
  <2> QED BY <2>1, <2>2
<1>7. ~Busy(f) => \A r \in Requests : ~Works(r, f)
  BY DEF Busy, Works, Working
<1> QED BY <1>0, <1>6, <1>7 DEF FamilyInv

(* A family whose client waits for its answers and loses none has one      *)
(* token, the one its client got last.                                     *)
THEOREM OneTokenPerFamilyThm == Spec => []OneTokenPerFamily
<1>1. TokensInv => OneTokenPerFamily BY OneOfAFamily DEF OneTokenPerFamily
<1> QED BY <1>1, TokensInvariance, PTL
-----------------------------------------------------------------------------
(* Accounts.                                                               *)

(* The types, the forms first: a form that moves keeps its type.           *)
LEMMA FormTypes ==
    ASSUME AccountsTypeOK, NEW f \in SignIns, ~At(f, "idle")
    PROVE  /\ form[f] \in Moving
           /\ \A s \in {"create", "find", "store", "compare"} :
                [form EXCEPT ![f].step = s] \in [SignIns -> {Unsent} \union Moving]
<1>1. form[f] \in Moving BY DEF AccountsTypeOK, At, Unsent
<1>2. \A s \in {"create", "find", "store", "compare"} :
        [form[f] EXCEPT !.step = s] \in Moving
  BY <1>1 DEF Moving
<1> QED BY <1>1, <1>2 DEF AccountsTypeOK

LEMMA AccountsTypeStep ==
    AccountsTypeOK /\ [AccountsNext]_accountVars => AccountsTypeOK'
<1> SUFFICES ASSUME AccountsTypeOK, [AccountsNext]_accountVars
             PROVE  AccountsTypeOK'
  OBVIOUS
<1> USE DEF AccountsTypeOK, users
<1>1. ASSUME NEW f \in SignIns, NEW s \in {"create", "find"}, Open(f, s)
      PROVE  AccountsTypeOK'
  <2>1. form[f] = Unsent
    <3>1. form[f] \notin Moving BY <1>1 DEF Open, At, Moving
    <3> QED BY <3>1
  <2>2. form[f] \in [step : {"idle"}, lost : BOOLEAN] BY <2>1 DEF Unsent
  <2>3. [form[f] EXCEPT !.step = s] \in Moving BY <2>2 DEF Moving
  <2> QED BY <1>1, <2>3 DEF Open, Goes
<1>2. ASSUME NEW f \in SignIns, CreateUser(f) PROVE AccountsTypeOK'
  <2>1. form'[f] \in {Unsent} \union Moving
    BY <1>2, FormTypes DEF CreateUser, At, Unsent
  <2> QED BY <1>2, <2>1 DEF CreateUser
<1>3. ASSUME NEW f \in SignIns, ValidateUser(f) PROVE AccountsTypeOK'
  <2>1. ~At(f, "idle") BY <1>3 DEF ValidateUser, At
  <2>2. Row \in {"absent", "user"} BY DEF Row
  <2>3. read' \in [Lookups -> {"absent", "user"}]
    BY <1>3, <2>2 DEF ValidateUser, FindOneByEmail
  <2>4. Goes(f, "compare") \/ Goes(f, "store")
    BY <1>3 DEF ValidateUser, FindOneByEmail
  <2>5. form' \in [SignIns -> {Unsent} \union Moving]
    <3>1. \A s \in {"create", "find", "store", "compare"} :
            [form EXCEPT ![f].step = s] \in [SignIns -> {Unsent} \union Moving]
      BY <2>1, FormTypes
    <3> HIDE DEF AccountsTypeOK
    <3> QED BY <2>4, <3>1 DEF Goes
  <2> QED BY <1>3, <2>3, <2>5 DEF ValidateUser
<1>4. ASSUME NEW f \in SignIns, StoreForm(f) PROVE AccountsTypeOK'
  BY <1>4, FormTypes DEF StoreForm, At, Goes, Lookups
<1>5. ASSUME NEW f \in SignIns, SignedIn(f) \/ Refused(f)
      PROVE  AccountsTypeOK'
  BY <1>5 DEF SignedIn, Refused, Ends, Blank
<1>6. ASSUME NEW f \in SignIns, Crash(f) PROVE AccountsTypeOK'
  <2>1. failures' \in 0 .. MaxFailures BY <1>6 DEF Crash, Counted
  <2> QED BY <1>6, <2>1 DEF Crash, Ends, Blank
<1>7. ASSUME NEW f \in SignIns, Leave(f) PROVE AccountsTypeOK'
  <2>1. failures' \in 0 .. MaxFailures BY <1>7 DEF Leave, Counted
  <2>0. form[f] \in Moving BY <1>7, FormTypes DEF Leave
  <2>4. [form[f] EXCEPT !.lost = TRUE] \in Moving BY <2>0 DEF Moving
  <2>2. form'[f] \in Moving BY <1>7, <2>4 DEF Leave
  <2>3. form' \in [SignIns -> {Unsent} \union Moving]
    BY <1>7, <2>2 DEF Leave
  <2> QED BY <1>7, <2>1, <2>3 DEF Leave, Blank
<1>8. CASE FetchShowcase \/ ShowcaseExpires
  BY <1>1, <1>8 DEF FetchShowcase, ShowcaseExpires, SignIns
<1>9. CASE Send BY <1>9 DEF Send, page, Loading
<1>10. CASE ValidateToken
  <2>1. Row \in {"absent", "user"} BY DEF Row
  <2>2. read' \in [Lookups -> {"absent", "user"}]
    BY <1>10, <2>1 DEF ValidateToken, FindOneByEmail
  <2>3. call' \in Loading
    BY <1>10 DEF ValidateToken, FindOneByEmail, Over, Loading
  <2> QED BY <1>10, <2>2, <2>3 DEF ValidateToken, page
<1>11. CASE StoreCall BY <1>11 DEF StoreCall, page, Over, Loading, Lookups
<1>12. CASE Loaded \/ Unauthorized
  BY <1>12 DEF Loaded, Unauthorized, CallEnds, page
<1>12a. CASE CallFails
  <2>1. failures' \in 0 .. MaxFailures BY <1>12a DEF CallFails, Counted
  <2> QED BY <1>12a, <2>1 DEF CallFails, CallEnds
<1>13. CASE CookieExpires
  <2>1. call' \in {Over} \union Loading
    <3>1. CASE call = Over
      <4>1. call' = [Over EXCEPT !.old = FALSE]
        BY <1>13, <3>1 DEF CookieExpires, Over
      <4> QED BY <4>1 DEF Over
    <3>2. CASE call \in Loading
      <4>1. [call EXCEPT !.old = call.step # "idle"] \in Loading
        BY <3>2 DEF Loading
      <4> QED BY <1>13, <4>1 DEF CookieExpires
    <3> QED BY <3>1, <3>2
  <2> QED BY <1>13, <2>1 DEF CookieExpires, page
<1>14. CASE Handle \/ SignOut \/ Seed \/ EntryExpires
  BY <1>14 DEF Handle, SignOut, Seed, EntryExpires, page
<1>15. CASE UNCHANGED accountVars BY <1>15 DEF accountVars
<1> QED
  BY <1>1, <1>2, <1>3, <1>4, <1>5, <1>6, <1>7, <1>8, <1>9, <1>10, <1>11,
     <1>12, <1>12a, <1>13, <1>14, <1>15
  DEF AccountsNext, FormStep, CallStep, Register, SignIn, SignIns

(* Every variable keeps its type.                                          *)
THEOREM AccountsTypes == AccountsSpec => []AccountsTypeOK
<1>1. AccountsInit => AccountsTypeOK
  <2> SUFFICES ASSUME AccountsInit PROVE AccountsTypeOK OBVIOUS
  <2>1. failures \in 0 .. MaxFailures BY DEF AccountsInit
  <2>2. /\ form \in [SignIns -> {Unsent} \union Moving]
        /\ call \in {Over} \union Loading
    BY DEF AccountsInit
  <2> QED BY <2>1, <2>2 DEF AccountsInit, AccountsTypeOK
<1> QED BY <1>1, AccountsTypeStep, PTL DEF AccountsSpec
-----------------------------------------------------------------------------
(* Lookups: every step leaves all where they are, or moves one of them.    *)

LookupsStay ==
    /\ \A y \in Lookups : StepOf(y)' = StepOf(y) /\ read'[y] = read[y]
    /\ entry' \in {entry, "none"}

OneLooksUp(x) ==
    /\ \A y \in Lookups \ {x} : StepOf(y)' = StepOf(y) /\ read'[y] = read[y]
    /\ \/ /\ ~Knows(x) /\ StepOf(x) # "find" /\ StepOf(x)' = "find"
          /\ UNCHANGED entry
       \/ /\ StepOf(x) = "find" /\ StepOf(x)' \in {"compare", "answer"}
          /\ entry # "none" /\ read'[x] = entry /\ UNCHANGED entry
       \/ /\ StepOf(x) = "find" /\ StepOf(x)' \in {"store", "compare", "answer"}
          /\ read'[x] = Row /\ UNCHANGED entry
       \/ /\ StepOf(x) = "store" /\ StepOf(x)' \in {"compare", "answer"}
          /\ read'[x] = read[x] /\ entry' = read[x]
       \/ StepOf(x)' \in {"idle", "create"} /\ UNCHANGED entry

LEMMA FormSteps ==
    ASSUME AccountsTypeOK, NEW f \in SignIns
    PROVE  /\ StepOf(f) = form[f].step /\ f \in Lookups
           /\ \A y \in SignIns : StepOf(y)' = form'[y].step
           /\ StepOf("call") = call.step /\ StepOf("call")' = call'.step
           /\ "call" \in Lookups /\ "call" \notin SignIns
           /\ Lookups = SignIns \union {"call"}
BY DEF StepOf, Lookups, SignIns

(* A step of form f alone, to step s.                                      *)
LEMMA FormMoves ==
    ASSUME AccountsTypeOK, NEW f \in SignIns, NEW s, Goes(f, s),
           UNCHANGED call
    PROVE  /\ StepOf(f)' = s
           /\ \A y \in Lookups \ {f} : StepOf(y)' = StepOf(y)
<1>1. form'[f].step = s
  <2>0. \/ form[f] \in [step : {"idle"}, lost : BOOLEAN]
        \/ form[f] \in Moving
    <3>1. Unsent \in [step : {"idle"}, lost : BOOLEAN] BY DEF Unsent
    <3> QED BY <3>1 DEF AccountsTypeOK
  <2>2. form'[f] = [form[f] EXCEPT !.step = s] BY DEF Goes, AccountsTypeOK
  <2> QED BY <2>0, <2>2 DEF Moving
<1>2. \A y \in SignIns \ {f} : form'[y] = form[y]
  BY DEF Goes, AccountsTypeOK
<1> QED BY <1>1, <1>2 DEF StepOf, Lookups, SignIns

LEMMA FormEnds ==
    ASSUME AccountsTypeOK, NEW f \in SignIns, Ends(f), UNCHANGED <<call, entry>>
    PROVE  OneLooksUp(f)
<1>1. form'[f].step = "idle"
  <2>1. form'[f] = Unsent BY DEF Ends, AccountsTypeOK
  <2> QED BY <2>1 DEF Unsent
<1>2. \A y \in SignIns \ {f} : form'[y] = form[y]
  BY DEF Ends, AccountsTypeOK
<1>3. \A y \in Lookups \ {f} : read'[y] = read[y]
  BY DEF Ends, AccountsTypeOK
<1> QED BY <1>1, <1>2, <1>3 DEF OneLooksUp, StepOf, Lookups, SignIns

LEMMA LookupStep ==
    ASSUME AccountsTypeOK, AccountsNext
    PROVE  LookupsStay \/ \E x \in Lookups : OneLooksUp(x)
<1> DEFINE Goal == LookupsStay \/ \E x \in Lookups : OneLooksUp(x)
<1> SUFFICES Goal OBVIOUS
<1>0. \A f \in SignIns : f \in Lookups BY DEF Lookups
<1>1. ASSUME NEW f \in SignIns, NEW s \in {"create", "find"}, Open(f, s)
      PROVE  Goal
  <2>1. StepOf(f) = "idle" BY <1>1, FormSteps DEF Open, At
  <2>2. UNCHANGED <<call, entry, read>> BY <1>1 DEF Open, users
  <2>3. OneLooksUp(f)
    BY <1>1, <2>1, <2>2, FormMoves DEF Open, OneLooksUp, Knows
  <2> QED BY <1>0, <2>3
<1>2. ASSUME NEW f \in SignIns, CreateUser(f) PROVE Goal
  <2>1. StepOf(f) = "create" BY <1>2, FormSteps DEF CreateUser, At
  <2>2. UNCHANGED <<call, entry, read>> BY <1>2 DEF CreateUser
  <2>3. CASE account
    <3>1. form'[f] = Unsent /\ \A y \in SignIns \ {f} : form'[y] = form[y]
      BY <1>2, <2>3 DEF CreateUser, AccountsTypeOK
    <3>2. form'[f].step = "idle" BY <3>1 DEF Unsent
    <3>3. OneLooksUp(f)
      BY <2>2, <3>1, <3>2 DEF OneLooksUp, StepOf, Lookups, SignIns
    <3> QED BY <1>0, <3>3
  <2>4. CASE ~account
    <3>1. Goes(f, "find") BY <1>2, <2>4 DEF CreateUser, Goes, AccountsTypeOK
    <3>2. OneLooksUp(f)
      BY <2>1, <2>2, <3>1, FormMoves DEF OneLooksUp, Knows
    <3> QED BY <1>0, <3>2
  <2> QED BY <2>3, <2>4
<1>3. ASSUME NEW f \in SignIns, ValidateUser(f) PROVE Goal
  <2>1. StepOf(f) = "find" /\ UNCHANGED <<call, entry>>
    BY <1>3, FormSteps DEF ValidateUser, At
  <2>2. PICK v : /\ read' = [read EXCEPT ![f] = v]
                 /\ \/ entry # "none" /\ v = entry /\ Goes(f, "compare")
                    \/ v = Row /\ (Goes(f, "compare") \/ Goes(f, "store"))
    BY <1>3 DEF ValidateUser, FindOneByEmail
  <2>3. /\ read'[f] = v
        /\ \A y \in Lookups \ {f} : read'[y] = read[y]
    BY <1>0, <2>2 DEF AccountsTypeOK
  <2>4. CASE entry # "none" /\ v = entry /\ Goes(f, "compare")
    <3>1. OneLooksUp(f) BY <2>1, <2>3, <2>4, FormMoves DEF OneLooksUp
    <3> QED BY <1>0, <3>1
  <2>5. CASE v = Row /\ (Goes(f, "compare") \/ Goes(f, "store"))
    <3>1. OneLooksUp(f) BY <2>1, <2>3, <2>5, FormMoves DEF OneLooksUp
    <3> QED BY <1>0, <3>1
  <2> QED BY <2>2, <2>4, <2>5
<1>4. ASSUME NEW f \in SignIns, StoreForm(f) PROVE Goal
  <2>1. StepOf(f) = "store" /\ UNCHANGED <<call, read>> /\ entry' = read[f]
    BY <1>4, FormSteps DEF StoreForm, At
  <2>2. OneLooksUp(f) BY <1>4, <2>1, FormMoves DEF StoreForm, OneLooksUp
  <2> QED BY <1>0, <2>2
<1>5. ASSUME NEW f \in SignIns, SignedIn(f) \/ Refused(f) \/ Crash(f)
      PROVE  Goal
  BY <1>0, <1>5, FormEnds DEF SignedIn, Refused, Crash
<1>6. ASSUME NEW f \in SignIns, Leave(f) PROVE Goal
  <2>0. form[f] \in Moving BY <1>6, FormTypes DEF Leave
  <2>1. form'[f].step = form[f].step
    BY <1>6, <2>0 DEF Leave, AccountsTypeOK, Moving
  <2>2. \A y \in SignIns : form'[y].step = form[y].step
    BY <1>6, <2>1 DEF Leave, AccountsTypeOK
  <2>3. UNCHANGED <<call, read, entry>> BY <1>6 DEF Leave, users
  <2> QED BY <2>2, <2>3 DEF LookupsStay, StepOf, Lookups, SignIns
<1>7. CASE \/ UNCHANGED <<form, call, read>> /\ entry' \in {entry, "none"}
  BY <1>7 DEF LookupsStay, StepOf
<1>8. CASE Send
  <2>1. /\ call.step = "idle" /\ call'.step = "find"
        /\ UNCHANGED <<form, read, entry>>
    BY <1>8 DEF Send, page
  <2>2. OneLooksUp("call")
    BY <2>1 DEF OneLooksUp, StepOf, Knows, Lookups
  <2> QED BY <2>2 DEF Lookups
<1>9. CASE ValidateToken
  <2>1. call \in Loading /\ call.step = "find" /\ UNCHANGED <<form, entry>>
    BY <1>9 DEF ValidateToken, AccountsTypeOK, Over, page
  <2>2. PICK v, s :
          /\ read' = [read EXCEPT !["call"] = v]
          /\ call' = [call EXCEPT !.step = s]
          /\ \/ entry # "none" /\ v = entry /\ s = "answer"
             \/ v = Row /\ s \in {"answer", "store"}
    BY <1>9 DEF ValidateToken, FindOneByEmail
  <2>3. call'.step = s BY <2>1, <2>2 DEF Loading
  <2>4. read'["call"] = v /\ \A y \in Lookups \ {"call"} : read'[y] = read[y]
    BY <2>2 DEF AccountsTypeOK, Lookups
  <2>5. OneLooksUp("call")
    BY <2>1, <2>2, <2>3, <2>4 DEF OneLooksUp, StepOf, Lookups
  <2> QED BY <2>5 DEF Lookups
<1>10. CASE StoreCall
  <2>1. call \in Loading /\ call.step = "store" /\ UNCHANGED <<form, read>>
    BY <1>10 DEF StoreCall, AccountsTypeOK, Over, page
  <2>2. call'.step = "answer" /\ entry' = read["call"]
    BY <1>10, <2>1 DEF StoreCall, Loading
  <2>3. OneLooksUp("call") BY <2>1, <2>2 DEF OneLooksUp, StepOf, Lookups
  <2> QED BY <2>3 DEF Lookups
<1>11. CASE Loaded \/ CallFails \/ Unauthorized
  <2>1. UNCHANGED <<form, entry>> /\ call' = Over
    BY <1>11 DEF Loaded, CallFails, Unauthorized, CallEnds, page
  <2>2. call'.step = "idle" BY <2>1 DEF Over
  <2>3. \A y \in Lookups \ {"call"} : read'[y] = read[y]
    BY <1>11 DEF Loaded, CallFails, Unauthorized, CallEnds, AccountsTypeOK
  <2>4. OneLooksUp("call")
    BY <2>1, <2>2, <2>3 DEF OneLooksUp, StepOf, Lookups
  <2> QED BY <2>4 DEF Lookups
<1>12. CASE CookieExpires
  <2>1. call'.step = call.step
    BY <1>12 DEF CookieExpires, AccountsTypeOK, Over, Loading
  <2>2. UNCHANGED <<form, read, entry>> BY <1>12 DEF CookieExpires, page
  <2> QED BY <2>1, <2>2 DEF LookupsStay, StepOf
<1> HIDE DEF Goal
<1>13. CASE ShowcaseExpires \/ Handle \/ SignOut \/ Seed \/ EntryExpires
  BY <1>7, <1>13
     DEF ShowcaseExpires, Handle, SignOut, Seed, EntryExpires, page, users
<1> QED
  BY <1>1, <1>2, <1>3, <1>4, <1>5, <1>6, <1>8, <1>9, <1>10, <1>11, <1>12,
     <1>13
  DEF AccountsNext, FormStep, CallStep, Register, SignIn, FetchShowcase,
      SignIns

LEMMA LookupSteps ==
    AccountsTypeOK /\ [AccountsNext]_accountVars =>
      LookupsStay \/ \E x \in Lookups : OneLooksUp(x)
<1>1. UNCHANGED accountVars => LookupsStay
  BY DEF accountVars, users, LookupsStay, StepOf
<1> QED BY <1>1, LookupStep

-----------------------------------------------------------------------------
(* Absence is forgotten.                                                   *)

LEMMA Forgets ==
    ASSUME AccountsTypeOK, account, ~Source,
           LookupsStay \/ \E x \in Lookups : OneLooksUp(x)
    PROVE  ~Source' /\ Doubts' \subseteq Doubts
<1>0. entry # "absent" /\ Row = "user" BY DEF Source, Row
<1>1. CASE LookupsStay
  <2>1. Doubts' = Doubts BY <1>1 DEF LookupsStay, Doubts, Knows
  <2> QED BY <1>0, <1>1, <2>1 DEF LookupsStay, Source, Doubts
<1>2. ASSUME NEW x \in Lookups, OneLooksUp(x)
      PROVE  ~Source' /\ Doubts' \subseteq Doubts
  <2>1. \A y \in Lookups \ {x} : /\ y \in Doubts' <=> y \in Doubts
                                 /\ StepOf(y)' = StepOf(y)
    BY <1>2 DEF OneLooksUp, Doubts, Knows
  <2>2. x \notin Doubts' \/ (x \in Doubts /\ StepOf(x)' # "store")
    BY <1>0, <1>2 DEF OneLooksUp, Doubts, Knows
  <2>3. entry' # "absent" BY <1>0, <1>2 DEF OneLooksUp, Source, Doubts, Knows
  <2>4. Doubts' \subseteq Lookups BY DEF Doubts
  <2>5. Doubts' \subseteq Doubts BY <2>1, <2>2, <2>4
  <2>6. \A y \in Doubts' : StepOf(y)' # "store"
    BY <2>1, <2>2, <2>4 DEF Source
  <2> QED BY <2>3, <2>5, <2>6 DEF Source
<1> QED BY <1>1, <1>2

(* Once the account exists and no absence is cached or about to be, none   *)
(* ever is.                                                                *)
THEOREM AbsenceDiesOut == AccountsSpec => AbsenceIsForgotten
<1>1. AccountsTypeOK /\ [AccountsNext]_accountVars =>
        [account /\ ~Source => ~Source' /\ Doubts' \subseteq Doubts]_accountVars
  BY LookupSteps, Forgets
<1> QED BY <1>1, AccountsTypes, PTL DEF AccountsSpec, AbsenceIsForgotten

-----------------------------------------------------------------------------
(* Lookups and the cache.                                                  *)

LEMMA OthersStay ==
    ASSUME NEW x \in Lookups, NEW s, NEW v,
           \A y \in Lookups \ {x} : StepOf(y)' = StepOf(y) /\ read'[y] = read[y],
           Stage(x)' = s, (IF Knows(x) THEN read[x] ELSE "none")' = v
    PROVE  UserByEmail!Gets(x, s, v)
<1>1. \A y \in Lookups \ {x} : /\ Stage(y)' = Stage(y)
                               /\ Knows(y)' <=> Knows(y)
  BY DEF Stage, Knows
<1>2. [y \in Lookups |-> Stage(y)]'
        = [[y \in Lookups |-> Stage(y)] EXCEPT ![x] = s]
  BY <1>1
<1>3. [y \in Lookups |-> IF Knows(y) THEN read[y] ELSE "none"]'
        = [[y \in Lookups |-> IF Knows(y) THEN read[y] ELSE "none"]
             EXCEPT ![x] = v]
  BY <1>1
<1> QED BY <1>2, <1>3 DEF UserByEmail!Gets

LEMMA LooksUp ==
    ASSUME AccountsTypeOK, NEW x \in Lookups, OneLooksUp(x)
    PROVE  UserByEmail!AsideNext
<1> DEFINE Others == \A y \in Lookups \ {x} :
                       StepOf(y)' = StepOf(y) /\ read'[y] = read[y]
<1>0. Others BY DEF OneLooksUp
<1>1. CASE /\ ~Knows(x) /\ StepOf(x) # "find" /\ StepOf(x)' = "find"
           /\ UNCHANGED entry
  <2>1. UserByEmail!Gets(x, "asked", "none")
    BY <1>0, <1>1, OthersStay DEF Stage, Knows
  <2>2. UserByEmail!Ask(x) BY <1>1, <2>1 DEF UserByEmail!Ask, Stage, Knows
  <2> QED BY <2>2 DEF UserByEmail!AsideNext
<1>2. CASE /\ StepOf(x) = "find" /\ StepOf(x)' \in {"compare", "answer"}
           /\ entry # "none" /\ read'[x] = entry /\ UNCHANGED entry
  <2>0. PICK v : v = entry OBVIOUS
  <2>3. Stage(x)' = "ended" /\ (IF Knows(x) THEN read[x] ELSE "none")' = v
    BY <1>2, <2>0 DEF Stage, Knows
  <2>1. UserByEmail!Gets(x, "ended", v) BY <1>0, <2>3, OthersStay
  <2>2. UserByEmail!Hit(x)
    BY <1>2, <2>0, <2>1 DEF UserByEmail!Gets, UserByEmail!Hit, Stage, Knows
  <2> QED BY <2>2 DEF UserByEmail!AsideNext
<1>3. CASE /\ StepOf(x) = "find" /\ StepOf(x)' \in {"store", "compare", "answer"}
           /\ read'[x] = Row /\ UNCHANGED entry
  <2>0. PICK v : v = Row OBVIOUS
  <2>3. /\ Stage(x)' \in {"loaded", "ended"}
        /\ (IF Knows(x) THEN read[x] ELSE "none")' = v
    BY <1>3, <2>0 DEF Stage, Knows
  <2>1. UserByEmail!Gets(x, "loaded", v) \/ UserByEmail!Gets(x, "ended", v)
    BY <1>0, <2>3, OthersStay
  <2>2. UserByEmail!Load(x)
    BY <1>3, <2>0, <2>1 DEF UserByEmail!Gets, UserByEmail!Load, Stage, Knows
  <2> QED BY <2>2 DEF UserByEmail!AsideNext
<1>4. CASE /\ StepOf(x) = "store" /\ StepOf(x)' \in {"compare", "answer"}
           /\ read'[x] = read[x] /\ entry' = read[x]
  <2>0. PICK v : v = read[x] OBVIOUS
  <2>3. Stage(x)' = "ended" /\ (IF Knows(x) THEN read[x] ELSE "none")' = v
    BY <1>4, <2>0 DEF Stage, Knows
  <2>1. UserByEmail!Gets(x, "ended", v) BY <1>0, <2>3, OthersStay
  <2>2. UserByEmail!Keep(x)
    BY <1>4, <2>0, <2>1 DEF UserByEmail!Gets, UserByEmail!Keep, Stage, Knows
  <2> QED BY <2>2 DEF UserByEmail!AsideNext
<1>5. CASE StepOf(x)' \in {"idle", "create"} /\ UNCHANGED entry
  <2>1. UserByEmail!Gets(x, "away", "none")
    BY <1>0, <1>5, OthersStay DEF Stage, Knows
  <2>2. UserByEmail!Leave(x) BY <1>5, <2>1 DEF UserByEmail!Leave
  <2> QED BY <2>2 DEF UserByEmail!AsideNext
<1> QED BY <1>1, <1>2, <1>3, <1>4, <1>5 DEF OneLooksUp

LEMMA LooksUpOrStays ==
    AccountsTypeOK /\ [AccountsNext]_accountVars =>
      [UserByEmail!AsideNext]_(UserByEmail!aside)
<1> SUFFICES ASSUME AccountsTypeOK, [AccountsNext]_accountVars
             PROVE  [UserByEmail!AsideNext]_(UserByEmail!aside)
  OBVIOUS
<1>1. CASE LookupsStay
  <2>1. CASE entry' = entry
    BY <1>1, <2>1 DEF LookupsStay, UserByEmail!aside, Stage, Knows
  <2>2. CASE entry' = "none"
    <3>1. UserByEmail!Forget
      BY <1>1, <2>2 DEF LookupsStay, UserByEmail!Forget, Stage, Knows
    <3> QED BY <3>1 DEF UserByEmail!AsideNext
  <2> QED BY <1>1, <2>1, <2>2 DEF LookupsStay
<1> QED BY <1>1, LookupSteps, LooksUp

(* Sign-ins and pages look users up as the cache lets any reader do.       *)
THEOREM LookupsAreGets == AccountsSpec => LooksUpThroughTheCache
<1>1. AccountsInit => UserByEmail!AsideInit
  <2> SUFFICES ASSUME AccountsInit PROVE UserByEmail!AsideInit OBVIOUS
  <2>1. \A x \in Lookups : StepOf(x) = "idle"
    BY DEF AccountsInit, StepOf, Lookups, Unsent, Over
  <2> QED BY <2>1 DEF AccountsInit, UserByEmail!AsideInit, Stage, Knows
<1> QED
  BY <1>1, LooksUpOrStays, AccountsTypes, PTL
     DEF AccountsSpec, LooksUpThroughTheCache, UserByEmail!AsideSpec
=============================================================================
