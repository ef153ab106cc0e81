----------------------------- MODULE FormsProofs ----------------------------
(***************************************************************************)
(* TLAPS proofs about the sale pages, for every set of sales, tabs and     *)
(* recipients.                                                             *)
(***************************************************************************)
EXTENDS SaleForms, TLAPS

(* The API has cleared m, on the copy it has seen.                         *)
Cleared(m) ==
    /\ m.op = "update" /\ m.seen \in Live
    /\ m.target # "NONE" => m.target \in LEGAL_TRANSITIONS[m.seen]
    /\ isKickoffGuarded(m.seen, m.target) => m.onTime

(* What a request asks for follows from the page it was sent from.         *)
Sound(page, m) ==
    /\ m.op = "open" => m.asked = "NONE" /\ m.target = "NONE"
    /\ m.op = "create" => m.asked = "PENDING"
    /\ m.op = "delete" => m.asked = "DELETED" /\ m.target = "NONE"
    /\ m.op = "update" => m.asked = m.target /\ page.shown \in Live
    /\ m.op # "create" => page.sale \in Sales
    /\ m.target \in {"NONE", "PENDING", "SOLD", "GIFTED"}
    /\ m.target = "PENDING" => page.shown = "SOLD"
    /\ m.target = "SOLD" => page.shown \notin {"SOLD", "GIFTED"}
    /\ m.target = "GIFTED" =>
         \/ page.shown = "GIFTED"
         \/ page.shown = "PENDING" /\ ~page.past /\ m.name # None
    /\ m.step \in {"loaded", "seen"} => m.op \in {"open", "update"}
    /\ m.step = "cleared" => Cleared(m)

(* A page shows a sale, once it is drawn.                                  *)
Proper(page, m) ==
    page # None /\ page.form # "new" =>
      /\ page.sale \in Sales
      /\ m = None \/ m.op # "open" => page.shown \in Live

PageInv == \A t \in Tabs : Proper(tab[t], sent[t])
SentInv ==
    \A t \in Tabs : sent[t] # None => tab[t] # None /\ Sound(tab[t], sent[t])

FormsInv == TypeOK /\ PageInv /\ SentInv

LEMMA FormsInit == Init => FormsInv
BY DEF Init, LedgerInit, FormsInv, TypeOK, PageInv, Proper, SentInv, Statuses

-----------------------------------------------------------------------------
(* Steps of one tab: those of its page, and those of its request.          *)

LEMMA TabStep ==
    ASSUME FormsInv, NEW t \in Tabs,
           NEW page \in Page \union {None}, NEW m \in Request \union {None},
           tab' = [tab EXCEPT ![t] = page], sent' = [sent EXCEPT ![t] = m],
           m # None => page # None /\ Sound(page, m), Proper(page, m),
           status' \in [Sales -> Statuses],
           kept' \in [Sales -> Statuses \union {None}]
    PROVE  FormsInv'
<1>1. TypeOK' BY DEF FormsInv, TypeOK
<1>2. /\ tab'[t] = page /\ sent'[t] = m
      /\ \A u \in Tabs \ {t} : tab'[u] = tab[u] /\ sent'[u] = sent[u]
  BY DEF FormsInv, TypeOK
<1>3. PageInv' BY <1>2 DEF FormsInv, PageInv
<1>4. SentInv' BY <1>2 DEF FormsInv, SentInv
<1> QED BY <1>1, <1>3, <1>4 DEF FormsInv

LEMMA SameTab ==
    ASSUME FormsInv, NEW t \in Tabs
    PROVE  /\ tab = [tab EXCEPT ![t] = tab[t]] /\ sent = [sent EXCEPT ![t] = sent[t]]
           /\ tab[t] \in Page \union {None} /\ sent[t] \in Request \union {None}
           /\ status \in [Sales -> Statuses]
           /\ kept \in [Sales -> Statuses \union {None}]
BY DEF FormsInv, TypeOK

(* A request as it is sent.                                                *)
Sent(op, asked, target, name) ==
    [op |-> op, asked |-> asked, target |-> target, name |-> name,
     step |-> "sent", seen |-> "UNUSED", onTime |-> FALSE]

LEMMA OpenStep ==
    ASSUME FormsInv, NEW t \in Tabs,
           \/ OpenNew(t) \/ Close(t)
           \/ \E s \in Sales : OpenPanel(t, s) \/ OpenDetail(t, s)
    PROVE  FormsInv'
<1>1. CASE OpenNew(t)
  <2>1. PICK page : page = Blank("new", None) OBVIOUS
  <2>2. page \in Page /\ page.form = "new" BY <2>1 DEF Blank, Page
  <2> QED BY <1>1, <2>1, <2>2, TabStep, SameTab DEF OpenNew, Proper, ledger
<1>2. CASE Close(t) BY <1>2, TabStep, SameTab DEF Close, Proper, ledger
<1>3. ASSUME NEW s \in Sales, NEW form \in {"panel", "detail"},
             LoadPage(t, form, s)
      PROVE  FormsInv'
  <2>1. PICK page, m : page = Blank(form, s) /\ m = Sent("open", "NONE", "NONE", None)
    OBVIOUS
  <2>2. page \in Page /\ page.sale = s
    BY <1>3, <2>1 DEF Blank, Page
  <2>3. /\ m \in Request /\ m.op = "open" /\ m.asked = "NONE"
        /\ m.target = "NONE" /\ m.step = "sent"
    BY <2>1 DEF Sent, Request, Statuses
  <2>4. Sound(page, m) BY <2>2, <2>3 DEF Sound
  <2>6. page # None BY <2>2, FormsAssumption
  <2>5. Proper(page, m) BY <2>2, <2>3, FormsAssumption DEF Proper
  <2>7. tab' = [tab EXCEPT ![t] = page] /\ sent' = [sent EXCEPT ![t] = m]
    BY <1>3, <2>1 DEF LoadPage, Sends, Sent
  <2>8. UNCHANGED <<status, kept>> BY <1>3 DEF LoadPage, Sends, ledger
  <2> QED
    BY <2>2, <2>3, <2>4, <2>5, <2>6, <2>7, <2>8, TabStep, SameTab
<1> QED BY <1>1, <1>2, <1>3 DEF OpenPanel, OpenDetail

LEMMA SubmitStep ==
    ASSUME FormsInv, NEW t \in Tabs, tab[t] # None,
           NEW op, NEW asked, NEW target, NEW name,
           Submit(t, op, asked, target, name),
           Sent(op, asked, target, name) \in Request, op # "open",
           Sound(tab[t], Sent(op, asked, target, name))
    PROVE  FormsInv'
<1> USE SameTab
<1>1. sent[t] = None BY DEF Submit, Sends
<1>2. PICK m : m = Sent(op, asked, target, name) OBVIOUS
<1>3. Proper(tab[t], m) BY <1>1 DEF FormsInv, PageInv, Proper
<1> QED BY <1>2, <1>3, TabStep DEF Submit, Sends, Sent, ledger

LEMMA FormStep ==
    ASSUME FormsInv, NEW t \in Tabs,
           \/ Revert(t) \/ MarkSold(t) \/ SaveNumbers(t) \/ DeleteSale(t)
           \/ SaveDetail(t) \/ CreateSale(t)
           \/ \E name \in Recipients \union {None} : GiveAway(t, name)
    PROVE  FormsInv'
<1> USE DEF Shows, Sound, Request, Sent, Statuses
<1>0. tab[t] # None => tab[t] \in Page BY DEF FormsInv, TypeOK
<1>1. Shows(t, "panel") \/ Shows(t, "detail") =>
        tab[t].sale \in Sales /\ tab[t].shown \in Live
  BY DEF FormsInv, PageInv, Proper
<1>2. CASE Revert(t) BY <1>1, <1>2, SubmitStep DEF Revert, Live
<1>3. CASE MarkSold(t) BY <1>1, <1>3, SubmitStep DEF MarkSold, Live
<1>4. CASE SaveNumbers(t) BY <1>1, <1>4, SubmitStep DEF SaveNumbers
<1>5. CASE DeleteSale(t) BY <1>1, <1>5, SubmitStep DEF DeleteSale
<1>6. CASE CreateSale(t) BY <1>6, SubmitStep DEF CreateSale, Live
<1>7. CASE SaveDetail(t)
  <2>1. CASE tab[t].shown \in {"PENDING", "SOLD"}
    <3>1. PICK value \in {"PENDING", "SOLD"} :
            Submit(t, "update",
                   IF value = tab[t].shown THEN "NONE" ELSE value,
                   TargetOf(tab[t], value), None)
      BY <1>7, <2>1 DEF SaveDetail
    <3>2. Shows(t, "detail") BY <1>7 DEF SaveDetail
    <3>3. CASE value = tab[t].shown
      BY <1>1, <3>1, <3>2, <3>3, SubmitStep DEF TargetOf
    <3>4. CASE value # tab[t].shown
      BY <1>1, <2>1, <3>1, <3>2, <3>4, SubmitStep DEF TargetOf, Live
    <3> QED BY <3>3, <3>4
  <2>2. CASE tab[t].shown \notin {"PENDING", "SOLD"}
    BY <1>1, <1>7, <2>2, SubmitStep DEF SaveDetail
  <2> QED BY <2>1, <2>2
<1>8. ASSUME NEW name \in Recipients \union {None}, GiveAway(t, name)
      PROVE  FormsInv'
  BY <1>1, <1>8, SubmitStep DEF GiveAway, GiftOffered, Live
<1> QED BY <1>2, <1>3, <1>4, <1>5, <1>6, <1>7, <1>8

-----------------------------------------------------------------------------
(* Steps of the API.                                                       *)

(* The answer ends the request, and opens the list or leaves the page.     *)
LEMMA AnswerStep ==
    ASSUME FormsInv, NEW t \in Tabs, sent[t] # None,
           NEW ok \in BOOLEAN, Answer(t, ok),
           status' \in [Sales -> Statuses],
           kept' \in [Sales -> Statuses \union {None}]
    PROVE  FormsInv'
<1> USE SameTab
<1>1. PICK page : page = IF ok \/ sent[t].op = "open" THEN None ELSE tab[t]
  OBVIOUS
<1>2. Proper(page, None)
  BY <1>1 DEF FormsInv, PageInv, Proper
<1>3. tab' = [tab EXCEPT ![t] = page] /\ sent' = [sent EXCEPT ![t] = None]
  BY <1>1 DEF Answer
<1>4. page \in Page \union {None}
  BY <1>1
<1> QED BY <1>2, <1>3, <1>4, TabStep

(* A request that goes on, having seen and having been cleared as before,  *)
(* or now.                                                                 *)
LEMMA GoesOn ==
    ASSUME FormsInv, NEW t \in Tabs, sent[t] # None,
           NEW step \in {"loaded", "seen", "cleared", "written"},
           NEW copy \in Statuses, NEW early \in BOOLEAN,
           NEW m, m = [sent[t] EXCEPT !.step = step, !.seen = copy, !.onTime = early],
           sent' = [sent EXCEPT ![t] = m], UNCHANGED tab,
           step \in {"loaded", "seen"} => m.op \in {"open", "update"},
           step = "cleared" => Cleared(m),
           status' \in [Sales -> Statuses],
           kept' \in [Sales -> Statuses \union {None}]
    PROVE  FormsInv'
<1>1. PICK page : page = tab[t] OBVIOUS
<1>2. PICK old : old = sent[t] OBVIOUS
<1>3. /\ old \in Request /\ page \in Page /\ page # None
      /\ Sound(page, old) /\ Proper(page, old)
  BY <1>1, <1>2, SameTab DEF FormsInv, SentInv, PageInv
<1>4. /\ m \in Request /\ m.step = step
      /\ m.op = old.op /\ m.asked = old.asked
      /\ m.target = old.target /\ m.name = old.name
  BY <1>2, <1>3 DEF Request
<1>5. Sound(page, m) BY <1>3, <1>4 DEF Sound
<1>6. old # None /\ m # None BY <1>3, <1>4, FormsAssumption
<1>7. Proper(page, m) BY <1>3, <1>4, <1>6 DEF Proper
<1>8. tab' = [tab EXCEPT ![t] = page] BY <1>1, SameTab
<1> QED BY <1>3, <1>4, <1>5, <1>7, <1>8, TabStep

(* Moves of the ledger keep statuses.                                      *)
LEMMA LedgerTypes ==
    ASSUME FormsInv,
           \/ \E s \in Sales, n \in Counts : Create(s, n)
           \/ \E s \in Sales : \/ Ungift(s) \/ Remove(s) \/ Play(s)
                               \/ \E m \in Request : \E n : Update(m, s, n)
           \/ CancelPlayed
           \/ UNCHANGED ledger
    PROVE  status' \in [Sales -> Statuses]
<1> USE DEF FormsInv, TypeOK, Live, Statuses
<1>1. CASE \E s \in Sales, n \in Counts : Create(s, n) BY <1>1 DEF Create
<1>2. CASE \E s \in Sales : Ungift(s) \/ Remove(s) \/ Play(s)
  BY <1>2 DEF Ungift, Remove, Play
<1>3. ASSUME NEW s \in Sales, NEW m \in Request, NEW n, Update(m, s, n)
      PROVE  status' \in [Sales -> Statuses]
  <2>1. CASE status[s] = "GIFTED" BY <1>3, <2>1 DEF Update, Regive
  <2>2. CASE status[s] # "GIFTED" /\ m.target = "GIFTED"
    BY <1>3, <2>2 DEF Update, Give
  <2>3. CASE status[s] # "GIFTED" /\ m.target # "GIFTED"
    BY <1>3, <2>3 DEF Update, Manage, Open
  <2> QED BY <2>1, <2>2, <2>3
<1>4. CASE CancelPlayed BY <1>4 DEF CancelPlayed
<1>5. CASE UNCHANGED ledger BY <1>5 DEF ledger
<1> QED BY <1>1, <1>2, <1>3, <1>4, <1>5

(* A step of the request at t, made of its fields.                         *)
LEMMA Asked ==
    ASSUME FormsInv, NEW t \in Tabs, sent[t] # None
    PROVE  /\ sent[t] \in Request /\ tab[t] \in Page /\ tab[t] # None
           /\ Sound(tab[t], sent[t]) /\ Proper(tab[t], sent[t])
           /\ sent[t].seen \in Statuses /\ sent[t].onTime \in BOOLEAN
           /\ sent[t].op # "create" => tab[t].sale \in Sales
           /\ status \in [Sales -> Statuses]
           /\ kept \in [Sales -> Statuses \union {None}]
           /\ \A step \in {"loaded", "seen", "cleared", "written"} :
                [sent[t] EXCEPT !.step = step]
                  = [sent[t] EXCEPT !.step = step, !.seen = sent[t].seen,
                                    !.onTime = sent[t].onTime]
           /\ \A step \in {"loaded", "seen"}, copy \in Statuses :
                [sent[t] EXCEPT !.seen = copy, !.step = step]
                  = [sent[t] EXCEPT !.step = step, !.seen = copy,
                                    !.onTime = sent[t].onTime]
<1>1. /\ sent[t] \in Request /\ tab[t] \in Page /\ tab[t] # None
      /\ Sound(tab[t], sent[t]) /\ Proper(tab[t], sent[t])
  BY SameTab DEF FormsInv, SentInv, PageInv
<1>2. /\ sent[t].seen \in Statuses /\ sent[t].onTime \in BOOLEAN
      /\ sent[t].op # "create" => tab[t].sale \in Sales
  BY <1>1 DEF Sound, Request
<1> QED BY <1>1, <1>2, SameTab DEF Request

LEMMA Fields ==
    ASSUME NEW old \in Request, NEW step, NEW copy, NEW early
    PROVE  LET m == [old EXCEPT !.step = step, !.seen = copy, !.onTime = early]
           IN  /\ m.op = old.op /\ m.target = old.target
               /\ m.seen = copy /\ m.onTime = early
BY DEF Request

LEMMA ReadStep ==
    ASSUME FormsInv, NEW t \in Tabs,
           ReadKept(t) \/ ReadRow(t) \/ Store(t) \/ Draw(t)
    PROVE  FormsInv'
<1>1. sent[t] # None BY DEF ReadKept, ReadRow, Store, Draw, Reads, At
<1>2. ASSUME Reads(t), NEW copy \in Statuses, NEW step \in {"loaded", "seen"},
             Sees(t, copy, step), UNCHANGED kept
      PROVE  FormsInv'
  <2>1. PICK m : m = [sent[t] EXCEPT !.seen = copy, !.step = step] OBVIOUS
  <2>2. sent' = [sent EXCEPT ![t] = m] BY <1>2, <2>1 DEF Sees
  <2>3. m = [sent[t] EXCEPT !.step = step, !.seen = copy, !.onTime = sent[t].onTime]
    BY <1>1, <2>1, Asked
  <2>4. PICK old : old = sent[t] OBVIOUS
  <2>7. old \in Request /\ old.op \in {"open", "update"}
    BY <1>1, <1>2, <2>4, Asked DEF Reads
  <2>8. m.op = old.op BY <2>3, <2>4, <2>7, Fields
  <2>5. UNCHANGED <<status, tab, kept>> BY <1>2 DEF Sees, ledger
  <2>6. /\ status \in [Sales -> Statuses] /\ sent[t].onTime \in BOOLEAN
        /\ kept \in [Sales -> Statuses \union {None}]
    BY <1>1, Asked
  <2> QED BY <1>1, <2>2, <2>3, <2>5, <2>6, <2>7, <2>8, GoesOn
<1>3. CASE ReadKept(t)
  <2>1. kept[tab[t].sale] \in Statuses
    BY <1>1, <1>3, Asked DEF ReadKept, Reads
  <2> QED BY <1>2, <1>3, <2>1 DEF ReadKept
<1>4. CASE ReadRow(t)
  <2>1. status[tab[t].sale] \in Statuses
    BY <1>1, <1>4, Asked DEF ReadRow, Reads
  <2> QED BY <1>2, <1>4, <2>1 DEF ReadRow
<1>5. CASE Store(t)
  <2>1. PICK m : m = [sent[t] EXCEPT !.step = "seen"] OBVIOUS
  <2>2. sent' = [sent EXCEPT ![t] = m] BY <1>5, <2>1 DEF Store, Goes
  <2>3. m = [sent[t] EXCEPT !.step = "seen", !.seen = sent[t].seen,
                            !.onTime = sent[t].onTime]
    BY <1>1, <2>1, Asked
  <2>4. PICK old : old = sent[t] OBVIOUS
  <2>9. old \in Request /\ old.op \in {"open", "update"}
    BY <1>1, <1>5, <2>4, Asked DEF Store, At, Sound
  <2>10. m.op = old.op BY <2>3, <2>4, <2>9, Fields
  <2>5. kept' \in [Sales -> Statuses \union {None}]
    BY <1>1, <1>5, Asked DEF Store
  <2>6. UNCHANGED <<status, tab>> BY <1>5 DEF Store, Goes, ledger
  <2>7. status' \in [Sales -> Statuses] BY <1>1, <2>6, Asked
  <2>8. sent[t].seen \in Statuses /\ sent[t].onTime \in BOOLEAN BY <1>1, Asked
  <2> QED BY <1>1, <2>2, <2>3, <2>5, <2>6, <2>7, <2>8, <2>9, <2>10, GoesOn
<1>6. CASE Draw(t)
  <2>1. tab[t] \in Page /\ tab[t].sale \in Sales
    BY <1>1, <1>6, Asked DEF Draw, At
  <2>2. PICK page : page = [tab[t] EXCEPT !.shown = sent[t].seen,
                                          !.past = tab[t].sale \in over]
    OBVIOUS
  <2>3. (tab[t].sale \in over) \in BOOLEAN OBVIOUS
  <2>4. page \in Page /\ page.sale = tab[t].sale /\ page.shown \in Live
    BY <1>6, <2>1, <2>2, <2>3 DEF Draw, Page
  <2>5. tab' = [tab EXCEPT ![t] = page] BY <1>6, <2>2 DEF Draw
  <2>6. Proper(page, None) BY <2>1, <2>4 DEF Proper
  <2> QED BY <1>6, <2>4, <2>5, <2>6, TabStep, SameTab DEF Draw, ledger
<1> QED BY <1>3, <1>4, <1>5, <1>6

LEMMA ClearStep == ASSUME FormsInv, NEW t \in Tabs, Clear(t) PROVE FormsInv'
<1>1. sent[t] # None BY DEF Clear, At
<1>2. PICK early : early = (tab[t].sale \notin over) OBVIOUS
<1>3. PICK m : m = [sent[t] EXCEPT !.step = "cleared", !.onTime = early] OBVIOUS
<1>4. sent' = [sent EXCEPT ![t] = m] /\ UNCHANGED <<status, tab, kept>>
  BY <1>2, <1>3 DEF Clear, ledger
<1>5. early \in BOOLEAN BY <1>2
<1>6. m = [sent[t] EXCEPT !.step = "cleared", !.seen = sent[t].seen, !.onTime = early]
  BY <1>1, <1>3, Asked DEF Request
<1>7. /\ m.op = sent[t].op /\ m.seen = sent[t].seen /\ m.onTime = early
      /\ m.target = sent[t].target
  <2>1. PICK old : old = sent[t] OBVIOUS
  <2>2. old \in Request BY <1>1, <2>1, Asked
  <2> QED BY <1>6, <2>1, <2>2, Fields
<1>8. Cleared(m)
  BY <1>2, <1>7 DEF Clear, Refused, Cleared
<1> QED BY <1>1, <1>4, <1>5, <1>6, <1>8, Asked, GoesOn

LEMMA WriteStep ==
    ASSUME FormsInv, NEW t \in Tabs, WriteSale(t) \/ RemoveSale(t) \/ AddSale(t)
    PROVE  FormsInv'
<1>1. sent[t] # None BY DEF WriteSale, RemoveSale, AddSale, At
<1>2. status' \in [Sales -> Statuses] /\ UNCHANGED kept
  <2>1. CASE WriteSale(t)
    <3>1. PICK m, s : m = sent[t] /\ s = tab[t].sale OBVIOUS
    <3>2. m.op = "update" BY <1>1, <2>1, <3>1, Asked DEF WriteSale, At, Sound, Cleared
    <3>3. m \in Request /\ s \in Sales BY <1>1, <3>1, <3>2, Asked
    <3> QED BY <2>1, <3>1, <3>3, LedgerTypes DEF WriteSale
  <2>2. CASE RemoveSale(t)
    BY <1>1, <2>2, Asked, LedgerTypes DEF RemoveSale
  <2>3. CASE AddSale(t) BY <2>3, LedgerTypes DEF AddSale
  <2> QED BY <2>1, <2>2, <2>3
<1>3. CASE Goes(t, "written")
  <2>1. PICK m : m = [sent[t] EXCEPT !.step = "written"] OBVIOUS
  <2>2. sent' = [sent EXCEPT ![t] = m] /\ UNCHANGED tab BY <1>3, <2>1 DEF Goes
  <2>3. m = [sent[t] EXCEPT !.step = "written", !.seen = sent[t].seen,
                            !.onTime = sent[t].onTime]
    BY <1>1, <2>1, Asked
  <2> QED BY <1>1, <1>2, <2>2, <2>3, Asked, GoesOn
<1>4. CASE Answer(t, FALSE) BY <1>1, <1>2, <1>4, Asked, AnswerStep
<1> QED BY <1>3, <1>4 DEF WriteSale, RemoveSale, AddSale

LEMMA EndStep ==
    ASSUME FormsInv, NEW t \in Tabs, Refuse(t) \/ Fail(t) \/ Flush(t)
    PROVE  FormsInv'
<1>1. sent[t] # None BY DEF Refuse, Fail, Flush, At
<1>2. UNCHANGED status /\ kept' \in [Sales -> Statuses \union {None}]
  BY <1>1, Asked DEF Refuse, Fail, Flush, ledger
<1>3. PICK ok \in BOOLEAN : Answer(t, ok) BY DEF Refuse, Fail, Flush
<1> QED BY <1>1, <1>2, <1>3, Asked, AnswerStep

-----------------------------------------------------------------------------

(* Elsewhere and Forget touch neither pages nor requests.                  *)
LEMMA Outside ==
    ASSUME FormsInv, UNCHANGED <<tab, sent>>,
           status' \in [Sales -> Statuses],
           kept' \in [Sales -> Statuses \union {None}]
    PROVE  FormsInv'
BY DEF FormsInv, TypeOK, PageInv, SentInv

LEMMA FormsStep == FormsInv /\ [Next]_vars => FormsInv'
<1> SUFFICES ASSUME FormsInv, [Next]_vars PROVE FormsInv' OBVIOUS
<1>1. CASE Elsewhere
  <2>1. status' \in [Sales -> Statuses] BY <1>1, LedgerTypes DEF Elsewhere
  <2> QED BY <1>1, <2>1, Outside DEF Elsewhere, FormsInv, TypeOK
<1>2. CASE \E s \in Sales : Forget(s)
  BY <1>2, Outside DEF Forget, ledger, FormsInv, TypeOK
<1>3. CASE UNCHANGED vars
  BY <1>3, Outside DEF vars, ledger, FormsInv, TypeOK
<1>4. ASSUME NEW t \in Tabs,
             \/ \E s \in Sales : OpenPanel(t, s) \/ OpenDetail(t, s)
             \/ OpenNew(t) \/ Close(t)
      PROVE  FormsInv'
  BY <1>4, OpenStep
<1>5. ASSUME NEW t \in Tabs,
             \/ Revert(t) \/ MarkSold(t) \/ DeleteSale(t)
             \/ \E name \in Recipients \union {None} : GiveAway(t, name)
             \/ SaveNumbers(t) \/ SaveDetail(t) \/ CreateSale(t)
      PROVE  FormsInv'
  BY <1>5, FormStep
<1>6. ASSUME NEW t \in Tabs,
             \/ ReadKept(t) \/ ReadRow(t) \/ Store(t) \/ Draw(t)
             \/ Refuse(t) \/ Clear(t) \/ WriteSale(t) \/ RemoveSale(t)
             \/ AddSale(t) \/ Flush(t) \/ Fail(t)
      PROVE  FormsInv'
  BY <1>6, ReadStep, ClearStep, WriteStep, EndStep
<1> QED BY <1>1, <1>2, <1>3, <1>4, <1>5, <1>6 DEF Next

(* Every reachable state satisfies the inductive invariant.                *)
THEOREM FormsInvariance == Spec => []FormsInv
BY FormsInit, FormsStep, PTL DEF Spec

(* The types of the ledger, the pages, the requests and the copies.        *)
THEOREM FormsTypes == Spec => []TypeOK
<1>1. FormsInv => TypeOK BY DEF FormsInv
<1> QED BY <1>1, FormsInvariance, PTL

(* A form is refused, or kept off the row, only for one of the reasons     *)
(* RefusedOnlyWhenStale lists: as the API decides on its cached copy, one  *)
(* of them is that the copy is not the one the page was drawn from.        *)
THEOREM RefusedOnlyWhenStaleThm == Spec => []RefusedOnlyWhenStale
<1>1. ASSUME FormsInv, NEW t \in Tabs, sent[t] # None, sent[t].op = "update",
             NEW page, page = tab[t], NEW m, m = sent[t]
      PROVE  /\ m.step = "seen" /\ Refused(m, page.sale) =>
                  \/ m.seen # page.shown
                  \/ page.sale \in over /\ ~page.past
                  \/ m.target = "SOLD" /\ page.past
             /\ m.step = "cleared" /\ Blocked(m, page.sale) =>
                  status[page.sale] # m.seen
  <2>1. Sound(page, m) /\ m \in Request BY <1>1, Asked
  <2>2. page.shown \in Live BY <1>1, <2>1 DEF Sound
  <2>3. m.op = "update" BY <1>1
  <2>4. ASSUME Refused(m, page.sale), m.seen = page.shown,
               page.sale \in over => page.past, ~(m.target = "SOLD" /\ page.past)
        PROVE  FALSE
    BY <2>1, <2>2, <2>3, <2>4
       DEF Refused, Sound, LEGAL_TRANSITIONS, isKickoffGuarded, Live
  <2>5. ASSUME m.step = "cleared", Blocked(m, page.sale), status[page.sale] = m.seen
        PROVE  FALSE
    BY <2>1, <2>5
       DEF Blocked, GiftMissing, Sound, Cleared, LEGAL_TRANSITIONS, Live
  <2> QED BY <2>4, <2>5
<1>2. FormsInv => RefusedOnlyWhenStale BY <1>1 DEF RefusedOnlyWhenStale
<1> QED BY <1>2, FormsInvariance, PTL

-----------------------------------------------------------------------------
(* Who moves a sale, and where to: a request of a tab what was asked in    *)
(* it, anyone else never to SOLD or GIFTED.                                *)

Writes(t, s) ==
    /\ At(t, "cleared") /\ s = tab[t].sale /\ sent[t].op = "update"
    /\ status'[s] = sent[t].target
    /\ status'[s] = "GIFTED" => sent[t].seen # "GIFTED"

MovedBy(t, s) ==
    /\ sent[t] # None /\ \A u \in Tabs \ {t} : sent'[u] = sent[u]
    /\ \/ Writes(t, s)
       \/ sent[t].op = "delete" /\ status'[s] = "DELETED"
       \/ sent[t].op = "create" /\ status'[s] = "PENDING"

LEMMA OnlySent ==
    ASSUME FormsInv, NEW t \in Tabs, WriteSale(t) \/ RemoveSale(t) \/ AddSale(t)
    PROVE  sent[t] # None /\ \A u \in Tabs \ {t} : sent'[u] = sent[u]
BY DEF WriteSale, RemoveSale, AddSale, At, Goes, Answer, FormsInv, TypeOK

LEMMA WriteMoves ==
    ASSUME FormsInv, NEW t \in Tabs, WriteSale(t), NEW s \in Sales,
           status'[s] # status[s]
    PROVE  Writes(t, s)
<1>1. PICK m, r : m = sent[t] /\ r = tab[t].sale OBVIOUS
<1>2. /\ sent[t] # None /\ status \in [Sales -> Statuses]
      /\ m \in Request /\ m.op = "update" /\ r \in Sales
  <2>1. sent[t] # None BY DEF WriteSale, At
  <2>2. sent[t].op = "update" BY <2>1, Asked DEF WriteSale, At, Sound, Cleared
  <2> QED BY <1>1, <2>1, <2>2, Asked
<1>3. ~Blocked(m, r) /\ \E n : Update(m, r, n)
  BY <1>1 DEF WriteSale, ledger
<1>4. PICK n : Update(m, r, n) BY <1>3
<1>5. CASE status[r] = "GIFTED" BY <1>4, <1>5 DEF Update, Regive
<1>6. CASE status[r] # "GIFTED" /\ m.target = "GIFTED"
  <2>1. status' = [status EXCEPT ![r] = "GIFTED"] BY <1>4, <1>6 DEF Update, Give
  <2>2. s = r /\ status'[s] = m.target BY <1>2, <1>6, <2>1
  <2>3. m.seen # "GIFTED" BY <1>3, <1>6 DEF Blocked, GiftMissing
  <2> QED BY <1>1, <1>2, <2>2, <2>3 DEF Writes, WriteSale
<1>7. CASE status[r] # "GIFTED" /\ m.target # "GIFTED"
  <2>1. status' = [status EXCEPT ![r] = IF m.target = "NONE" THEN status[r] ELSE m.target]
    BY <1>4, <1>7 DEF Update, Manage
  <2>2. s = r /\ status'[s] = m.target BY <1>2, <2>1
  <2> QED BY <1>1, <1>2, <1>7, <2>2 DEF Writes, WriteSale
<1> QED BY <1>5, <1>6, <1>7

LEMMA Moves ==
    ASSUME FormsInv, [Next]_vars, NEW s \in Sales, status'[s] # status[s]
    PROVE  \/ \E t \in Tabs : MovedBy(t, s)
           \/ UNCHANGED sent /\ status'[s] \notin {"SOLD", "GIFTED"}
<1>1. CASE Elsewhere
  BY <1>1 DEF Elsewhere, Play, Ungift, CancelPlayed, FormsInv, TypeOK
<1>2. ASSUME NEW t \in Tabs, WriteSale(t) PROVE MovedBy(t, s)
  BY <1>2, OnlySent, WriteMoves DEF MovedBy
<1>3. ASSUME NEW t \in Tabs, RemoveSale(t) PROVE MovedBy(t, s)
  <2>1. status'[s] = "DELETED" BY <1>3 DEF RemoveSale, Remove, FormsInv, TypeOK
  <2> QED BY <1>3, <2>1, OnlySent DEF MovedBy, RemoveSale
<1>4. ASSUME NEW t \in Tabs, AddSale(t) PROVE MovedBy(t, s)
  <2>1. status'[s] = "PENDING" BY <1>4 DEF AddSale, Create, FormsInv, TypeOK
  <2> QED BY <1>4, <2>1, OnlySent DEF MovedBy, AddSale
<1>5. CASE UNCHANGED ledger BY <1>5 DEF ledger
<1> QED
  BY <1>1, <1>2, <1>3, <1>4, <1>5
     DEF Next, vars, Forget, OpenPanel, OpenDetail, LoadPage, Sends, OpenNew, Close,
         Revert, MarkSold, DeleteSale, GiveAway, SaveNumbers, SaveDetail, CreateSale,
         Submit, ReadKept, ReadRow, Sees, Store, Draw, Refuse, Clear, Flush, Fail

(* However old the page or the copy, a request moves a sale only to what   *)
(* was chosen at its page.                                                 *)
THEOREM StatusMovesAsAskedThm == Spec => StatusMovesAsAsked
<1>1. ASSUME FormsInv, [Next]_vars, NEW t \in Tabs, sent[t] # None,
             sent'[t] # sent[t], NEW s \in Sales, status'[s] # status[s]
      PROVE  status'[s] = sent[t].asked
  <2>1. PICK u \in Tabs : MovedBy(u, s) BY <1>1, Moves
  <2>2. u = t BY <1>1, <2>1 DEF MovedBy
  <2>3. Sound(tab[t], sent[t]) BY <1>1, Asked
  <2> QED BY <2>1, <2>2, <2>3 DEF MovedBy, Writes, Sound
<1>2. FormsInv /\ [Next]_vars =>
        [\A t \in Tabs : sent[t] # None /\ sent'[t] # sent[t] =>
           \A s \in Sales :
             status'[s] # status[s] => status'[s] = sent[t].asked]_vars
  BY <1>1
<1> QED BY <1>2, FormsInvariance, PTL DEF Spec, StatusMovesAsAsked

(* Once a match has been played, its sale becomes sold or gifted only by a *)
(* request the API cleared before the kickoff.                             *)
THEOREM SoldOrGivenBeforeKickoffThm == Spec => SoldOrGivenBeforeKickoff
<1>1. ASSUME FormsInv, [Next]_vars, NEW s \in Sales, status'[s] # status[s],
             status'[s] \in {"SOLD", "GIFTED"}
      PROVE  \E t \in Tabs : At(t, "cleared") /\ sent[t].onTime /\ tab[t].sale = s
  <2>1. PICK t \in Tabs : MovedBy(t, s) BY <1>1, Moves
  <2>2. Writes(t, s) /\ sent[t] # None BY <1>1, <2>1 DEF MovedBy
  <2>3. PICK m : m = sent[t] OBVIOUS
  <2>4. Cleared(m) /\ m.target \in {"SOLD", "GIFTED"}
        /\ (m.target = "GIFTED" => m.seen # "GIFTED")
    <3>1. Sound(tab[t], m) BY <1>1, <2>2, <2>3, Asked
    <3> QED BY <1>1, <2>2, <2>3, <3>1 DEF Writes, At, Sound
  <2>5. m.onTime
    BY <2>4 DEF Cleared, isKickoffGuarded, LEGAL_TRANSITIONS, Live
  <2> QED BY <2>2, <2>3, <2>5 DEF Writes
<1>2. FormsInv /\ [Next]_vars =>
        [\A s \in Sales :
           /\ s \in over
           /\ status'[s] # status[s] /\ status'[s] \in {"SOLD", "GIFTED"}
           => \E t \in Tabs :
                At(t, "cleared") /\ sent[t].onTime /\ tab[t].sale = s]_vars
  BY <1>1
<1> QED BY <1>2, FormsInvariance, PTL DEF Spec, SoldOrGivenBeforeKickoff
=============================================================================
