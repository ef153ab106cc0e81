----------------------------- MODULE SaleForms -----------------------------
(***************************************************************************)
(* The pages a user manages sales from (src/web/src/routes/(app)/sales),   *)
(* open in several browser tabs over one ledger of sales.  A page is drawn *)
(* from the sale as getOneSale answers it and offers the forms that status *)
(* calls for.  When a form arrives the API decides on what getOneSale      *)
(* answers then, and writes the row later still.  getOneSale answers from  *)
(* a cache that may keep a copy for an hour; in between, another tab, the  *)
(* kickoff, the nightly cron or the un-gift script may move the sale.      *)
(*                                                                         *)
(* A write is one step here: SaleLifecycle takes it apart and shows that   *)
(* it makes the moves of SaleLedger.  What a get does is in CacheAside.    *)
(*                                                                         *)
(* A definition named X_Y is a mutation of X, the definition after it; the *)
(* specification uses none of them.                                        *)
(*                                                                         *)
(* Bound: a page is not left while a request of it is in flight, though    *)
(* only Escape is disabled then; what a tab does after following a link,   *)
(* another tab does here.                                                  *)
(* Abstracted: prices and numbers of tickets (an edit leaves any), the     *)
(* season filter and the rows of the list, confirm() dialogs (a dismissed  *)
(* one sends nothing), sessions (Accounts has them), kickoffs that move    *)
(* (MatchSync has them).  The checks of recipients, passes and numbers may *)
(* fail a request at any time.                                             *)
(***************************************************************************)
EXTENDS SaleLedger, SaleRules

CONSTANT Tabs

VARIABLES
    tab,   \* the sale page open in each tab, None for the list of sales
    sent,  \* the request each tab is waiting for, or None
    kept   \* the cached answer of getOneSale for each sale, None if there is
           \* none: the status of the copy

vars == <<ledger, tab, sent, kept>>

Live     == {"PENDING", "SOLD", "CANCELLED", "GIFTED"}
Statuses == Live \union {"UNUSED", "DELETED"}

(* past: isPastMatch, computed when the page is drawn; a page that is      *)
(* still being loaded shows "UNUSED".                                      *)
Page == [form : {"panel", "detail", "new"}, sale : Sales \union {None},
         shown : Live \union {"UNUSED"}, past : BOOLEAN]

(* op: "open" loads a page.  asked: the status the person chose, "NONE" if *)
(* none was chosen; target: the status field of the request; seen: the     *)
(* answer of getOneSale to it; onTime: it passed the checks of the API     *)
(* before the kickoff.                                                     *)
Request == [op : {"open", "update", "delete", "create"},
            asked : Live \union {"NONE", "DELETED"},
            target : Live \union {"NONE"}, name : Recipients \union {None},
            step : {"sent", "loaded", "seen", "cleared", "written"},
            seen : Statuses, onTime : BOOLEAN]

ASSUME FormsAssumption == None \notin Page /\ None \notin Request

(* Every variable keeps its type.                                          *)
TypeOK ==
    /\ status \in [Sales -> Statuses]
    /\ tab \in [Tabs -> Page \union {None}]
    /\ sent \in [Tabs -> Request \union {None}]
    /\ kept \in [Sales -> Statuses \union {None}]

Init ==
    /\ LedgerInit
    /\ tab  \in [Tabs -> {None}]
    /\ sent \in [Tabs -> {None}]
    /\ kept \in [Sales -> {None}]

-----------------------------------------------------------------------------
(* Pages.                                                                  *)

Shows(t, form) == sent[t] = None /\ tab[t] # None /\ tab[t].form = form

Blank(form, s) == [form |-> form, sale |-> s, shown |-> "UNUSED", past |-> FALSE]

Sends(t, op, asked, target, name) ==
    /\ sent[t] = None
    /\ sent' = [sent EXCEPT ![t] =
                  [op |-> op, asked |-> asked, target |-> target,
                   name |-> name, step |-> "sent", seen |-> "UNUSED",
                   onTime |-> FALSE]]
    /\ UNCHANGED <<ledger, kept>>

(* ?edit=<sale> and /sales/<sale>, for the id of a sale there has been.    *)
LoadPage(t, form, s) ==
    /\ status[s] # "UNUSED"
    /\ tab' = [tab EXCEPT ![t] = Blank(form, s)]
    /\ Sends(t, "open", "NONE", "NONE", None)

OpenPanel(t, s)  == LoadPage(t, "panel", s)
OpenDetail(t, s) == LoadPage(t, "detail", s)

(* ?new=1 or /sales/new: the matches still to be played when it is loaded. *)
OpenNew(t) ==
    /\ sent[t] = None
    /\ tab' = [tab EXCEPT ![t] = Blank("new", None)]
    /\ UNCHANGED <<ledger, sent, kept>>

Close(t) ==
    /\ sent[t] = None /\ tab[t] # None
    /\ tab' = [tab EXCEPT ![t] = None]
    /\ UNCHANGED <<ledger, sent, kept>>

(* trackFlip, trackSubmit, trackCreate: nothing else is in flight.         *)
Submit(t, op, asked, target, name) ==
    Sends(t, op, asked, target, name) /\ UNCHANGED tab

-----------------------------------------------------------------------------
(* The edit panel of the list.                                             *)

Revert(t) ==
    /\ Shows(t, "panel") /\ tab[t].shown = "SOLD"
    /\ Submit(t, "update", "PENDING", "PENDING", None)

(* Offered after the kickoff too.                                          *)
MarkSold(t) ==
    /\ Shows(t, "panel") /\ tab[t].shown \notin {"SOLD", "GIFTED"}
    /\ Submit(t, "update", "SOLD", "SOLD", None)

GiftOffered_ToAll(page) == page.shown # "SOLD"
GiftOffered(page) ==
    page.shown = "GIFTED" \/ (page.shown = "PENDING" /\ ~page.past)

(* A gifted sale may leave its recipient as it is.                         *)
GiveAway(t, name) ==
    /\ Shows(t, "panel") /\ GiftOffered(tab[t])
    /\ name = None => tab[t].shown = "GIFTED"
    /\ Submit(t, "update", "GIFTED", "GIFTED", name)

SaveNumbers(t) ==
    /\ Shows(t, "panel")
    /\ Submit(t, "update", "NONE", "NONE", None)

DeleteSale(t) ==
    /\ Shows(t, "panel") \/ Shows(t, "detail")
    /\ Submit(t, "delete", "DELETED", "NONE", None)

(* The form of /sales/<sale>.                                              *)

(* readPayload: the select always submits a value; only one that differs   *)
(* from the status the page was loaded with is passed on.                  *)
TargetOf_Resends(page, value) == value
TargetOf(page, value) == IF value # page.shown THEN value ELSE "NONE"

(* A person who leaves the select alone has chosen no status.  A cancelled *)
(* or gifted sale has no select.                                           *)
SaveDetail(t) ==
    /\ Shows(t, "detail")
    /\ IF tab[t].shown \in {"PENDING", "SOLD"}
       THEN \E value \in {"PENDING", "SOLD"} :
              Submit(t, "update",
                     IF value = tab[t].shown THEN "NONE" ELSE value,
                     TargetOf(tab[t], value), None)
       ELSE Submit(t, "update", "NONE", "NONE", None)

CreateSale(t) ==
    /\ Shows(t, "new")
    /\ Submit(t, "create", "PENDING", "NONE", None)

-----------------------------------------------------------------------------
(* The API.                                                                *)

At(t, step) == sent[t] # None /\ sent[t].step = step

Goes(t, step) ==
    /\ sent' = [sent EXCEPT ![t].step = step]
    /\ UNCHANGED tab
Sees(t, copy, step) ==
    /\ sent' = [sent EXCEPT ![t].seen = copy, ![t].step = step]
    /\ UNCHANGED <<ledger, tab>>

(* The answer, which finds the page as it was.  Success redirects to the   *)
(* list; any error leaves the page as it was drawn, with a message, and    *)
(* opens none.                                                             *)
Answer(t, ok) ==
    /\ tab' = IF ok \/ sent[t].op = "open" THEN [tab EXCEPT ![t] = None] ELSE tab
    /\ sent' = [sent EXCEPT ![t] = None]

(* getOneSale: a hit, or a miss that reads the row and stores its copy,    *)
(* if not as a waiter that was not served in time.  Null is a copy too.    *)
Reads(t) == At(t, "sent") /\ sent[t].op \in {"open", "update"}

ReadKept(t) ==
    /\ Reads(t) /\ kept[tab[t].sale] # None
    /\ Sees(t, kept[tab[t].sale], "seen")
    /\ UNCHANGED kept

ReadRow(t) ==
    /\ Reads(t) /\ kept[tab[t].sale] = None
    /\ \E step \in {"loaded", "seen"} : Sees(t, status[tab[t].sale], step)
    /\ UNCHANGED kept

Store(t) ==
    /\ At(t, "loaded")
    /\ kept' = [kept EXCEPT ![tab[t].sale] = sent[t].seen]
    /\ Goes(t, "seen")
    /\ UNCHANGED ledger

(* The page is drawn.                                                      *)
Draw(t) ==
    /\ At(t, "seen") /\ sent[t].op = "open" /\ sent[t].seen \in Live
    /\ tab' = [tab EXCEPT ![t].shown = sent[t].seen,
                          ![t].past = tab[t].sale \in over]
    /\ sent' = [sent EXCEPT ![t] = None]
    /\ UNCHANGED <<ledger, kept>>

(* 404 and the checks of UpdateSaleUsecase.execute, on the copy.           *)
Refused(m, s) ==
    m.seen \in Live =>
      \/ m.target # "NONE" /\ m.target \notin LEGAL_TRANSITIONS[m.seen]
      \/ isKickoffGuarded(m.seen, m.target) /\ s \in over
      \/ m.target = "GIFTED" /\ m.seen # "GIFTED" /\ m.name = None

Refuse(t) ==
    /\ At(t, "seen") /\ Refused(sent[t], tab[t].sale)
    /\ Answer(t, FALSE)
    /\ UNCHANGED <<ledger, kept>>

Clear(t) ==
    /\ At(t, "seen") /\ sent[t].op = "update"
    /\ ~Refused(sent[t], tab[t].sale)
    /\ sent' = [sent EXCEPT ![t].step = "cleared",
                            ![t].onTime = tab[t].sale \notin over]
    /\ UNCHANGED <<ledger, tab, kept>>

(* What keeps a write off the row: it is gone, its status is pinned by a   *)
(* gift, it has a gift already, or none to be updated.                     *)
GiftMissing_Upserted(m, s) == FALSE
GiftMissing(m, s) ==
    m.target = "GIFTED" /\ m.seen = "GIFTED" /\ status[s] # "GIFTED"
Blocked(m, s) ==
    \/ status[s] \notin Live
    \/ m.target \in {"PENDING", "SOLD"} /\ status[s] = "GIFTED"
    \/ m.target = "GIFTED" /\ m.seen # "GIFTED" /\ status[s] = "GIFTED"
    \/ GiftMissing(m, s)

Update(m, s, n) ==
    CASE status[s] = "GIFTED" ->
           Regive(s, IF m.name = None THEN holder[s] ELSE m.name, n)
      [] status[s] # "GIFTED" /\ m.target = "GIFTED" -> Give(s, m.name, n)
      [] OTHER ->
           Manage(s, IF m.target = "NONE" THEN status[s] ELSE m.target, n)

WriteSale(t) ==
    LET s == tab[t].sale
    IN  /\ At(t, "cleared")
        /\ \/ /\ Blocked(sent[t], s) /\ Answer(t, FALSE)
              /\ UNCHANGED ledger
           \/ /\ ~Blocked(sent[t], s) /\ Goes(t, "written")
              /\ \E n \in Counts \union {tickets[s]} : Update(sent[t], s, n)
        /\ UNCHANGED kept

(* Deletion reads the row itself.  A new sale takes a fresh id; bound:     *)
(* with none left, creation fails.                                         *)
RemoveSale(t) ==
    /\ At(t, "sent") /\ sent[t].op = "delete"
    /\ Remove(tab[t].sale)
    /\ Goes(t, "written")
    /\ UNCHANGED kept

AddSale(t) ==
    /\ At(t, "sent") /\ sent[t].op = "create"
    /\ \E s \in Sales, n \in Counts : Create(s, n)
    /\ Goes(t, "written")
    /\ UNCHANGED kept

(* The flush of the copies of the user, and others after it that may fail. *)
Flush(t) ==
    /\ At(t, "written")
    /\ kept' = [s \in Sales |-> None]
    /\ \E ok \in BOOLEAN : Answer(t, ok)
    /\ UNCHANGED ledger

(* Anything else that goes wrong, the flush or the answer of what was      *)
(* written included.                                                       *)
Fail(t) == sent[t] # None /\ Answer(t, FALSE) /\ UNCHANGED <<ledger, kept>>

-----------------------------------------------------------------------------

(* The kickoff, the cron, scripts/ungift-sale.ts.                          *)
Elsewhere ==
    /\ \/ \E s \in Sales : (s \notin over /\ Play(s)) \/ Ungift(s)
       \/ CancelPlayed
    /\ UNCHANGED <<tab, sent, kept>>

(* Their flushes, if they are not lost, and the end of the hour.           *)
Forget(s) ==
    /\ kept[s] # None
    /\ kept' = [kept EXCEPT ![s] = None]
    /\ UNCHANGED <<ledger, tab, sent>>

Next ==
    \/ \E t \in Tabs :
         \/ \E s \in Sales : OpenPanel(t, s) \/ OpenDetail(t, s)
         \/ OpenNew(t) \/ Close(t)
         \/ Revert(t) \/ MarkSold(t) \/ DeleteSale(t)
         \/ \E name \in Recipients \union {None} : GiveAway(t, name)
         \/ SaveNumbers(t) \/ SaveDetail(t) \/ CreateSale(t)
         \/ ReadKept(t) \/ ReadRow(t) \/ Store(t) \/ Draw(t)
         \/ Refuse(t) \/ Clear(t) \/ WriteSale(t) \/ RemoveSale(t)
         \/ AddSale(t) \/ Flush(t) \/ Fail(t)
    \/ Elsewhere
    \/ \E s \in Sales : Forget(s)

Spec == Init /\ [][Next]_vars

-----------------------------------------------------------------------------
(* Properties.                                                             *)

(* A request a page sends moves the status of a sale only to what the      *)
(* person at the page chose, however old the page or the API's copy:       *)
(* saving a price in a tab opened before the sale was sold, gifted or      *)
(* cancelled elsewhere does not undo that.                                 *)
StatusMovesAsAsked ==
    [][\A t \in Tabs : sent[t] # None /\ sent'[t] # sent[t] =>
         \A s \in Sales :
           status'[s] # status[s] => status'[s] = sent[t].asked]_vars

(* A form is refused only if the copy the API decides on is not the one    *)
(* its page was drawn from, if the match was played since, or if it marks  *)
(* the sale of a match sold that had been played: the pages offer that     *)
(* although the API refuses it.  One that was not refused is kept off the  *)
(* row only if the row is not what the API saw.                            *)
RefusedOnlyWhenStale ==
    \A t \in Tabs : sent[t] # None /\ sent[t].op = "update" =>
      LET page == tab[t]
          m    == sent[t]
      IN  /\ m.step = "seen" /\ Refused(m, page.sale) =>
               \/ m.seen # page.shown
               \/ page.sale \in over /\ ~page.past
               \/ m.target = "SOLD" /\ page.past
          /\ m.step = "cleared" /\ Blocked(m, page.sale) =>
               status[page.sale] # m.seen

(* "Selling and giving a ticket away are both decisions taken before the   *)
(* match" (update-sale.usecase.ts:292): once the match has been played, a  *)
(* sale becomes sold or gifted only by a request that was cleared before.  *)
(* GIFTED on a gift is not guarded, and the copy that shows a gift may be  *)
(* older than its undoing.                                                 *)
SoldOrGivenBeforeKickoff ==
    [][\A s \in Sales :
         /\ s \in over
         /\ status'[s] # status[s] /\ status'[s] \in {"SOLD", "GIFTED"}
         => \E t \in Tabs :
              At(t, "cleared") /\ sent[t].onTime /\ tab[t].sale = s]_vars
=============================================================================
