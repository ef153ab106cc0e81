---------------------------- MODULE SalesImport -----------------------------
(***************************************************************************)
(* The CSV import from end to end: the wizard in the browser, the preview, *)
(* the commit of a batch and its revert in the API, and the rows they      *)
(* leave.  Around them matches are added, season passes removed, imported  *)
(* sales edited and deleted, and answers are lost.                         *)
(*                                                                         *)
(* One user and one tab.  An answer that comes after its component was     *)
(* unmounted is ignored by it, but not by the database.  An X_Y before an  *)
(* X is a mutation of X that tests the properties.                         *)
(***************************************************************************)
EXTENDS ImportRows

CONSTANTS
    Batches,    \* bound: the commits the API receives, numbered from 1
    Files,      \* CSV files the user has, as sequences of raw rows
    Published,  \* fixtures that are in the database from the start
    CellValues, \* bound: what an edit may put into a cell, per field
    Touched,    \* bound: imported sales that are edited or deleted
    Removable,  \* bound: passes the user tries to remove
    MaxRows,    \* bound: rows of a draft
    MaxEdits,   \* bound: edits of one draft
    MaxDrafts,  \* bound: previews that are answered
    NoFile, NoBatch

Fields == DOMAIN CellType

ASSUME ImportAssumption ==
    /\ Published \subseteq Fixtures
    /\ NoFile \notin Files
    /\ \A f \in Files : f \in Seq(RawRow) /\ Len(f) <= MaxRows
    /\ \A f \in Fields : CellValues[f] \subseteq CellType[f]
    /\ Batches \subseteq Nat /\ NoBatch \notin Batches
    /\ MaxRows \in Nat

VARIABLES
    (* the database *)
    matches,   \* home matches
    passes,    \* season passes
    counted,   \* passes whose allocations were counted before removal
    sales,     \* imported sales, [batch, row] -> sale
    edited,    \* sales with a row in sale_histories
    (* the wizard *)
    open,      \* the dialog
    step,      \* "passes", "upload" or "draft"
    selected,  \* selectedPassIds
    file,
    upload,    \* the preview under way, or NoFile
    uploadSel, \* the passes it was sent with
    (* the draft of the wizard *)
    draft,     \* which draft is mounted, 0 before the first
    rows,      \* its rows
    missing,   \* missingMatches
    edits,     \* edits made to it
    previewed, \* passes and matches its preview was made of
    loading,   \* "no", "commit" or "revert"
    result,    \* commitResult: a batch, or NoBatch
    (* requests, one per batch *)
    commit,    \* step of POST commit
    payload,   \* what it was sent: passes and rows
    sender,    \* the draft that sent it
    revert,    \* step of DELETE
    covered    \* rows whose history the revert has deleted

database == <<matches, passes, counted, sales, edited>>
modal    == <<open, step, selected, file, upload, uploadSel>>
table    == <<draft, rows, missing, edits, previewed>>
panel    == <<loading, result>>
requests == <<commit, payload, sender, revert, covered>>
vars     == <<database, modal, table, panel, requests>>

Ids == Batches \X (1 .. MaxRows)
SalesOf(b) == {id \in DOMAIN sales : id[1] = b}

WithoutAt(s, k) == [j \in 1 .. Len(s) - 1 |-> s[IF j < k THEN j ELSE j + 1]]

(* The home matches of the one season of the passes.                       *)
Seasons(sel) == {SeasonOf[p] : p \in Range(sel)}
HomeFor(sel) == {m \in matches : Seasons(sel) = {m.season}}

NoRows == <<>>
Idle   == [sel |-> <<>>, rows |-> NoRows]

Init ==
    /\ matches   = Published
    /\ passes    = Passes
    /\ counted   = {}
    /\ sales     = <<>>
    /\ edited    = {}
    /\ open      = FALSE
    /\ step      = "passes"
    /\ selected  = <<>>
    /\ file      = NoFile
    /\ upload    = NoFile
    /\ uploadSel = <<>>
    /\ draft     = 0
    /\ rows      = NoRows
    /\ missing   = {}
    /\ edits     = 0
    /\ previewed = [sel |-> <<>>, home |-> {}]
    /\ loading   = "no"
    /\ result    = NoBatch
    /\ commit    = [b \in Batches |-> "unsent"]
    /\ payload   = [b \in Batches |-> Idle]
    /\ sender    = [b \in Batches |-> 0]
    /\ revert    = [b \in Batches |-> "unsent"]
    /\ covered   = [b \in Batches |-> {}]

-----------------------------------------------------------------------------
(* The dialog (ImportSalesModal).                                          *)

(* The draft is a component of its own: leaving the step unmounts it.      *)
UnmountDraft ==
    /\ rows'      = NoRows
    /\ missing'   = {}
    /\ edits'     = 0
    /\ previewed' = [sel |-> <<>>, home |-> {}]
    /\ loading'   = "no"
    /\ result'    = NoBatch
    /\ draft'     = draft

OpenDialog ==
    /\ ~open
    /\ open' = TRUE
    /\ UNCHANGED <<database, step, selected, file, upload, uploadSel,
                   table, panel, requests>>

(* handleClose, and handleCommitted of "Done": reset, which knows nothing  *)
(* of a preview under way.                                                 *)
Close ==
    /\ open
    /\ open'     = FALSE
    /\ step'     = "passes"
    /\ selected' = <<>>
    /\ file'     = NoFile
    /\ UnmountDraft
    /\ UNCHANGED <<database, upload, uploadSel, requests>>

TogglePass(p) ==
    /\ open /\ step = "passes" /\ draft < MaxDrafts
    /\ \/ \E k \in DOMAIN selected :
            selected[k] = p /\ selected' = WithoutAt(selected, k)
       \/ p \notin Range(selected) /\ selected' = Append(selected, p)
    /\ UNCHANGED <<database, open, step, file, upload, uploadSel,
                   table, panel, requests>>

PassesChosen ==
    /\ open /\ step = "passes"
    /\ Cardinality(Seasons(selected)) = 1
    /\ step' = "upload"
    /\ UNCHANGED <<database, open, selected, file, upload, uploadSel,
                   table, panel, requests>>

BackToPasses ==
    /\ open /\ step = "upload"
    /\ step' = "passes"
    /\ UNCHANGED <<database, open, selected, file, upload, uploadSel,
                   table, panel, requests>>

ChooseFile(f) ==
    /\ open /\ step = "upload" /\ draft < MaxDrafts
    /\ file' = f
    /\ UNCHANGED <<database, open, step, selected, upload, uploadSel,
                   table, panel, requests>>

SubmitUpload ==
    /\ open /\ step = "upload"
    /\ file # NoFile /\ upload = NoFile /\ draft < MaxDrafts
    /\ upload'    = file
    /\ uploadSel' = selected
    /\ UNCHANGED <<database, open, step, selected, file, table, panel,
                   requests>>

(* POST preview.  Its answer sets the draft and the step, whatever the     *)
(* user did meanwhile.                                                     *)
PreviewAnswered ==
    LET home == HomeFor(uploadSel)
    IN  /\ upload # NoFile
        /\ rows'      = [i \in DOMAIN upload |->
                           ResolveDraftRow(upload[i], home, uploadSel)]
        /\ missing'   = MissingMatches(rows', home)
        /\ previewed' = [sel |-> uploadSel, home |-> home]
        /\ edits'     = 0
        /\ draft'     = draft + 1
        /\ loading'   = "no"
        /\ result'    = NoBatch
        /\ step'      = "draft"
        /\ upload'    = NoFile
        /\ uploadSel' = <<>>
        /\ UNCHANGED <<database, open, selected, file, requests>>

(* A bad file, a pass that is gone, a lost answer.                         *)
PreviewFails ==
    /\ upload # NoFile
    /\ upload'    = NoFile
    /\ uploadSel' = <<>>
    /\ UNCHANGED <<database, open, step, selected, file, table, panel,
                   requests>>

-----------------------------------------------------------------------------
(* The draft (ImportSalesDraft).                                           *)

Editing == open /\ step = "draft" /\ result = NoBatch

(* The only rule the client checks; whatever the server had said is gone.  *)
ResolveRowStatus(row) ==
    [row EXCEPT !.rowStatus = GiftRecipientStatus(row.raw)]

(* The recipient and the date are disabled for statuses without them.      *)
Disabled(raw, f) ==
    \/ f = "recipient" /\ raw.status # "GIFTED"
    \/ f = "soldAt" /\ raw.status \notin {"SOLD", "GIFTED"}

UpdateRow(i, f, v) ==
    /\ Editing /\ edits < MaxEdits
    /\ i \in DOMAIN rows
    /\ ~Disabled(rows[i].raw, f)
    /\ rows[i].raw[f] # v
    /\ rows' = [rows EXCEPT ![i] =
                  ResolveRowStatus([rows[i] EXCEPT !.raw[f] = v])]
    /\ edits' = edits + 1
    /\ UNCHANGED <<database, modal, draft, missing, previewed, panel,
                   requests>>

(* There is an input for each selected pass only.                          *)
UpdateAllocation(i, p, n) ==
    /\ Editing /\ edits < MaxEdits
    /\ i \in DOMAIN rows /\ p \in Range(selected)
    /\ rows[i].alloc[p] # n
    /\ rows' = [rows EXCEPT ![i] =
                  ResolveRowStatus([rows[i] EXCEPT !.alloc[p] = n])]
    /\ edits' = edits + 1
    /\ UNCHANGED <<database, modal, draft, missing, previewed, panel,
                   requests>>

DeleteRow(i) ==
    /\ Editing /\ edits < MaxEdits
    /\ i \in DOMAIN rows
    /\ rows' = WithoutAt(rows, i)
    /\ edits' = edits + 1
    /\ UNCHANGED <<database, modal, draft, missing, previewed, panel,
                   requests>>

AddRow(m) ==
    /\ Editing /\ edits < MaxEdits
    /\ m \in missing /\ Len(rows) < MaxRows
    /\ rows' = Append(rows,
         [raw   |-> [date |-> m.date, opponent |-> m.opponent, tickets |-> 1,
                     status |-> "PENDING", soldAt |-> NoDay,
                     recipient |-> FALSE, cells |-> TRUE],
          match |-> m,
          alloc |-> IF selected = <<>> THEN Unallocated
                                       ELSE AllTo(Head(selected), 1),
          rowStatus |-> "ok"])
    /\ missing' = missing \ {m}
    /\ edits' = edits + 1
    /\ UNCHANGED <<database, modal, draft, previewed, panel, requests>>

(* onCancel: back to the upload step.                                      *)
BackToUpload ==
    /\ Editing
    /\ step' = "upload"
    /\ UnmountDraft
    /\ UNCHANGED <<database, open, selected, file, upload, uploadSel,
                   requests>>

CanValidate ==
    /\ rows # NoRows
    /\ \A i \in DOMAIN rows : rows[i].rowStatus \notin Errors
    /\ loading = "no"

(* validate: the rows and the selection as they are now.                   *)
Send(b) ==
    /\ b \in Batches
    /\ commit[b] = "unsent"
    /\ \A c \in Batches : c < b => commit[c] # "unsent"
    /\ commit'  = [commit EXCEPT ![b] = "sent"]
    /\ payload' = [payload EXCEPT ![b] = [sel |-> selected, rows |-> rows]]
    /\ sender'  = [sender EXCEPT ![b] = draft]
    /\ loading' = "commit"
    /\ UNCHANGED <<database, modal, table, result, revert, covered>>

Validate_Twice ==
    /\ Editing /\ rows # NoRows
    /\ \A i \in DOMAIN rows : rows[i].rowStatus \notin Errors
    /\ \E b \in Batches : Send(b)
Validate ==
    /\ Editing /\ CanValidate
    /\ \E b \in Batches : Send(b)

(* undo                                                                    *)
Undo ==
    /\ open /\ step = "draft" /\ result # NoBatch /\ loading = "no"
    /\ revert'  = [revert EXCEPT ![result] = "sent"]
    /\ loading' = "revert"
    /\ UNCHANGED <<database, modal, table, result, commit, payload, sender,
                   covered>>

-----------------------------------------------------------------------------
(* POST commit (CommitSalesImportUsecase).  After each step the answer may *)
(* be an error, or never come.                                             *)

(* What the draft makes of the answer, if it is still there.               *)
Answer(b, res) ==
    IF draft = sender[b] /\ step = "draft" /\ loading = "commit"
    THEN loading' = "no" /\ result' = res
    ELSE UNCHANGED panel

Refuse(b) ==
    /\ commit' = [commit EXCEPT ![b] = "refused"]
    /\ Answer(b, NoBatch)
    /\ UNCHANGED <<database, modal, table, payload, sender, revert, covered>>

(* The request's types, with a status that exists.                         *)
WellTyped(sent) ==
    /\ sent.sel # <<>>
    /\ \A i \in DOMAIN sent.rows :
         /\ ~IsInvalidRow(sent.rows[i].raw)
         /\ sent.rows[i].raw.status \in SALE_ROW_STATUSES

(* ImportPassesValidator, which may be told of a pass that is gone by a    *)
(* cache of an hour; then the home matches, from the database.             *)
Validated(b) ==
    LET home == HomeFor(payload[b].sel)
    IN  [i \in DOMAIN payload[b].rows |->
           ValidateCommitRow(payload[b].rows[i], home, payload[b].sel)]

ValidateBatch(b) ==
    /\ commit[b] = "sent"
    /\ WellTyped(payload[b])
    /\ Cardinality(Seasons(payload[b].sel)) = 1
    /\ \A i \in DOMAIN payload[b].rows :
         Validated(b)[i].rowStatus \notin Errors
    /\ commit'  = [commit EXCEPT ![b] = "valid"]
    /\ payload' = [payload EXCEPT ![b].rows = Validated(b)]
    /\ UNCHANGED <<database, modal, table, panel, sender, revert, covered>>

RefuseBatch(b) ==
    /\ commit[b] = "sent"
    /\ \/ ~WellTyped(payload[b])
       \/ Cardinality(Seasons(payload[b].sel)) # 1
       \/ Range(payload[b].sel) \ passes # {}
       \/ \E i \in DOMAIN payload[b].rows :
            Validated(b)[i].rowStatus \in Errors
    /\ Refuse(b)

(* bulkCreate: one transaction, refused by the foreign key of allocations  *)
(* when a pass is gone.                                                    *)
BulkCreate(b) ==
    /\ commit[b] = "valid"
    /\ \A i \in DOMAIN payload[b].rows :
         PassesOf(payload[b].rows[i].alloc) \subseteq passes
    /\ LET ids == {<<b, j>> : j \in DOMAIN payload[b].rows}
       IN  sales' = [id \in DOMAIN sales \union ids |->
                       IF id \in ids THEN SaleOf(payload[b].rows[id[2]])
                                     ELSE sales[id]]
    /\ commit' = [commit EXCEPT ![b] = "created"]
    /\ UNCHANGED <<matches, passes, counted, edited, modal, table, panel,
                   payload, sender, revert, covered>>

(* The transaction fails or the process dies: nothing of it stays.         *)
CommitFails(b) ==
    /\ commit[b] \in {"sent", "valid"}
    /\ Refuse(b)

(* The caches are flushed, without a failure of Redis being told.          *)
CommitAnswered(b) ==
    /\ commit[b] = "created"
    /\ commit' = [commit EXCEPT ![b] = "answered"]
    /\ Answer(b, b)
    /\ UNCHANGED <<database, modal, table, payload, sender, revert, covered>>

(* The batch is there, and the client hears of an error.                   *)
CommitAnswerLost(b) ==
    /\ commit[b] = "created"
    /\ commit' = [commit EXCEPT ![b] = "lost"]
    /\ Answer(b, NoBatch)
    /\ UNCHANGED <<database, modal, table, payload, sender, revert, covered>>

-----------------------------------------------------------------------------
(* DELETE :batchId (deleteBatch), for the wizard that shows the batch.     *)

RevertAnswer_NoFinally(b, stepTo, res) ==
    /\ revert' = [revert EXCEPT ![b] = stepTo]
    /\ IF result = b /\ loading = "revert" /\ res = NoBatch
       THEN loading' = "no" /\ result' = res
       ELSE UNCHANGED panel
    /\ UNCHANGED <<modal, table, commit, payload, sender>>
RevertAnswer(b, stepTo, res) ==
    /\ revert' = [revert EXCEPT ![b] = stepTo]
    /\ IF result = b /\ loading = "revert"
       THEN loading' = "no" /\ result' = res
       ELSE UNCHANGED panel
    /\ UNCHANGED <<modal, table, commit, payload, sender>>

(* The sales are read before the transaction; none of them is answered 0.  *)
FindTargets(b) ==
    /\ revert[b] = "sent" /\ SalesOf(b) # {}
    /\ revert' = [revert EXCEPT ![b] = "found"]
    /\ UNCHANGED <<database, modal, table, panel, commit, payload, sender,
                   covered>>

NothingToRevert(b) ==
    /\ revert[b] = "sent" /\ SalesOf(b) = {}
    /\ RevertAnswer(b, "done", NoBatch)
    /\ UNCHANGED <<database, covered>>

(* Gifts, histories and allocations go first, as far as they are there.    *)
DeleteHistories(b) ==
    /\ revert[b] = "found"
    /\ revert'  = [revert EXCEPT ![b] = "deleting"]
    /\ covered' = [covered EXCEPT ![b] = SalesOf(b) \intersect edited]
    /\ UNCHANGED <<database, modal, table, panel, commit, payload, sender>>

Without(gone) ==
    /\ sales'  = Restrict(sales, DOMAIN sales \ gone)
    /\ edited' = edited \ gone
    /\ UNCHANGED <<matches, passes, counted>>

(* Then the sales, unless one has a history row written since.             *)
DeleteSales(b) ==
    /\ revert[b] = "deleting"
    /\ SalesOf(b) \intersect edited \subseteq covered[b]
    /\ Without(SalesOf(b))
    /\ RevertAnswer(b, "done", NoBatch)
    /\ covered' = [covered EXCEPT ![b] = {}]

(* P2003, a lost connection, or an answer lost after the commit.           *)
RevertFails_AsReverted(b) ==
    /\ revert[b] \in {"sent", "found", "deleting"}
    /\ RevertAnswer(b, "done", NoBatch)
    /\ covered' = [covered EXCEPT ![b] = {}]
    /\ UNCHANGED database
RevertFails(b) ==
    /\ revert[b] \in {"sent", "found", "deleting"}
    /\ RevertAnswer(b, "failed", b)
    /\ covered' = [covered EXCEPT ![b] = {}]
    /\ \/ UNCHANGED database
       \/ /\ revert[b] = "deleting"
          /\ SalesOf(b) \intersect edited \subseteq covered[b]
          /\ Without(SalesOf(b))

-----------------------------------------------------------------------------
(* Everybody else.                                                         *)

(* A sync or the administrator adds a home match.                          *)
AddMatch(m) ==
    /\ m \in Fixtures \ matches
    /\ matches' = matches \union {m}
    /\ UNCHANGED <<passes, counted, sales, edited, modal, table, panel,
                   requests>>

(* Any update of a sale inserts a history row.                             *)
EditSale(id) ==
    /\ id \in DOMAIN sales \ edited
    /\ edited' = edited \union {id}
    /\ UNCHANGED <<matches, passes, counted, sales, modal, table, panel,
                   requests>>

DeleteSale(id) ==
    /\ id \in DOMAIN sales
    /\ Without({id})
    /\ UNCHANGED <<modal, table, panel, requests>>

(* SeasonPassesService.remove: the allocations are counted, then the pass  *)
(* is deleted; the foreign key restricts that.                             *)
InUse(p) == \E id \in DOMAIN sales : p \in PassesOf(sales[id].alloc)

CountAllocations(p) ==
    /\ p \in (Removable \intersect passes) \ counted
    /\ ~InUse(p)
    /\ counted' = counted \union {p}
    /\ UNCHANGED <<matches, passes, sales, edited, modal, table, panel,
                   requests>>

RemovePass_NoForeignKey(p) ==
    /\ p \in counted
    /\ counted' = counted \ {p}
    /\ passes'  = passes \ {p}
    /\ UNCHANGED <<matches, sales, edited, modal, table, panel, requests>>
RemovePass(p) ==
    /\ p \in counted
    /\ counted' = counted \ {p}
    /\ passes'  = IF InUse(p) THEN passes ELSE passes \ {p}
    /\ UNCHANGED <<matches, sales, edited, modal, table, panel, requests>>

-----------------------------------------------------------------------------

WizardNext ==
    \/ OpenDialog \/ Close \/ PassesChosen \/ BackToPasses \/ SubmitUpload
    \/ BackToUpload \/ Validate \/ Undo
    \/ \E p \in Passes : TogglePass(p)
    \/ \E f \in Files : ChooseFile(f)
    \/ \E i \in 1 .. MaxRows :
         \/ DeleteRow(i)
         \/ \E f \in Fields : \E v \in CellValues[f] : UpdateRow(i, f, v)
         \/ \E p \in Passes, n \in 0 .. MaxTickets : UpdateAllocation(i, p, n)
    \/ \E m \in Fixtures : AddRow(m)

PreviewNext == PreviewAnswered \/ PreviewFails

RequestNext(b) ==
    \/ ValidateBatch(b) \/ RefuseBatch(b) \/ BulkCreate(b) \/ CommitFails(b)
    \/ CommitAnswered(b) \/ CommitAnswerLost(b)
    \/ FindTargets(b) \/ NothingToRevert(b) \/ DeleteHistories(b)
    \/ DeleteSales(b) \/ RevertFails(b)

OthersNext ==
    \/ \E m \in Fixtures : AddMatch(m)
    \/ \E id \in Touched : EditSale(id) \/ DeleteSale(id)
    \/ \E p \in Passes : CountAllocations(p) \/ RemovePass(p)

Next ==
    \/ WizardNext \/ PreviewNext \/ OthersNext
    \/ \E b \in Batches : RequestNext(b)

Spec == Init /\ [][Next]_vars

(* Requests are answered or fail; users need not do anything.              *)
FairSpec ==
    /\ Spec
    /\ WF_vars(PreviewNext)
    /\ \A b \in Batches : WF_vars(RequestNext(b))

-----------------------------------------------------------------------------
(* Properties.                                                             *)

Row == [raw : RawRow, match : Fixtures \union {NoMatch},
        alloc : [Passes -> 0 .. MaxTickets], rowStatus : RowStatuses]
IsTable(r) == r \in Seq(Row) /\ Len(r) <= MaxRows

(* Every variable keeps its type.                                          *)
TypeOK ==
    /\ matches \subseteq Fixtures
    /\ passes \subseteq Passes /\ counted \subseteq Passes
    /\ DOMAIN sales \subseteq Ids /\ edited \subseteq DOMAIN sales
    /\ open \in BOOLEAN
    /\ step \in {"passes", "upload", "draft"}
    /\ selected \in Seq(Passes) /\ uploadSel \in Seq(Passes)
    /\ file \in Files \union {NoFile}
    /\ upload \in Files \union {NoFile}
    /\ draft \in Nat /\ edits \in Nat
    /\ IsTable(rows)
    /\ missing \subseteq Fixtures
    /\ loading \in {"no", "commit", "revert"}
    /\ result \in Batches \union {NoBatch}
    /\ commit \in [Batches -> {"unsent", "sent", "valid", "created",
                               "answered", "lost", "refused"}]
    /\ revert \in [Batches -> {"unsent", "sent", "found", "deleting", "done",
                               "failed"}]
    /\ sender \in [Batches -> Nat]
    /\ covered \in [Batches -> SUBSET Ids]
    /\ payload \in [Batches -> [sel : Seq(Passes), rows : Seq(Row)]]
    /\ \A b \in Batches : IsTable(payload[b].rows)

(* "it must be identical here and in validateCommitRows, or a preview and  *)
(* its commit disagree on which error a ... row shows" (resolver.ts:101):  *)
(* while nothing was edited, selected or added since the preview, a commit *)
(* finds the error the draft shows, and no other.                          *)
PreviewPredictsCommit ==
    step = "draft" /\ edits = 0 /\ selected = previewed.sel
    /\ previewed.home = HomeFor(selected)
    => \A i \in DOMAIN rows :
         OnlyError(rows[i].rowStatus) =
           OnlyError(ValidateCommitRow(rows[i], previewed.home,
                                       selected).rowStatus)

(* One ticket per allocation, to passes of the season of the match; sold   *)
(* or given away, if at all, by its day.                                   *)
SoundSale(s) ==
    /\ s.match \in matches
    /\ PassesOf(s.alloc) # {} /\ Allocated(s.alloc) = s.tickets
    /\ \A p \in PassesOf(s.alloc) : SeasonOf[p] = s.match.season
    /\ s.gift # NoDay <=> s.status = "GIFTED"
    /\ \A day \in {s.soldAt, s.gift} \ {NoDay} : day <= s.match.date

(* Whatever the client edits, and whichever answers reach it late, what is *)
(* imported is a sound sale.                                               *)
ImportedSalesAreSound == \A id \in DOMAIN sales : SoundSale(sales[id])

(* A pass is never removed from under the tickets allocated to it, when    *)
(* the sale comes between the count and the removal included.              *)
PassesInUseStay ==
    \A id \in DOMAIN sales : PassesOf(sales[id].alloc) \subseteq passes

(* A draft is imported once, unless the answer of a commit was lost: its   *)
(* user must undo before they can validate again.                          *)
OneBatchPerDraft ==
    \A b, c \in Batches :
      /\ sender[b] = sender[c] /\ SalesOf(b) # {} /\ SalesOf(c) # {}
      /\ commit[b] # "lost" /\ commit[c] # "lost"
      => b = c

(* "Import reverted": nothing of the batch is left, what others did to its *)
(* sales meanwhile included.                                               *)
UndoneIsGone == \A b \in Batches : revert[b] = "done" => SalesOf(b) = {}

(* A button that shows a spinner comes back.                               *)
ButtonsComeBack ==
    /\ upload # NoFile ~> upload = NoFile
    /\ loading # "no" ~> loading = "no"

-----------------------------------------------------------------------------
(* The inductive invariant: which answer each batch still waits for, and   *)
(* what keeps a draft from being sent again until that answer is there.    *)

UnderWay(b) == commit[b] \in {"sent", "valid", "created"}
(* Nothing of the batch will be there, or its answer was lost.             *)
Spent(b) ==
    commit[b] \in {"refused", "lost"} \/ (commit[b] = "answered" /\ SalesOf(b) = {})

BatchInv ==
    /\ \A b \in Batches :
         /\ sender[b] <= draft
         /\ commit[b] \in {"unsent", "sent", "valid", "refused"} => SalesOf(b) = {}
         /\ revert[b] # "unsent" => commit[b] = "answered"
    /\ result # NoBatch => commit[result] = "answered"

(* The mounted draft waits for the answer of its batch, or shows it.       *)
MountedInv ==
    \A b \in Batches :
      step = "draft" /\ sender[b] = draft /\ commit[b] # "unsent" =>
        \/ Spent(b)
        \/ UnderWay(b) /\ loading = "commit"
        \/ commit[b] = "answered" /\ result = b

SenderInv ==
    \A b, c \in Batches :
      /\ b # c /\ sender[b] = sender[c]
      /\ commit[b] # "unsent" /\ commit[c] # "unsent"
      => Spent(b) \/ Spent(c)

PayloadInv ==
    \A b \in Batches :
      commit[b] = "valid" =>
        \A i \in DOMAIN payload[b].rows : SoundSale(SaleOf(payload[b].rows[i]))

(* Before the first edit, the draft is what the preview has made of it.    *)
DraftInv ==
    /\ previewed.home \subseteq Fixtures /\ previewed.sel \in Seq(Passes)
    /\ edits = 0 =>
         \A i \in DOMAIN rows :
           rows[i] = ResolveDraftRow(rows[i].raw, previewed.home, previewed.sel)

ImportInv ==
    /\ TypeOK /\ BatchInv /\ MountedInv /\ SenderInv /\ DraftInv /\ PayloadInv
    /\ ImportedSalesAreSound /\ PassesInUseStay /\ UndoneIsGone
=============================================================================
