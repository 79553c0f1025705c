----------------------------- MODULE PGTableData -----------------------------
(***************************************************************************)
(* Rows of one table, features/database/pg/PGTableDataView.tsx: pages are  *)
(* loaded by number, order and filter, and edits and the selection are     *)
(* kept by row index.  Order and filter are one, the order; the rows are   *)
(* told apart by the query they answer, and an edit carries, for the       *)
(* properties, the rows it was typed on.                                   *)
(***************************************************************************)
EXTENDS PageCalls

CONSTANTS Numbers, First, Orders, Plain, NoQuery, Indexes   \* pages and row indexes

VARIABLES ui, back  \* back: the updates and deletes that hit a row nobody meant

vars == <<ui, calls, back>>

Queries == [page : Numbers, order : Orders]

Load(q) == [op |-> "load", query |-> q, rows |-> NoQuery, todo |-> {}]
Then(op, q, todo) == [op |-> op, query |-> q, rows |-> ui.rows, todo |-> todo]

\* hasty (history): a page was asked for, or a cell opened, while a page or a change
\* that reloads one was under way; nothing is claimed then and no click explored.
\* unapplied (history): a filter was typed, or the load of a new order failed, and no
\* load of the order there is has come since.
Begin == [page |-> First, order |-> Plain]
Init ==
    /\ ui = [page |-> First, order |-> Plain, unapplied |-> FALSE,
             rows |-> NoQuery, loading |-> TRUE, keys |-> FALSE,
             edit |-> {}, mods |-> {}, selected |-> {}, dialog |-> {}, inserting |-> FALSE,
             sub |-> "data", subLoading |-> FALSE, hasty |-> FALSE]
    /\ calls = {Load(Begin), [op |-> "metadata", query |-> Begin, rows |-> NoQuery, todo |-> {}]}
    /\ back = {}

Reloads == CallsOf({"load", "commit", "delete", "insert"})
Free == ~ui.hasty /\ ui.dialog = {} /\ ~ui.inserting

\* The rows of a page in the order the page has by then; its number comes with them.
LoadData(p, order) ==
    /\ Free /\ Ask(Load([page |-> p, order |-> order]))
    /\ ui' = [ui EXCEPT !.order = order, !.loading = TRUE, !.edit = {},
                        !.mods = @ \cup ui.edit,
                        !.hasty = Reloads # {}]
    /\ UNCHANGED back

\* The grid is on the page, and no spinner lies over it.
Shown == Free /\ ui.sub = "data" /\ ui.rows # NoQuery
Grid == Shown /\ ~ui.loading

HandlePageChange(p) == LoadData(p, ui.order)
Refresh == LoadData(ui.page, ui.order)

\* The header names the new order from the click on.
HandleSort(order) == Grid /\ order # ui.order /\ LoadData(First, order)

\* A filter that is typed, also below the spinner, is the one every later load takes.
\* bound: typed once until it is applied, and not with a change of rows under way.
HandleFilterChange(order) ==
    /\ ~ui.unapplied /\ CallsOf({"commit", "delete", "insert"}) = {}
    /\ Shown /\ ui.edit = {} /\ order # ui.order
    /\ ui' = [ui EXCEPT !.order = order, !.unapplied = TRUE]
    /\ UNCHANGED <<calls, back>>
HandleApplyFilters == Shown /\ LoadData(First, ui.order)

\* Mutant: the edits stay when another page comes.
AnswerLoadKeepsEdits(c) ==
    /\ c.op = "load" /\ Answered(c)
    /\ ui' = [ui EXCEPT !.rows = c.query, !.page = c.query.page, !.selected = {}, !.loading = FALSE]
    /\ UNCHANGED back

\* A page that comes takes edits and selection with it; a failed one changes
\* nothing.  An edit in progress stays.
AnswerLoad(c) ==
    /\ c.op = "load" /\ Answered(c)
    /\ \/ ui' = [ui EXCEPT !.rows = c.query, !.page = c.query.page, !.mods = {}, !.selected = {},
                           !.loading = FALSE, !.unapplied = @ /\ c.query.order # ui.order]
       \/ ui' = [ui EXCEPT !.loading = FALSE,
                           !.unapplied = @ \/ (ui.rows # NoQuery /\ ui.rows.order # ui.order)]
    /\ UNCHANGED back

\* The columns and the primary key, without which nothing can be written.
AnswerMetadata(c) ==
    /\ c.op = "metadata" /\ Answered(c)
    /\ \E keys \in BOOLEAN : ui' = [ui EXCEPT !.keys = keys]
    /\ UNCHANGED back

HandleCellDoubleClick(i) ==
    /\ Grid /\ ui.edit = {}
    /\ ui' = [ui EXCEPT !.edit = {<<i, ui.rows>>}, !.hasty = Reloads # {}]
    /\ UNCHANGED <<calls, back>>

\* Enter, or leaving the cell: kept under the index alone.
HandleCellEditConfirm ==
    /\ ui.edit # {}
    /\ ui' = [ui EXCEPT !.edit = {}, !.mods = @ \cup ui.edit]
    /\ UNCHANGED <<calls, back>>

HandleCellEditCancel ==
    /\ ui.edit # {}
    /\ ui' = [ui EXCEPT !.edit = {}]
    /\ UNCHANGED <<calls, back>>

SelectRow(i) ==
    /\ Grid /\ ui.edit = {}
    /\ ui' = [ui EXCEPT !.selected = IF <<i, ui.rows>> \in @ THEN @ \ {<<i, ui.rows>>}
                                     ELSE @ \cup {<<i, ui.rows>>}]
    /\ UNCHANGED <<calls, back>>

AtHand == [page |-> ui.page, order |-> ui.order]

\* One UPDATE per edited row of the page at hand, in turn; edits typed meanwhile
\* go with the others when it ends.
HandleCommit ==
    /\ Free /\ ui.mods # {} /\ ui.keys /\ ui.edit = {}
    /\ Ask(Then("commit", AtHand, ui.mods))
    /\ ui' = [ui EXCEPT !.hasty = Reloads # {}]
    /\ UNCHANGED back

Hit(c, m) == IF m[2] = c.rows THEN back ELSE back \cup {<<c.op, m>>}

UpdateRow(c, m) ==
    /\ c.op = "commit" /\ m \in c.todo
    /\ Continue(c, [c EXCEPT !.todo = @ \ {m}])
    /\ back' = Hit(c, m)
    /\ UNCHANGED ui

\* The first row that fails ends it: those before it are written, all stay
\* marked as edited.
CommitFails(c) == c.op = "commit" /\ c.todo # {} /\ Answered(c) /\ UNCHANGED <<ui, back>>

\* The changes that end in a load of the page they were made on.
Reload(c) == Continue(c, Load(c.query))

CommitEnds(c) ==
    /\ c.op = "commit" /\ c.todo = {} /\ Reload(c)
    /\ ui' = [ui EXCEPT !.mods = {}, !.loading = TRUE]
    /\ UNCHANGED back

HandleRollback ==
    /\ Free /\ ui.mods # {}
    /\ ui' = [ui EXCEPT !.mods = {}]
    /\ UNCHANGED <<calls, back>>

\* The question before a delete keeps the rows and the selection of its render.
HandleDeleteRows ==
    /\ Free /\ ui.selected # {} /\ ui.keys /\ ui.edit = {}
    /\ ui' = [ui EXCEPT !.dialog = {Then("delete", AtHand, ui.selected)}]
    /\ UNCHANGED <<calls, back>>

CloseDialog ==
    /\ ui.dialog # {}
    /\ \/ \E w \in ui.dialog : Ask(w) /\ ui' = [ui EXCEPT !.dialog = {}, !.hasty = @ \/ Reloads # {}]
       \/ UNCHANGED calls /\ ui' = [ui EXCEPT !.dialog = {}]
    /\ UNCHANGED back

DeleteEnds(c) ==
    /\ c.op = "delete"
    /\ \/ /\ Reload(c)
          /\ back' = back \cup {<<c.op, m>> : m \in {n \in c.todo : n[2] # c.rows}}
          /\ ui' = [ui EXCEPT !.selected = {}, !.loading = TRUE]
       \/ Answered(c) /\ UNCHANGED <<ui, back>>

HandleOpenInsert ==
    /\ Free /\ ui.edit = {}
    /\ ui' = [ui EXCEPT !.inserting = TRUE]
    /\ UNCHANGED <<calls, back>>

HandleInsertSubmit ==
    /\ ui.inserting
    /\ \/ Ask(Then("insert", AtHand, {})) /\ ui' = [ui EXCEPT !.hasty = @ \/ Reloads # {}]
       \/ UNCHANGED calls /\ ui' = [ui EXCEPT !.inserting = FALSE]
    /\ UNCHANGED back

InsertEnds(c) ==
    /\ c.op = "insert"
    /\ \/ Reload(c) /\ ui' = [ui EXCEPT !.inserting = FALSE, !.loading = TRUE]
       \/ Answered(c) /\ UNCHANGED ui
    /\ UNCHANGED back

\* Structure and DDL, which keep nothing to wait for, and indexes and foreign
\* keys, loaded anew.
Sub(op) == [op |-> op, query |-> NoQuery, rows |-> NoQuery, todo |-> {}]

SelectSubTab(sub) ==
    /\ Free /\ ui.edit = {}
    /\ IF sub \in {"indexes", "fk"}
       THEN /\ Ask(Sub("sub"))
            /\ ui' = [ui EXCEPT !.sub = sub, !.subLoading = TRUE]
       ELSE UNCHANGED calls /\ ui' = [ui EXCEPT !.sub = sub]
    /\ UNCHANGED back

\* Creating or dropping an index: the list is loaded again if Go could.
ChangeIndexes ==
    /\ Free /\ ui.sub = "indexes" /\ Ask(Sub("index"))
    /\ UNCHANGED <<ui, back>>

AnswerIndex(c) ==
    /\ c.op = "index"
    /\ \/ Continue(c, Sub("sub")) /\ ui' = [ui EXCEPT !.subLoading = TRUE]
       \/ Answered(c) /\ UNCHANGED ui
    /\ UNCHANGED back

AnswerSub(c) ==
    /\ c.op = "sub" /\ Answered(c)
    /\ ui' = [ui EXCEPT !.subLoading = FALSE]
    /\ UNCHANGED back

\* What is offered where: toolbar, cells, grid, indexes, pager, header and dialogs.
SubTabs == \E sub \in {"data", "structure", "indexes", "fk"} : SelectSubTab(sub)
Toolbar ==
    \/ HandleOpenInsert \/ HandleDeleteRows \/ HandleCommit \/ HandleRollback
    \/ Refresh \/ SubTabs
Cells ==
    \/ HandleCellEditConfirm \/ HandleCellEditCancel
    \/ \E i \in Indexes : HandleCellDoubleClick(i)
DataGrid == \E i \in Indexes : SelectRow(i)
Pager == \E p \in Numbers : HandlePageChange(p)
Header == HandleApplyFilters \/ \E order \in Orders : HandleSort(order) \/ HandleFilterChange(order)

\* The answer a spinner waits for.
Answer == \E c \in calls : AnswerLoad(c)

Next ==
    \/ Toolbar \/ Cells \/ DataGrid \/ Pager \/ Header \/ ChangeIndexes \/ CloseDialog \/ HandleInsertSubmit
    \/ \E c \in calls :
          \/ AnswerMetadata(c) \/ AnswerSub(c) \/ AnswerIndex(c) \/ CommitFails(c) \/ CommitEnds(c) \/ DeleteEnds(c) \/ InsertEnds(c)
          \/ \E m \in c.todo : UpdateRow(c, m)
    \/ Answer

-----------------------------------------------------------------------------
TypeOK == ui.rows \in Queries \cup {NoQuery} /\ ui.mods \subseteq Indexes \X Queries

\* The rows are those of the page the pager shows, in the order the header names unless
\* that is being loaded, could not be or was not asked for; and the edits and selection
\* were made on them; all unless two loads overlapped.
ShownBelongs ==
    ~ui.hasty =>
        /\ ui.rows # NoQuery =>
               /\ ui.rows.page = ui.page
               /\ ui.rows.order = ui.order \/ ui.unapplied \/ CallsOf({"load"}) # {}
        /\ \A m \in ui.mods \cup ui.selected : m[2] = ui.rows

\* Every row updated or deleted is one the user edited or selected.
UntouchedKept == ~ui.hasty => back = {}

Busy == ui.loading
=============================================================================
