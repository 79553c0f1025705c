------------------------------- MODULE PGTables -------------------------------
(***************************************************************************)
(* The table list of one database: the view of ui/PostgreSQLView.tsx, its  *)
(* connection, and PGTableListView.tsx.  Tables are dropped and pasted by  *)
(* name after a question; shortcuts work while a question is open.         *)
(***************************************************************************)
EXTENDS PageCalls

CONSTANTS
    Tables, NoTable,
    Searches        \* the sets of names that a text in the search box matches

VARIABLES
    ui,
    back    \* tables: those of the schema; unmeant: dropped though no question named them

vars == <<ui, calls, back>>

Job(op, names) == [op |-> op, todo |-> names, named |-> names, nth |-> 0]

\* A load of the list is told from another one under way.
Loads == CallsOf({"list", "read"})
Load ==
    [Job("list", {}) EXCEPT !.nth = CHOOSE n \in 0..MaxCalls : \A c \in Loads : c.nth # n]

\* news (history) of the last change of the tables: due, seen by the list, overtaken by an
\* answer read before it, or failed to come with a load of the list or a drop.
Init ==
    /\ ui = [phase |-> "connecting", list |-> {}, loading |-> FALSE, search |-> Tables,
             selected |-> {}, menu |-> NoTable, rename |-> NoTable,
             dialog |-> {}, clip |-> {}, paste |-> "closed", ai |-> FALSE, news |-> "due"]
    /\ calls = {Job("connect", {})}
    /\ \E t \in SUBSET Tables : back = [tables |-> t, unmeant |-> {}]

\* The effect's two awaits: the session, then its database; then the list.
SwitchDatabase(c) == c.op = "connect" /\ Continue(c, Job("switch", {})) /\ UNCHANGED <<ui, back>>
SetSession(c) ==
    /\ c.op = "switch" /\ Continue(c, Load)
    /\ ui' = [ui EXCEPT !.phase = "ready", !.loading = TRUE]
    /\ UNCHANGED back
ConnectFails(c) ==
    /\ c.op \in {"connect", "switch"} /\ Answered(c)
    /\ ui' = [ui EXCEPT !.phase = "failed"]
    /\ UNCHANGED back

\* The page of a failed connection only reloads the whole application.
Retry ==
    /\ ui.phase = "failed" /\ calls' = {Job("connect", {})}
    /\ ui' = [ui EXCEPT !.phase = "connecting"]
    /\ UNCHANGED back

Ready == ui.phase = "ready"
Main == Ready /\ ~ui.ai /\ ui.paste = "closed"
Page == Main /\ ui.dialog = {} /\ ui.rename = NoTable
Jobs == CallsOf({"list", "read", "drop", "rename", "paste"})
\* bound: one change of the tables at a time, and no paste with another job under way.
OneChange(op) == IF op = "paste" THEN Jobs = {} ELSE CallsOf({"drop", "rename", "paste"}) = {}
\* bound: with a job under way only questions, the button for the list and, but for a
\* load, the key that selects all are used.
Settled == Jobs = {}
Filtered == ui.list \cap ui.search

\* The button is there whatever is under way.
LoadTableList ==
    /\ Page /\ Ask(Load)
    /\ ui' = [ui EXCEPT !.loading = TRUE]
    /\ UNCHANGED back

\* ListTables reads the schema; the answer finds the page as it is by then.
Missed == IF ui.news = "due" THEN "failed" ELSE ui.news
ReadTables(c) == c.op = "list" /\ Continue(c, [c EXCEPT !.op = "read", !.todo = back.tables]) /\ UNCHANGED <<ui, back>>
AnswerList(c) ==
    /\ c.op = "read" /\ Answered(c)
    /\ ui' = [ui EXCEPT !.list = c.todo, !.loading = FALSE,
                        !.news = IF c.todo = back.tables THEN "seen"
                                 ELSE IF @ = "seen" THEN "overtaken" ELSE @]
    /\ UNCHANGED back
ListFails(c) ==
    /\ c.op = "list" /\ Answered(c)
    /\ ui' = [ui EXCEPT !.loading = FALSE, !.news = Missed]
    /\ UNCHANGED back

Search(s) ==
    /\ Page /\ s # ui.search
    /\ ui' = [ui EXCEPT !.search = s]
    /\ UNCHANGED <<calls, back>>

\* A click selects one; with Ctrl it adds or takes away; with Shift it adds the
\* range from the last click, if the filter still shows that.
HandleTableClick(t, key) ==
    /\ Page /\ t \in Filtered
    /\ \E range \in {{}} \cup {r \in SUBSET Filtered : t \in r} :
           LET s == ui.selected
               next == CASE key = "shift" -> s \cup range
                         [] key = "ctrl" -> (s \ {t}) \cup ({t} \ s)
                         [] OTHER -> {t}
           IN  ui' = [ui EXCEPT !.selected = next, !.menu = NoTable]
    /\ UNCHANGED <<calls, back>>

\* The rubber band, and the boxes of the grid, select any of those shown.
RubberBand(s) ==
    /\ Page /\ s \subseteq Filtered
    /\ ui' = [ui EXCEPT !.selected = s]
    /\ UNCHANGED <<calls, back>>

ClickBeside ==
    /\ Page
    /\ ui' = [ui EXCEPT !.selected = {}, !.menu = NoTable]
    /\ UNCHANGED <<calls, back>>

HandleContextMenu(t) ==
    /\ Page /\ t \in Filtered
    /\ ui' = [ui EXCEPT !.menu = t, !.selected = IF t \in @ THEN @ ELSE {t}]
    /\ UNCHANGED <<calls, back>>

\* The keys, also while a question or the paste dialog is open.
Keys == Ready /\ ~ui.ai
SelectAll ==
    /\ Keys
    /\ ui' = [ui EXCEPT !.selected = Filtered]
    /\ UNCHANGED <<calls, back>>
HandleCopyTables ==
    /\ Keys /\ ui.selected # {}
    /\ ui' = [ui EXCEPT !.clip = ui.selected, !.menu = NoTable]
    /\ UNCHANGED <<calls, back>>

Question(w) ==
    /\ ui.dialog = {}       \* bound: one question at a time
    /\ ui' = [ui EXCEPT !.dialog = {w}, !.menu = NoTable]
    /\ UNCHANGED <<calls, back>>
HandleDropSelectedTables == Page /\ ui.selected # {} /\ Question(Job("drop", ui.selected))
HandlePasteTables == Keys /\ ui.clip # {} /\ Question(Job("paste", ui.clip))
Cancel(w) ==
    /\ w \in ui.dialog
    /\ ui' = [ui EXCEPT !.dialog = @ \ {w}]
    /\ UNCHANGED <<calls, back>>

\* Mutant: the drop takes what is selected when it is confirmed.
ConfirmSelected(w) ==
    /\ w \in ui.dialog /\ w.op # "dropping" /\ Ask([w EXCEPT !.todo = ui.selected])
    /\ ui' = [ui EXCEPT !.paste = IF w.op = "paste" THEN "running" ELSE @]
    /\ UNCHANGED back

\* The question before a drop stays until the drop is done, and cannot be confirmed
\* again before; a paste has a dialog of its own.
Dropping(w) == [w EXCEPT !.op = "dropping"]
Confirm(w) ==
    /\ w \in ui.dialog /\ w.op # "dropping" /\ OneChange(w.op) /\ Ask(w)
    /\ ui' = IF w.op = "paste"
             THEN [ui EXCEPT !.dialog = @ \ {w}, !.paste = "running"]
             ELSE [ui EXCEPT !.dialog = (@ \ {w}) \cup {Dropping(w)}]
    /\ UNCHANGED back

\* One DROP TABLE after another; the first that fails ends the drop, with the
\* selection and the list as they were and the question to be confirmed again.
Change(tables) == ui' = [ui EXCEPT !.news = IF tables = back.tables THEN @ ELSE "due"]
DropTable(c, t) ==
    /\ c.op = "drop" /\ t \in c.todo \cap back.tables
    /\ Continue(c, [c EXCEPT !.todo = @ \ {t}])
    /\ back' = [tables |-> back.tables \ {t}, unmeant |-> back.unmeant \cup ({t} \ c.named)]
    /\ Change(back.tables \ {t})
DropFails(c) ==
    /\ c.op = "drop" /\ c.todo # {} /\ Answered(c)
    /\ ui' = [ui EXCEPT !.news = Missed,
                        !.dialog = {IF w = Dropping(Job("drop", c.named)) THEN Job("drop", c.named) ELSE w : w \in @}]
    /\ UNCHANGED back
DropEnds(c) ==
    /\ c.op = "drop" /\ c.todo = {} /\ Continue(c, Load)
    /\ ui' = [ui EXCEPT !.selected = {}, !.loading = TRUE,
                        !.dialog = @ \ {Dropping(Job("drop", c.named))}]
    /\ UNCHANGED back

OpenRename ==
    /\ Page /\ ui.menu # NoTable
    /\ ui' = [ui EXCEPT !.rename = ui.menu, !.menu = NoTable]
    /\ UNCHANGED <<calls, back>>

\* The dialog closes when the table has its new name; a name in use leaves it open.
\* Until then its button may be clicked again.
HandleRenameSubmit(t) ==
    /\ Main /\ ui.rename # NoTable
    /\ IF t = ui.rename THEN UNCHANGED calls /\ ui' = [ui EXCEPT !.rename = NoTable]
       ELSE OneChange("rename") /\ Ask([Job("rename", {t}) EXCEPT !.named = {ui.rename}]) /\ UNCHANGED ui
    /\ UNCHANGED back
RenameTable(c) ==
    /\ c.op = "rename"
    /\ IF c.named \subseteq back.tables /\ c.todo \cap back.tables = {}
       THEN /\ Continue(c, Load)
            /\ back' = [back EXCEPT !.tables = (@ \ c.named) \cup c.todo]
            /\ ui' = [ui EXCEPT !.rename = NoTable, !.loading = TRUE, !.news = "due"]
       ELSE Answered(c) /\ UNCHANGED <<ui, back>>

\* CopyTables drops and creates one table after another, and goes on past one
\* that fails: that one is gone if it failed after its DROP.
CopyTable(c, t) ==
    /\ c.op = "paste" /\ t \in c.todo
    /\ Continue(c, [c EXCEPT !.todo = @ \ {t}])
    /\ \E kept \in {back.tables, back.tables \cup {t}, back.tables \ {t}} :
           /\ back' = [tables |-> kept, unmeant |-> back.unmeant \cup ({t} \ c.named)]
           /\ Change(kept)

\* The copy is done, or the session to copy from could not be opened.
PasteEnds(c) ==
    /\ c.op = "paste" /\ c.todo \in {{}, c.named} /\ Continue(c, Load)
    /\ ui' = [ui EXCEPT !.paste = "done", !.loading = TRUE]
    /\ UNCHANGED back
ClosePaste ==
    /\ ui.paste = "done"
    /\ ui' = [ui EXCEPT !.paste = "closed"]
    /\ UNCHANGED <<calls, back>>

\* The assistant takes the place of the list and turns the keys off.
ToggleAI ==
    /\ IF ui.ai THEN Ready ELSE Page
    /\ ui' = [ui EXCEPT !.ai = ~@]
    /\ UNCHANGED <<calls, back>>

\* The answers a spinner waits for.
Answer == \E c \in calls :
    \/ SwitchDatabase(c) \/ SetSession(c) \/ ConnectFails(c)
    \/ ReadTables(c) \/ AnswerList(c) \/ ListFails(c) \/ PasteEnds(c)
    \/ \E t \in c.todo : CopyTable(c, t)

Clicks ==
    \/ \E t \in Tables : HandleContextMenu(t) \/ \E key \in {"plain", "ctrl", "shift"} : HandleTableClick(t, key)
    \/ \E s \in SUBSET Tables : RubberBand(s)
    \/ ClickBeside
Toolbar ==
    \/ LoadTableList \/ HandleDropSelectedTables
    \/ Settled /\ (ToggleAI \/ \E s \in Searches : Search(s))
Shortcuts ==
    \/ Loads = {} /\ SelectAll
    \/ Settled /\ (HandleCopyTables \/ HandlePasteTables)
Menu == OpenRename
Dialogs ==
    \/ ClosePaste
    \/ \E w \in ui.dialog : Confirm(w) \/ Cancel(w)
    \/ \E t \in Tables : HandleRenameSubmit(t)

Next ==
    \/ Settled /\ (Clicks \/ Menu)
    \/ Toolbar \/ Shortcuts \/ Dialogs \/ Retry
    \/ \E c \in calls : DropFails(c) \/ DropEnds(c) \/ RenameTable(c) \/ \E t \in c.todo : DropTable(c, t)
    \/ Answer

-----------------------------------------------------------------------------
TypeOK ==
    /\ ui.selected \cup ui.list \cup ui.clip \subseteq Tables
    /\ \A w \in ui.dialog : w.named \subseteq Tables /\ w.named # {}

\* With nothing under way the list shows the tables there are, unless the load for their
\* last change failed or never came after a failed drop, or an answer read before that
\* change came after the one that showed it.
ShownBelongs ==
    (Ready /\ Jobs = {} /\ ui.news \notin {"failed", "overtaken"}) => ui.list = back.tables

\* Every table dropped or replaced is one that the question listed by name, also
\* when the selection changed while the question was open.
UntouchedKept == back.unmeant = {}

Busy == ui.loading \/ ui.phase = "connecting" \/ ui.paste = "running"
=============================================================================
