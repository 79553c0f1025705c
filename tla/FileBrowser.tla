----------------------------- MODULE FileBrowser -----------------------------
(***************************************************************************)
(* The remote file browser, features/file-manager/ui/FileManager.tsx and   *)
(* its search dialog: a path, the rows last listed, and Go calls that were *)
(* given what the render at hand held.  Rows are told apart by the         *)
(* directory they were listed for, and an operation by whether its row was *)
(* of the directory it names.  Viewer and transfers: FileViewer,           *)
(* TransferQueue.                                                          *)
(***************************************************************************)
EXTENDS PageCalls

CONSTANTS
    Dirs, Root, Home, NoDir,
    MaxHistory      \* bound: entries of the path history

VARIABLES ui, back

vars == <<ui, calls, back>>

Work(op, d, of) == [op |-> op, dir |-> d, rows |-> of]
List(d) == Work("list", d, d)

\* Mounted with a session: the list of /root and the question for the home.
Init ==
    /\ ui = [dir |-> Root, hist |-> <<Root>>, pos |-> 1, rows |-> NoDir, loading |-> TRUE,
             dialog |-> {}, clip |-> {}, found |-> FALSE,
             hasty |-> FALSE]
    /\ calls = {List(Root), Work("home", NoDir, NoDir)}
    /\ back = {}

\* The calls that are a list or end in one.
ListsLater == {c \in calls : c.op \notin {"home", "search"}}

\* A path changes: the effect on loadFiles lists it.  hasty (history): it
\* changed under a dialog or while a call that ends in a list was under way.
GoTo(d, hist, pos, others) ==
    /\ Cardinality(others) < MaxCalls
    /\ calls' = others \cup (IF d = ui.dir THEN {} ELSE {List(d)})
    /\ ui' = [ui EXCEPT !.dir = d, !.hist = hist, !.pos = pos, !.found = FALSE,
                        !.loading = @ \/ d # ui.dir,
                        !.hasty = @ \/ (d # ui.dir /\ (ui.dialog # {} \/ ListsLater # {}))]
    /\ UNCHANGED back

NavigateTo(d) ==
    LET kept == SubSeq(ui.hist, 1, ui.pos)
    IN  Len(kept) < MaxHistory /\ GoTo(d, Append(kept, d), Len(kept) + 1, calls)

\* Mutant: the history moves and the path stays.
GoBackInHistoryOnly ==
    /\ ui.dialog = {} /\ ui.pos > 1
    /\ GoTo(ui.dir, ui.hist, ui.pos - 1, calls)

\* Back walks the history and lists the directory it comes to.
GoBack ==
    /\ ui.dialog = {} /\ ui.pos > 1
    /\ GoTo(ui.hist[ui.pos - 1], ui.hist, ui.pos - 1, calls)

GoUp == ui.dialog = {} /\ ui.dir # Root /\ NavigateTo(Root)

\* The home that answers takes the page there, wherever it has gone since.
AnswerHome(c) ==
    /\ c.op = "home" /\ c \in calls
    /\ \/ GoTo(Home, <<Home>>, 1, calls \ {c})
       \/ Answered(c) /\ UNCHANGED <<ui, back>>

\* The spinner over the table takes the clicks.
RowsUsable == ui.dialog = {} /\ ~ui.loading /\ ui.rows # NoDir

Refresh ==
    /\ ui.dialog = {} /\ Ask(List(ui.dir))
    /\ ui' = [ui EXCEPT !.loading = TRUE]
    /\ UNCHANGED back

\* The rows are those of the last answer, be it of a path left since; a failed
\* list keeps those before it (hasty too, for want of a better page).
AnswerList(c) ==
    /\ c.op = "list" /\ Answered(c)
    /\ \E rows \in {c.dir, ui.rows} :
           ui' = [ui EXCEPT !.rows = rows, !.loading = FALSE, !.hasty = @ \/ rows # c.dir]
    /\ UNCHANGED back

EnterDirectory(d) == RowsUsable /\ d # ui.dir /\ NavigateTo(d)

\* Rename, chmod and delete ask first; what they act on is fixed when the dialog
\* opens.
OpenDialog(op) ==
    /\ RowsUsable
    /\ ui' = [ui EXCEPT !.dialog = {Work(op, ui.dir, ui.rows)}]
    /\ UNCHANGED <<calls, back>>

HandleRename == OpenDialog("change")
HandleChmod == OpenDialog("change")
HandleDelete == OpenDialog("change")

\* The button for a new folder, of the path and not of a row.
HandleMakeDir ==
    /\ ui.dialog = {}
    /\ ui' = [ui EXCEPT !.dialog = {Work("change", ui.dir, ui.dir)}]
    /\ UNCHANGED <<calls, back>>

CloseDialog ==
    /\ ui.dialog # {}
    /\ ui' = [ui EXCEPT !.dialog = {}]
    /\ UNCHANGED back
    /\ (\E w \in ui.dialog : Ask(w)) \/ UNCHANGED calls

HandleUpload ==
    /\ ui.dialog = {} /\ Ask(Work("upload", ui.dir, ui.dir))
    /\ UNCHANGED <<ui, back>>

CopyOrCut(op) ==
    /\ RowsUsable
    /\ ui' = [ui EXCEPT !.clip = {Work(op, ui.dir, ui.dir)}]
    /\ UNCHANGED <<calls, back>>

HandlePaste ==
    /\ ui.dialog = {}
    /\ \E w \in ui.clip : w.dir # ui.dir /\ Ask(Work(w.op, ui.dir, ui.dir))
    /\ UNCHANGED <<ui, back>>

\* A change that was made lists what the handler took for the current path, one
\* that failed leaves the page alone; a cut is pasted once.
AnswerChange(c) ==
    /\ c.op \in {"change", "upload", "copy", "cut"}
    /\ \/ /\ Continue(c, List(c.dir))
          /\ ui' = [ui EXCEPT !.loading = TRUE, !.clip = IF c.op = "cut" THEN {} ELSE @]
       \/ Answered(c) /\ UNCHANGED ui
    /\ UNCHANGED back

\* The search dialog, and the way it leads to a result's directory.
HandleSearch ==
    /\ ui.dialog = {} /\ Ask(Work("search", ui.dir, ui.dir))
    /\ UNCHANGED <<ui, back>>

AnswerSearch(c) ==
    /\ c.op = "search" /\ Answered(c)
    /\ ui' = [ui EXCEPT !.found = TRUE]
    /\ UNCHANGED back

OpenResult(d) == ui.found /\ ui.dialog = {} /\ NavigateTo(d)

\* The answer a spinner waits for.
Answer == \E c \in calls : AnswerList(c)

\* What the page offers: the buttons above the table, a row and its menu, and the
\* list of the search dialog.
Toolbar == GoBack \/ GoUp \/ Refresh \/ HandlePaste \/ HandleUpload \/ HandleMakeDir
RowMenu ==
    \/ HandleRename \/ HandleChmod \/ HandleDelete
    \/ \E op \in {"copy", "cut"} : CopyOrCut(op)
Rows == RowMenu \/ \E d \in Dirs : EnterDirectory(d)
SearchDialog == HandleSearch \/ \E d \in Dirs : OpenResult(d)

Next ==
    \/ Toolbar \/ Rows \/ SearchDialog \/ CloseDialog
    \/ \E c \in calls : AnswerHome(c) \/ AnswerChange(c) \/ AnswerSearch(c)
    \/ Answer

-----------------------------------------------------------------------------
TypeOK ==
    /\ ui.dir \in Dirs /\ ui.rows \in Dirs \cup {NoDir} /\ ui.pos \in DOMAIN ui.hist

\* The path shown is the entry of the history the page stands at; once a list has
\* answered the rows are those of that path, so that every change asked for is of
\* a row the user saw there.  Unless the path changed meanwhile or a list failed.
ShownBelongs ==
    /\ ui.dir = ui.hist[ui.pos]
    /\ ~ui.hasty => /\ ~ui.loading => ui.rows = ui.dir
                    /\ \A c \in ListsLater : c.rows = c.dir

Busy == ui.loading
=============================================================================
