----------------------------- MODULE FileViewer ------------------------------
(***************************************************************************)
(* Viewing and editing one remote file: handleDoubleClick of FileManager   *)
(* and FileViewerModal.  The manager holds path, text and wait, the dialog *)
(* whether it is edited; a text is told apart by the file it was read      *)
(* from.                                                                   *)
(***************************************************************************)
EXTENDS PageCalls

CONSTANTS Files, NoFile

VARIABLES ui, back

vars == <<ui, calls, back>>

Init ==
    /\ ui = [open |-> FALSE, file |-> NoFile, text |-> NoFile, loading |-> FALSE,
             editing |-> FALSE, modified |-> FALSE, reopened |-> FALSE, failed |-> FALSE]
    /\ calls = {} /\ back = {}

\* reopened (history): a file was opened while another was being read.
OpenFile(f) ==
    /\ ~ui.open
    /\ Ask([op |-> "read", file |-> f, text |-> f])
    /\ ui' = [ui EXCEPT !.open = TRUE, !.file = f, !.loading = TRUE,
                        !.reopened = @ \/ CallsOf({"read"}) # {}]
    /\ UNCHANGED back

\* Mutant: the text before is left in place when a file cannot be read.
AnswerReadKeeps(c) ==
    /\ c.op = "read" /\ Answered(c)
    /\ \E ok \in BOOLEAN :
           ui' = [ui EXCEPT !.text = IF ok THEN c.file ELSE @, !.loading = FALSE, !.failed = ~ok]
    /\ UNCHANGED back

\* Whichever read answers sets the text; a failed one empties it.
AnswerRead(c) ==
    /\ c.op = "read" /\ Answered(c)
    /\ \E ok \in BOOLEAN :
           ui' = [ui EXCEPT !.text = IF ok THEN c.file ELSE NoFile, !.loading = FALSE,
                            !.failed = ~ok]
    /\ UNCHANGED back

StartEdit ==
    /\ ui.open /\ ~ui.editing
    /\ ui' = [ui EXCEPT !.editing = TRUE]
    /\ UNCHANGED <<calls, back>>

CancelEdit ==
    /\ ui.open /\ ui.editing
    /\ ui' = [ui EXCEPT !.editing = FALSE, !.modified = FALSE]
    /\ UNCHANGED <<calls, back>>

Type ==
    /\ ui.open /\ ui.editing /\ ~ui.loading
    /\ ui' = [ui EXCEPT !.modified = TRUE]
    /\ UNCHANGED <<calls, back>>

\* The text on the page under the path on the page.
HandleSave ==
    /\ ui.open /\ ui.editing /\ ui.modified
    /\ Ask([op |-> "write", file |-> ui.file, text |-> ui.text])
    /\ UNCHANGED <<ui, back>>

AnswerSave(c) ==
    /\ c.op = "write" /\ Answered(c)
    /\ \/ ui' = [ui EXCEPT !.modified = FALSE, !.editing = FALSE]
       \/ UNCHANGED ui
    /\ back' = back \cup {<<c.file, c.text>>}

\* Also of a modified text, after a question.
HandleClose ==
    /\ ui.open
    /\ ui' = [ui EXCEPT !.open = FALSE, !.editing = FALSE, !.modified = FALSE]
    /\ UNCHANGED <<calls, back>>

Answer == \E c \in calls : AnswerRead(c)

\* What the dialog offers, and the editor in it.
Dialog == StartEdit \/ CancelEdit \/ Type \/ HandleSave \/ HandleClose

Next ==
    \/ Dialog
    \/ \E f \in Files : OpenFile(f)
    \/ \E c \in calls : AnswerSave(c)
    \/ Answer

-----------------------------------------------------------------------------
TypeOK == ui.modified => ui.editing /\ ui.open

\* Once nothing loads the text is of the file whose path is shown, or empty; and
\* what is written to a file was read from it.  Unless a file was opened while
\* another was being read.
ShownBelongs == (~ui.reopened /\ ui.open /\ ~ui.loading) => ui.text \in {ui.file, NoFile}

UntouchedKept == ~ui.reopened => \A w \in back : w[2] \in {w[1], NoFile}

Busy == ui.loading
=============================================================================
