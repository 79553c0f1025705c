------------------------------ MODULE TodoList -------------------------------
(***************************************************************************)
(* The tasks of one list, features/todo/ui/TodoView.tsx over bridge/todo:  *)
(* every change goes to Go by itself and is followed by a load of all      *)
(* tasks.  Archived tasks are never made here and are left out.            *)
(***************************************************************************)
EXTENDS PageCalls

CONSTANTS
    Ids, NoId,
    Due, AnyDay,    \* the day each task is made under; none, or the view of all days
    New, Titles, Blank  \* the title tasks are made with, those they can get, none

VARIABLES ui, back  \* back.rows: todo_items; back.lost: what was written over or deleted unseen

vars == <<ui, calls, back>>

Call(op, id) == [op |-> op, id |-> id, row |-> {}, todo |-> {}]
Load == Call("load", NoId)

\* made (history): the IDs drawn.  hasty: two loads were out together, none came after
\* a change, or a completion was under way with a change that goes by the page's copy
\* of it.  Nothing is claimed then, and the behaviour is not followed further.
Init ==
    /\ ui = [items |-> {}, day |-> Due[CHOOSE i \in Ids : Due[i] # AnyDay], filter |-> "all",
             editing |-> NoId, value |-> Blank, focus |-> FALSE,
             made |-> {}, hasty |-> FALSE]
    /\ calls = {Load}
    /\ back = [rows |-> {}, lost |-> {}]

\* Leaving the field saves it, so every other click comes after a save.
Click == ~ui.focus
Loads == CallsOf({"load", "read"})

\* loadItems, at the end of a change: Go reads the table, and the answer takes its way.
ThenLoad(c) ==
    /\ Continue(c, Load)
    /\ ui' = [ui EXCEPT !.hasty = @ \/ Loads # {}]

GoReads(c) ==
    /\ c.op = "load" /\ Continue(c, [c EXCEPT !.op = "read", !.row = back.rows])
    /\ UNCHANGED <<ui, back>>

AnswerLoad(c) ==
    /\ \/ c.op = "read" /\ Answered(c) /\ ui' = [ui EXCEPT !.items = c.row]
       \/ c.op = "load" /\ Answered(c) /\ ui' = [ui EXCEPT !.hasty = TRUE]
    /\ UNCHANGED back

\* The field goes; what it held is set anew when one opens.
Closed == [ui EXCEPT !.editing = NoId, !.focus = FALSE, !.value = Blank]

\* A change Go could not make ends without a load.
Fails(c) ==
    /\ c.op \in {"add", "toggle", "edit", "delete"} /\ Answered(c)
    /\ ui' = IF c.op = "edit" THEN Closed ELSE ui
    /\ UNCHANGED back

\* The task is made under the day on show.  The field is cleared when Go has answered,
\* so a second Enter makes a second task.
HandleAdd(id) ==
    /\ Click /\ Due[id] = ui.day
    /\ id \notin ui.made    \* Create draws an ID no task ever had
    /\ Ask([Call("add", id) EXCEPT !.row = {[id |-> id, title |-> New, done |-> FALSE]}])
    /\ ui' = [ui EXCEPT !.made = @ \cup {id}]
    /\ UNCHANGED back

AnswerAdd(c) ==
    /\ c.op = "add" /\ ThenLoad(c)
    /\ back' = [back EXCEPT !.rows = @ \cup c.row]

\* A click on a box, a double click on a title, and the pages of the calendar.
Shown ==
    {r \in ui.items : /\ ui.day = AnyDay \/ Due[r.id] = ui.day
                      /\ ui.filter # "all" => r.done = (ui.filter = "completed")}

HandleToggle(r) ==
    /\ Click /\ r \in Shown /\ Ask(Call("toggle", r.id))
    /\ ui' = [ui EXCEPT !.hasty = CallsOf({"edit", "clear"}) # {}]
    /\ UNCHANGED back

\* ToggleComplete flips the row as it is.
AnswerToggle(c) ==
    /\ c.op = "toggle" /\ ThenLoad(c)
    /\ back' = [back EXCEPT !.rows = {[r EXCEPT !.done = IF r.id = c.id THEN ~@ ELSE @] : r \in @}]

HandleStartEdit(r) ==
    /\ Click /\ r \in Shown
    /\ ui' = [ui EXCEPT !.editing = r.id, !.value = r.title, !.focus = TRUE]
    /\ UNCHANGED <<calls, back>>

TypeEdit(t) ==
    /\ ui.editing # NoId /\ t # ui.value
    /\ ui' = [ui EXCEPT !.value = t, !.focus = TRUE]
    /\ UNCHANGED <<calls, back>>

\* The row as the page has it is written whole, with the new title; the field stays
\* until Go has answered, and another one opened meanwhile closes with it.
HandleSaveEdit(leave) ==
    /\ ui.focus
    /\ LET changed == {r \in ui.items : r.id = ui.editing /\ ui.value \notin {r.title, Blank}}
           unseen == CallsOf({"toggle", "load", "read"})
       IN  IF changed = {} THEN UNCHANGED calls /\ ui' = Closed
           ELSE /\ Ask([Call("edit", ui.editing) EXCEPT
                           !.row = {[r EXCEPT !.title = ui.value] : r \in changed}])
                /\ ui' = [ui EXCEPT !.hasty = @ \/ unseen # {}, !.focus = ~leave]
    /\ UNCHANGED back

\* Mutant: the title is written without the rest of the row's state, as not completed.
AnswerEditResets(c) ==
    /\ c.op = "edit" /\ Continue(c, Load)
    /\ ui' = [Closed EXCEPT !.hasty = @ \/ Loads # {}]
    /\ LET old == {r \in back.rows : r.id = c.id}
           new == {[r EXCEPT !.done = FALSE] : r \in c.row}
       IN  back' = IF old = {} THEN back
                   ELSE [rows |-> (back.rows \ old) \cup new,
                         lost |-> back.lost \cup {r \in old : \E n \in new : n.done # r.done}]

AnswerEdit(c) ==
    /\ c.op = "edit" /\ Continue(c, Load)
    /\ ui' = [Closed EXCEPT !.hasty = @ \/ Loads # {}]
    /\ LET old == {r \in back.rows : r.id = c.id}
       IN  back' = IF old = {} THEN back
                   ELSE [rows |-> (back.rows \ old) \cup c.row,
                         lost |-> back.lost \cup {r \in old : \E n \in c.row : n.done # r.done}]

CancelEdit ==
    /\ ui.focus /\ ui' = Closed
    /\ UNCHANGED <<calls, back>>

HandleDelete(r) ==
    /\ Click /\ r \in Shown /\ Ask(Call("delete", r.id))
    /\ UNCHANGED <<ui, back>>

AnswerDelete(c) ==
    /\ c.op = "delete" /\ ThenLoad(c)
    /\ back' = [back EXCEPT !.rows = {r \in @ : r.id # c.id}]

\* One delete per completed task on show, in turn; the list is loaded at the end.
HandleClearCompleted ==
    /\ Click /\ \E r \in Shown : r.done
    /\ Ask([Call("clear", NoId) EXCEPT !.todo = {r \in Shown : r.done}])
    /\ ui' = [ui EXCEPT !.hasty = CallsOf({"toggle", "load", "read"}) # {}]
    /\ UNCHANGED back

ClearOne(c, r) ==
    /\ c.op = "clear" /\ r \in c.todo /\ Continue(c, [c EXCEPT !.todo = @ \ {r}])
    /\ back' = [rows |-> {s \in back.rows : s.id # r.id},
                lost |-> back.lost \cup {s \in back.rows : s.id = r.id /\ ~s.done}]
    /\ UNCHANGED ui

\* A delete that fails ends it without a load.
ClearEnds(c) ==
    /\ c.op = "clear"
    /\ \/ c.todo = {} /\ ThenLoad(c)
       \/ c.todo # {} /\ Answered(c) /\ ui' = [ui EXCEPT !.hasty = TRUE]
    /\ UNCHANGED back

SelectDay(d) ==
    /\ Click /\ d # ui.day /\ ui' = [ui EXCEPT !.day = d]
    /\ UNCHANGED <<calls, back>>

SetFilter(f) ==
    /\ Click /\ f # ui.filter /\ ui' = [ui EXCEPT !.filter = f]
    /\ UNCHANGED <<calls, back>>

\* What is offered where: the calendar, the bar and the list.
Calendar == \E i \in Ids : SelectDay(Due[i])
Bar ==
    \/ \E f \in {"all", "active", "completed"} : SetFilter(f)
    \/ \E id \in Ids : HandleAdd(id)
List ==
    \/ \E r \in Shown : HandleToggle(r) \/ HandleStartEdit(r) \/ HandleDelete(r)
    \/ \E t \in Titles \cup {Blank} : TypeEdit(t)
    \/ \E leave \in BOOLEAN : HandleSaveEdit(leave)
    \/ CancelEdit \/ HandleClearCompleted

Next ==
    /\ ~ui.hasty
    /\ \/ Calendar \/ Bar \/ List
       \/ \E c \in calls :
             \/ GoReads(c) \/ AnswerLoad(c) \/ Fails(c)
             \/ AnswerAdd(c) \/ AnswerToggle(c) \/ AnswerEdit(c) \/ AnswerDelete(c) \/ ClearEnds(c)
             \/ \E r \in c.todo : ClearOne(c, r)

-----------------------------------------------------------------------------
TypeOK == {r.id : r \in back.rows \cup ui.items} \subseteq Ids

\* A page with nothing under way shows the tasks there are, unless loads overlapped or
\* failed, whatever changes did.
ShownBelongs == (~ui.hasty /\ calls = {}) => ui.items = back.rows

\* An edit leaves a completion as it was, and clearing takes completed tasks only, if
\* the list they went by was the last one.
UntouchedKept == ~ui.hasty => back.lost = {}
=============================================================================
