------------------------------- MODULE RedisKeys -------------------------------
(***************************************************************************)
(* The keys of a Redis server, features/database/ui/RedisView.tsx: a list  *)
(* loaded page by page for a pattern, the value of the selected key, and   *)
(* the changes to it.  The session's database is Go's; every call acts on  *)
(* the one selected when Go gets to it.                                    *)
(***************************************************************************)
EXTENDS PageCalls

CONSTANTS Keys, NoKey, DBs, First, Patterns, All

VARIABLES
    ui,     \* listed: the <<database, pattern>> pairs the pages of the list are from;
            \* value: the <<key, database>> whose value is shown
    back    \* the session's database, and the changes to a key the page did not show

vars == <<ui, calls, back>>

\* A call keeps the key, pattern and selection of the render that made it.
Job(op, k) == [op |-> op, key |-> k, was |-> NoKey, pattern |-> All, more |-> FALSE, db |-> First]
Load(p, more) == [Job("load", NoKey) EXCEPT !.pattern = p, !.more = more]

\* hasty (history): something was asked for while an answer that changes the page
\* was awaited, a read failed, another key was selected with an editor open, or
\* more was loaded for a pattern not searched for; nothing is claimed then, and only a
\* spinner followed to its end.
Init ==
    /\ ui = [connected |-> FALSE, connecting |-> TRUE, pattern |-> All, listed |-> {}, more |-> FALSE,
             loading |-> FALSE, selected |-> NoKey, value |-> {}, editor |-> "none", db |-> First,
             creating |-> FALSE, hasty |-> FALSE]
    /\ calls = {Job("connect", NoKey)}
    /\ back = [db |-> First, wrong |-> {}]

HandleConnect ==
    /\ ~ui.connected /\ ~ui.connecting /\ Ask(Job("connect", NoKey))
    /\ ui' = [ui EXCEPT !.connecting = TRUE]
    /\ UNCHANGED back
AnswerConnect(c) ==
    /\ c.op = "connect"
    /\ \/ Continue(c, Load(All, FALSE)) /\ ui' = [ui EXCEPT !.connected = TRUE, !.connecting = FALSE, !.loading = TRUE]
       \/ Answered(c) /\ ui' = [ui EXCEPT !.connecting = FALSE]
    /\ UNCHANGED back

Free == ui.connected /\ ~ui.hasty /\ ~ui.creating
Disturbed == ui.hasty \/ calls # {}
Clicked(c, u) == Free /\ Ask(c) /\ ui' = [u EXCEPT !.hasty = @ \/ Disturbed] /\ UNCHANGED back
Shown(u) == Free /\ ui' = u /\ UNCHANGED <<calls, back>>

TypePattern(p) == p # ui.pattern /\ Shown([ui EXCEPT !.pattern = p])
HandleSearch ==
    Clicked(Load(ui.pattern, FALSE), [ui EXCEPT !.selected = NoKey, !.value = {}, !.loading = TRUE])
HandleLoadMore ==
    /\ ui.more /\ ~ui.loading
    /\ Clicked(Load(ui.pattern, TRUE),
               [ui EXCEPT !.loading = TRUE, !.hasty = <<ui.db, ui.pattern>> \notin ui.listed])

\* Mutant: a new search adds to the old list.
AnswerLoadAppends(c) ==
    /\ c.op = "load" /\ Answered(c)
    /\ \E more \in BOOLEAN :
           ui' = [ui EXCEPT !.loading = FALSE, !.more = more, !.listed = @ \cup {<<back.db, c.pattern>>}]
    /\ UNCHANGED back

\* A first page replaces the list, a later one is appended; a failure leaves it.
AnswerLoad(c) ==
    /\ c.op = "load" /\ Answered(c)
    /\ LET page == {<<back.db, c.pattern>>}
       IN  \/ \E more \in BOOLEAN :
                  ui' = [ui EXCEPT !.loading = FALSE, !.more = more,
                                   !.listed = IF c.more THEN @ \cup page ELSE page]
           \/ ui' = [ui EXCEPT !.loading = FALSE, !.hasty = @ \/ ~(ui.listed \subseteq page)]
    /\ UNCHANGED back

\* The old value stays on the page, under the new name, until the answer.
HandleSelectKey(k) ==
    ui.listed # {} /\ Clicked(Job("read", k), [ui EXCEPT !.selected = k, !.hasty = ui.editor # "none"])
AnswerRead(c) ==
    /\ c.op = "read" /\ Answered(c)
    /\ \/ ui' = [ui EXCEPT !.value = {<<c.key, back.db>>}]
       \/ ui' = [ui EXCEPT !.hasty = TRUE]
    /\ UNCHANGED back

\* The red cross of a row, or of the value panel.
HandleDeleteKey(k) ==
    /\ ui.listed # {}
    /\ Clicked([Job("delete", k) EXCEPT !.was = ui.selected, !.pattern = ui.pattern], ui)

\* Mutant: the value of a deleted key stays, with its editors.
AnswerDeleteKeepsValue(c) ==
    /\ c.op = "delete" /\ Continue(c, Load(c.pattern, FALSE))
    /\ ui' = [ui EXCEPT !.loading = TRUE, !.selected = IF c.was = c.key THEN NoKey ELSE @]
    /\ UNCHANGED back

AnswerDelete(c) ==
    /\ c.op = "delete"
    /\ \/ /\ Continue(c, Load(c.pattern, FALSE))
          /\ ui' = IF c.was = c.key THEN [ui EXCEPT !.loading = TRUE, !.selected = NoKey, !.value = {}]
                   ELSE [ui EXCEPT !.loading = TRUE]
       \/ Answered(c) /\ UNCHANGED ui
    /\ UNCHANGED back

\* The value editors, the TTL editor and the rename box are of the value panel;
\* what they open stays open when another key is selected.
Panel == ui.selected # NoKey /\ ui.value # {}
OpenEditor(e) == Panel /\ ui.editor = "none" /\ Shown([ui EXCEPT !.editor = e])
CloseEditor == Panel /\ ui.editor # "none" /\ Shown([ui EXCEPT !.editor = "none"])

\* handleSaveString, the hash, list, set and sorted set handlers, and handleSetTTL:
\* a change to the selected key, which is then selected and read again.
HandleChange ==
    /\ Panel /\ Clicked([Job(IF ui.editor = "ttl" THEN "ttl" ELSE "change", ui.selected) EXCEPT !.db = ui.db], ui)
AnswerChange(c) ==
    /\ c.op \in {"change", "ttl"}
    /\ \/ /\ Continue(c, Job("read", c.key))
          /\ ui' = [ui EXCEPT !.selected = c.key, !.editor = IF c.op = "ttl" THEN "none" ELSE @]
          /\ back' = [back EXCEPT !.wrong = @ \cup ({<<c.key, back.db>>} \ ui.value)]
       \/ Answered(c) /\ UNCHANGED <<ui, back>>

HandleRename(k) ==
    /\ Panel /\ ui.editor = "rename"
    /\ Clicked([Job("rename", k) EXCEPT !.was = ui.selected, !.pattern = ui.pattern], ui)
AnswerRename(c) ==
    /\ c.op = "rename"
    /\ \/ /\ c \in calls
          /\ calls' = (calls \ {c}) \cup {Load(c.pattern, FALSE), Job("read", c.key)}
          /\ ui' = [ui EXCEPT !.selected = c.key, !.editor = "none", !.loading = TRUE]
          /\ back' = [back EXCEPT !.wrong = @ \cup ({<<c.was, back.db>>} \ ui.value)]
       \/ Answered(c) /\ UNCHANGED <<ui, back>>

\* Go switches the session, and the page follows with the answer.
HandleSwitchDB(d) ==
    /\ d # ui.db /\ Clicked([Job("switch", NoKey) EXCEPT !.db = d, !.pattern = ui.pattern], ui)
SwitchDB(c) ==
    /\ c.op = "switch" /\ Continue(c, [c EXCEPT !.op = "switched"])
    /\ back' = [back EXCEPT !.db = c.db]
    /\ UNCHANGED ui
AnswerSwitch(c) ==
    \/ /\ c.op = "switched" /\ Continue(c, Load(c.pattern, FALSE))
       /\ ui' = [ui EXCEPT !.db = c.db, !.selected = NoKey, !.value = {}, !.loading = TRUE]
       /\ UNCHANGED back
    \/ c.op = "switch" /\ Answered(c) /\ UNCHANGED <<ui, back>>

OpenNewKey == Shown([ui EXCEPT !.creating = TRUE])
CloseNewKey ==
    /\ ui.creating /\ ui' = [ui EXCEPT !.creating = FALSE]
    /\ UNCHANGED <<calls, back>>
HandleCreateKey ==
    /\ ui.creating /\ ~ui.hasty /\ Ask([Job("create", NoKey) EXCEPT !.pattern = ui.pattern])
    /\ ui' = [ui EXCEPT !.hasty = calls # {}]
    /\ UNCHANGED back
AnswerCreate(c) ==
    /\ c.op = "create"
    /\ \/ Continue(c, Load(c.pattern, FALSE)) /\ ui' = [ui EXCEPT !.creating = FALSE, !.loading = TRUE]
       \/ Answered(c) /\ UNCHANGED ui
    /\ UNCHANGED back

\* The answers a spinner waits for.
Answer == \E c \in calls : AnswerConnect(c) \/ AnswerLoad(c)

KeyPanel ==
    \/ HandleSearch \/ HandleLoadMore
    \/ \E p \in Patterns : TypePattern(p)
    \/ \E k \in Keys : HandleSelectKey(k) \/ HandleDeleteKey(k)
ValueEditors == HandleChange    \* those of the strings, hashes, lists and sets
ValuePanel ==
    \/ ValueEditors \/ CloseEditor
    \/ \E e \in {"rename", "ttl"} : OpenEditor(e)
    \/ \E k \in Keys : HandleRename(k)
NewKeyModal == OpenNewKey \/ CloseNewKey \/ HandleCreateKey
Header == \E d \in DBs : HandleSwitchDB(d)

Next ==
    \/ HandleConnect \/ Header \/ KeyPanel \/ ValuePanel \/ NewKeyModal
    \/ /\ ~ui.hasty
       /\ \E c \in calls : AnswerRead(c) \/ AnswerDelete(c) \/ AnswerChange(c) \/ AnswerRename(c)
                           \/ SwitchDB(c) \/ AnswerSwitch(c) \/ AnswerCreate(c)
    \/ Answer

-----------------------------------------------------------------------------
TypeOK ==
    /\ ui.selected \in Keys \cup {NoKey} /\ ui.db \in DBs /\ back.db \in DBs
    /\ ui.listed \subseteq DBs \X Patterns /\ ui.value \subseteq Keys \X DBs

\* With nothing under way the keys listed are of one search in the database the
\* header names, and a value is that of the selected key there.
ShownBelongs ==
    (calls = {} /\ ~ui.hasty) =>
        /\ ui.db = back.db
        /\ \E p \in Patterns : ui.listed \subseteq {<<ui.db, p>>}
        /\ ui.value # {} => ui.value = {<<ui.selected, ui.db>>}

\* Every key that was changed or renamed was the one on the page, in its database.
UntouchedKept == ~ui.hasty => back.wrong = {}

Busy == ui.loading \/ ui.connecting
=============================================================================
