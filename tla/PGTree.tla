------------------------------- MODULE PGTree --------------------------------
(***************************************************************************)
(* The PostgreSQL part of features/asset-tree/ui/AssetTree.tsx for one     *)
(* server, with its import and export dialogs.  A session of bridge/pg has *)
(* one current database (module DBSessions); the page remembers which it   *)
(* asked for last and switches only when it wants another.  What is listed *)
(* is told apart by the database it was read from.                         *)
(***************************************************************************)
EXTENDS PageCalls

CONSTANTS Sessions, NoSession, DBs, Default, NoDB

VARIABLES
    ui,
    back    \* open: sessions in Go; cur: the database each is on; wrong: exports
            \* and imports that were of another database than the one chosen

vars == <<ui, calls, back>>

Work(op, s, d) == [op |-> op, sid |-> s, db |-> d]

\* sure (history): no two loads ran at once and no session replaced another; no
\* further click is explored after that, since nothing is claimed then;
\* left (history): the sessions double clicks have let go.
Init ==
    /\ ui = [sid |-> NoSession, dbs |-> {}, cur |-> NoDB, shown |-> [d \in DBs |-> NoDB],
             loading |-> FALSE, sure |-> TRUE, left |-> {}]
    /\ calls = {}
    /\ back = [open |-> {}, cur |-> [s \in Sessions |-> Default], dbs |-> DBs, wrong |-> {}]

\* Double click on a server that is not connected.
HandlePgConnect ==
    /\ ui.sure /\ ui.sid = NoSession
    /\ Ask(Work("connect", NoSession, NoDB))
    /\ ui' = [ui EXCEPT !.loading = TRUE]
    /\ UNCHANGED back

\* ConnectByAsset, directly or through SSH.
Connected(c, s) ==
    /\ c.op = "connect" /\ c.sid = NoSession /\ s \notin back.open
    /\ Continue(c, Work("connect", s, NoDB))
    /\ back' = [back EXCEPT !.open = @ \cup {s}, !.cur[s] = Default]
    /\ UNCHANGED ui

\* The session is kept before its databases are asked for.
AnswerConnect(c) ==
    /\ c.op = "connect"
    /\ IF c.sid = NoSession
       THEN Answered(c) /\ ui' = [ui EXCEPT !.loading = FALSE]
       ELSE /\ Continue(c, Work("databases", c.sid, NoDB))
            /\ ui' = [ui EXCEPT !.sid = c.sid,
                                !.sure = @ /\ ui.sid = NoSession /\ ui.left = {}]
    /\ UNCHANGED back

AnswerDatabases(c) ==
    /\ c.op = "databases" /\ Answered(c)
    /\ \E dbs \in {back.dbs, ui.dbs} : ui' = [ui EXCEPT !.loading = FALSE, !.dbs = dbs]
    /\ UNCHANGED back

\* Double click on a connected server: the page forgets session and databases.
\* Go is not told, and the current database and the schemas stay on the page.
DoubleClickDisconnects ==
    /\ ui.sure /\ ui.sid # NoSession
    /\ ui' = [ui EXCEPT !.sid = NoSession, !.dbs = {}, !.left = @ \cup {ui.sid}]
    /\ UNCHANGED <<calls, back>>

Alone == calls = {}

\* Mutant: the switch is thought unnecessary once there is a current database.
SwitchOnce(op, d) ==
    /\ ui.sure /\ ui.sid # NoSession
    /\ Ask([op |-> op, sid |-> ui.sid, db |-> d,
            step |-> IF ui.cur # NoDB THEN "read" ELSE "switch"])
    /\ ui' = [ui EXCEPT !.sure = @ /\ Alone]
    /\ UNCHANGED back

\* The part the three loads share: switch if the page wants another database.
SwitchFirst(op, d) ==
    /\ ui.sure /\ ui.sid # NoSession
    /\ Ask([op |-> op, sid |-> ui.sid, db |-> d,
            step |-> IF ui.cur = d THEN "read" ELSE "switch"])
    /\ ui' = [ui EXCEPT !.sure = @ /\ Alone]
    /\ UNCHANGED back

\* The schemas of a database and, under them, their objects.
HandlePgLoadSchemas(d) == ui.shown[d] = NoDB /\ SwitchFirst("list", d)
HandlePgLoadObjects(d) == ui.shown[d] # NoDB /\ SwitchFirst("list", d)
HandlePgExportSQL(d) == SwitchFirst("export", d)

\* The import always switches, and tells the page only then.
ImportSQL(d) ==
    /\ ui.sure /\ ui.sid # NoSession
    /\ Ask([op |-> "import", sid |-> ui.sid, db |-> d, step |-> "switch"])
    /\ ui' = [ui EXCEPT !.sure = @ /\ Alone]
    /\ UNCHANGED back

Loads == CallsOf({"list", "export", "import"})

\* SwitchDatabase, which fails for a database that was dropped.
Switched(c) ==
    /\ c \in Loads /\ c.step = "switch"
    /\ IF c.db \in back.dbs
       THEN /\ Continue(c, [c EXCEPT !.step = "read"])
            /\ ui' = [ui EXCEPT !.cur = c.db]
            /\ back' = [back EXCEPT !.cur[c.sid] = c.db]
       ELSE Answered(c) /\ UNCHANGED <<ui, back>>

\* The read or the import itself, on whatever database the session is then, which
\* another session may have dropped.
Loaded(c) ==
    /\ c \in Loads /\ c.step = "read" /\ Answered(c)
    /\ LET of == back.cur[c.sid]
       IN  CASE of \notin back.dbs -> UNCHANGED <<ui, back>>
             [] of \in back.dbs /\ c.op = "list" ->
                    ui' = [ui EXCEPT !.shown[c.db] = of] /\ UNCHANGED back
             [] of \in back.dbs /\ c.op # "list" ->
                    back' = [back EXCEPT !.wrong = IF of = c.db THEN @ ELSE @ \cup {c.op}]
                    /\ UNCHANGED ui

\* CREATE and DROP DATABASE, then the list anew.  A drop first ends every other
\* connection to the database, and fails only on the session's own.
HandlePgCreateDB(d) ==
    /\ ui.sure /\ ui.sid # NoSession /\ d \notin back.dbs
    /\ Ask(Work("create", ui.sid, d))
    /\ UNCHANGED <<ui, back>>

CreateDatabase(c) ==
    /\ c.op = "create"
    /\ \/ /\ Continue(c, Work("refresh", c.sid, NoDB))
          /\ back' = [back EXCEPT !.dbs = @ \cup {c.db}]
       \/ Answered(c) /\ UNCHANGED back
    /\ UNCHANGED ui

HandlePgDropDB(d) ==
    /\ ui.sure /\ ui.sid # NoSession /\ d \in ui.dbs
    /\ Ask(Work("drop", ui.sid, d))
    /\ UNCHANGED <<ui, back>>

DropDatabase(c) ==
    /\ c.op = "drop"
    /\ IF c.db \in back.dbs /\ back.cur[c.sid] # c.db
       THEN /\ Continue(c, Work("refresh", c.sid, c.db))
            /\ back' = [back EXCEPT !.dbs = @ \ {c.db}]
       ELSE Answered(c) /\ UNCHANGED back
    /\ UNCHANGED ui

\* The schemas of a dropped database leave the page with the new list.
AnswerRefresh(c) ==
    /\ c.op = "refresh" /\ Answered(c)
    /\ \/ ui' = [ui EXCEPT !.dbs = back.dbs,
                           !.shown = [d \in DBs |-> IF d = c.db THEN NoDB ELSE @[d]]]
       \/ UNCHANGED ui
    /\ UNCHANGED back

\* The answer a spinner waits for.
Answer == \E c \in calls : AnswerConnect(c) \/ AnswerDatabases(c)

\* What the tree offers: a database's node is there while the list has it, and
\* unfolds to schemas and these to their objects; its menu, and the server's.
DatabaseNode(d) == d \in ui.dbs
HandleExpand(d) == DatabaseNode(d) /\ (HandlePgLoadSchemas(d) \/ HandlePgLoadObjects(d))
ContextMenu(d) ==
    \/ HandlePgCreateDB(d)
    \/ DatabaseNode(d) /\ (ImportSQL(d) \/ HandlePgExportSQL(d) \/ HandlePgDropDB(d))

Next ==
    \/ HandlePgConnect \/ DoubleClickDisconnects
    \/ \E c \in calls, s \in Sessions : Connected(c, s)
    \/ \E d \in DBs : HandleExpand(d) \/ ContextMenu(d)
    \/ \E c \in calls : Switched(c) \/ Loaded(c) \/ CreateDatabase(c) \/ DropDatabase(c) \/ AnswerRefresh(c)
    \/ Answer

-----------------------------------------------------------------------------
TypeOK ==
    /\ ui.sid \in Sessions \cup {NoSession} /\ ui.dbs \subseteq DBs
    /\ back.cur \in [Sessions -> DBs]

\* A session open in Go is the page's, about to be, or one it let go; unless two
\* double clicks connected at once.
SessionsOwned ==
    ui.sure => back.open \subseteq {ui.sid} \cup {c.sid : c \in calls} \cup ui.left

\* The schemas under a database are its own, and so is what is exported from it.
ShownBelongs ==
    ui.sure => /\ \A d \in DBs : ui.shown[d] \in {d, NoDB}
               /\ "export" \notin back.wrong

\* A file is imported into the database it was chosen for.
UntouchedKept == ui.sure => "import" \notin back.wrong

Busy == ui.loading
=============================================================================
