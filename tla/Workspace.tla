------------------------------ MODULE Workspace ------------------------------
(***************************************************************************)
(* The shell of the frontend: App.tsx with its activity bar, the           *)
(* connection store (asset tree, selection, tabs), the tab bar, and the    *)
(* asset rows of AssetTree.tsx with the dialogs that change them, over the *)
(* asset table of bridge/asset/asset.go.                                   *)
(*                                                                         *)
(* Every store operation is a Go call, a continuation in the page and a    *)
(* reload of the tree.  Wails runs each call on a goroutine of its own, so *)
(* calls and reloads overlap and answers come in any order.                *)
(***************************************************************************)
EXTENDS Naturals, Sequences, FiniteSets, Functions, Lists

CONSTANTS
    Groups, Hosts,    \* the identifiers assets can have
    Kind,             \* the connectionType of each host
    Root,             \* the empty parentId
    PgNode,           \* a database node of the tree, the key of no asset
    NoKey,            \* null
    StartRows,        \* the tables a behaviour starts from
    Loads,            \* reloads under way at once
    Visits,           \* bound: the activities a behaviour opens
    MaxCalls,         \* bound: changes of the table under way at once
    MaxDepth,         \* bound: calls of deleteChildren within each other
    MaxSteps          \* bound: clicks of a behaviour that open, switch, reload or change

Ids == Groups \cup Hosts

\* The types the picker offers; the rest of the program knows only those of
\* TabViews below.
ConnectionTypes ==
    {"ssh", "local_terminal", "ssh_tunnel", "telnet", "rdp", "docker", "redis", "mysql",
     "mariadb", "postgresql", "sqlserver", "clickhouse", "sqlite", "oracle",
     "web_bookmark", "rest_client", "todo", "memo"}

ASSUME WorkspaceAssumption ==
    /\ IsFiniteSet(Ids) /\ Groups \cap Hosts = {}
    /\ \A r \in StartRows : DOMAIN r \subseteq Ids /\ Range(r) \subseteq Ids \cup {Root, PgNode}
    /\ Kind \in [Hosts -> ConnectionTypes] /\ MaxDepth \in Nat
    /\ {Root, PgNode, NoKey} \cap Ids = {} /\ Root # PgNode
    /\ NoKey \notin {Root, PgNode}

\* The keys of the tabs that can be opened; null is none of them.
Tabs == [view : ConnectionTypes \cup {"tableList", "toolbox"}, asset : Hosts \cup {NoKey}]
ASSUME NoKeyIsNoTab == NoKey \notin Tabs

VARIABLES
    row,        \* the asset table: the parent_id of each row
    calls,      \* Create, Update, Delete, Rename and Move calls under way
    loads,      \* GetTree calls under way
    shown,      \* assets: the tree the page has, as the parent of each node
    tabs, active, selected, error,
    dialog,     \* the modal over the tree
    activity, sidebar,
    steps,      \* how many of them there were
    late,       \* history: the rows put below a parent whose children a deletion had read
    changes,    \* history: changes the table has seen
    asOf,       \* history: how many of them the shown tree has seen
    best        \* history: and how many the freshest tree ever shown had

table == <<row, late, changes>>
store == <<shown, tabs, active, selected, error, asOf, best>>
page == <<dialog, activity, sidebar, steps>>
vars == <<row, calls, loads, shown, tabs, active, selected, error,
          dialog, activity, sidebar, steps, late, changes, asOf, best>>

NoTree == [i \in {} |-> Root]
Idle == [stage |-> "idle", tree |-> NoTree, asOf |-> 0, then |-> "nothing"]
Closed == [kind |-> "none", id |-> NoKey]

Init ==
    /\ row \in StartRows
    /\ calls = {}
    /\ \E l \in Loads : loads = [[k \in Loads |-> Idle] EXCEPT ![l].stage = "asked"]
    /\ shown = NoTree
    /\ tabs = <<>> /\ active = NoKey /\ selected = NoKey /\ error = FALSE
    /\ dialog = Closed
    /\ activity = "assets" /\ sidebar = TRUE /\ steps = 0
    /\ late = {} /\ changes = 0 /\ asOf = 0 /\ best = 0

-----------------------------------------------------------------------------
(* The asset table.                                                         *)

\* Mutant: only direct children of the root level are nested.
FlatTree(r) == Restrict(r, {i \in DOMAIN r : r[i] = Root})

\* The rows below top, level by level, as the recursions of the code get to them.
HangFrom(r, top) ==
    LET level[n \in 0 .. Cardinality(Ids)] ==
            IF n = 0 THEN {}
            ELSE {i \in DOMAIN r : r[i] \in {top} \cup level[n - 1]}
    IN  level[Cardinality(Ids)]

\* buildTree: the rows that hang from a root; others are in no answer.
Tree(r) == Restrict(r, HangFrom(r, Root))

\* The rows ON DELETE CASCADE removes with a row.
Below(r, id) == HangFrom(r, id) \ {id}

\* foreign_keys is a pragma of one pooled connection: a statement that runs on
\* another one may leave a row below a parent that does not exist.
MayHang(parent, enforced) == parent \in DOMAIN row \cup {Root} \/ ~enforced

Create(c, enforced) ==
    /\ MayHang(c.to, enforced)
    /\ row' = [i \in DOMAIN row \cup {c.id} |-> IF i = c.id THEN c.to ELSE row[i]]

SetParent(c, enforced) ==
    /\ MayHang(c.to, enforced)
    /\ row' = IF c.id \in DOMAIN row THEN [row EXCEPT ![c.id] = c.to] ELSE row

\* The rows whose children a deletion under way has read and that it has yet to delete.
Walked(cs) == UNION {{f.id : f \in Range(c.path)} : c \in cs}

\* A call that is one statement, or the one that failed.
Perform(c) ==
    /\ c \in calls /\ c.stage = "asked" /\ c.op # "delete"
    /\ \E enforced \in BOOLEAN :
          CASE c.op = "create" -> Create(c, enforced)
            [] c.op \in {"update", "move"} -> SetParent(c, enforced)
            [] c.op = "rename" -> row' = row
    /\ late' = IF row' # row /\ c.to \in Walked(calls)
               THEN late \cup {<<c.id, c.to>>} ELSE late
    /\ changes' = changes + 1
    /\ calls' = (calls \ {c}) \cup {[c EXCEPT !.stage = "done"]}
    /\ UNCHANGED <<loads, store, page>>

\* Delete is a statement for each row and a query for its children before, with no
\* transaction around them: path holds the recursions of deleteChildren, each with
\* the children it read and has yet to delete.

\* Mutant: a group is taken for empty.
NoChildren(id) == {}

Children(id) == {x \in DOMAIN row : row[x] = id}
Top(c) == c.path[Len(c.path)]

\* deleteChildren reads the children of the row to delete, or of the next child of the
\* row it is at.  Nothing tells it that it has been there: below itself a row never ends it.
DeleteChildren(c) ==
    /\ c \in calls /\ c.op = "delete" /\ c.stage \in {"asked", "walking"}
    /\ Len(c.path) < MaxDepth
    /\ \E id \in (IF c.path = <<>> THEN {c.id} ELSE Top(c).kids) :
          calls' = (calls \ {c}) \cup
                     {[c EXCEPT !.stage = "walking",
                                !.path = Append(@, [id |-> id, kids |-> Children(id)])]}
    /\ UNCHANGED <<table, loads, store, page>>

Unwind(path) ==
    LET n == Len(path)
    IN  [k \in 1 .. n - 1 |->
            IF k = n - 1 THEN [path[k] EXCEPT !.kids = @ \ {path[n].id}] ELSE path[k]]

\* The statement that deletes a row whose children are done with.  On the connection
\* that enforces foreign keys the rows still below it go as well.
DeleteRow(c) ==
    /\ c \in calls /\ c.stage = "walking" /\ Top(c).kids = {}
    /\ \E enforced \in BOOLEAN :
          row' = Restrict(row, DOMAIN row \ ({Top(c).id} \cup
                               IF enforced THEN Below(row, Top(c).id) ELSE {}))
    /\ changes' = changes + 1
    /\ calls' = (calls \ {c}) \cup
                  {[c EXCEPT !.path = Unwind(@),
                             !.stage = IF Len(c.path) = 1 THEN "done" ELSE "walking"]}
    /\ late' = {l \in late : l[2] \in Walked(calls')}
    /\ UNCHANGED <<loads, store, page>>

\* A statement of the call fails; a deletion leaves what it has not deleted yet.
Refuse(c) ==
    /\ c \in calls /\ c.stage \in {"asked", "walking"}
    /\ calls' = (calls \ {c}) \cup {[c EXCEPT !.stage = "failed", !.path = <<>>]}
    /\ late' = {l \in late : l[2] \in Walked(calls')}
    /\ UNCHANGED <<row, changes, loads, store, page>>

-----------------------------------------------------------------------------
(* The store: loadAssets and the continuations that end in it.              *)

Step == steps < MaxSteps /\ steps' = steps + 1

FreeLoads == {l \in Loads : loads[l] = Idle}

\* loadAssets up to its await; then is what its caller does afterwards.
StartLoad(then) ==
    \E l \in FreeLoads :
        /\ loads' = [loads EXCEPT ![l] = [Idle EXCEPT !.stage = "asked", !.then = then]]
        /\ error' = FALSE

ReadTree(l) ==
    /\ loads[l].stage = "asked"
    /\ loads' = [loads EXCEPT ![l].stage = "read", ![l].tree = Tree(row),
                              ![l].asOf = changes]
    /\ UNCHANGED <<table, calls, store, page>>

\* The end of a handler that awaited a reload: close the dialog it belongs to;
\* handleEditorSave loads once more.
CloseDialog(then) == dialog' = IF dialog.kind = then THEN Closed ELSE dialog
NextLoad(then) ==
    IF then \in {"editor", "reload"} THEN [Idle EXCEPT !.stage = "asked"] ELSE Idle

ShowTree(l) ==
    /\ loads[l].stage = "read"
    /\ shown' = loads[l].tree
    /\ asOf' = loads[l].asOf
    /\ best' = IF best > loads[l].asOf THEN best ELSE loads[l].asOf
    /\ CloseDialog(loads[l].then)
    /\ loads' = [loads EXCEPT ![l] = NextLoad(loads[l].then)]
    /\ error' = (error /\ loads[l].then \notin {"editor", "reload"})
    /\ UNCHANGED <<table, calls, tabs, active, selected, activity, sidebar, steps>>

FailLoad(l) ==
    /\ loads[l].stage = "asked"
    /\ CloseDialog(loads[l].then)
    /\ loads' = [loads EXCEPT ![l] = NextLoad(loads[l].then)]
    /\ error' = (loads[l].then \notin {"editor", "reload"})
    /\ UNCHANGED <<table, calls, shown, tabs, active, selected, asOf, best,
                   activity, sidebar, steps>>

LastTab(ts) == IF ts = <<>> THEN NoKey ELSE ts[Len(ts)]
TabsWithout(id) == Without(tabs, {t \in Range(tabs) : t.asset = id})

\* Mutant: the tree is not loaded again.
AnswerChangeOnly(c) ==
    /\ c \in calls /\ c.stage = "done" /\ c.op # "delete"
    /\ calls' = calls \ {c}
    /\ UNCHANGED <<table, loads, store, page>>

\* createAsset, updateAsset, renameAsset and the moves reload the tree.
AnswerChange(c) ==
    /\ c \in calls /\ c.stage = "done" /\ c.op # "delete"
    /\ calls' = calls \ {c}
    /\ StartLoad(c.then)
    /\ UNCHANGED <<table, shown, tabs, active, selected, asOf, best, page>>

\* deleteAsset closes the tabs of this asset, then reloads.
AnswerDelete(c) ==
    /\ c \in calls /\ c.stage = "done" /\ c.op = "delete"
    /\ calls' = calls \ {c}
    /\ tabs' = TabsWithout(c.id)
    /\ active' = IF active \in Range(tabs') THEN active ELSE LastTab(tabs')
    /\ StartLoad(c.then)
    /\ UNCHANGED <<table, shown, selected, asOf, best, page>>

\* The store reports a failed change in error; a failed move is only a message.
\* The dialog that asked for the change says it succeeded and closes.
AnswerFailed(c) ==
    /\ c \in calls /\ c.stage = "failed"
    /\ calls' = calls \ {c}
    /\ CloseDialog(c.then)
    /\ IF c.then \in {"editor", "reload"}
       THEN StartLoad("nothing")
       ELSE error' = (error \/ c.op # "move") /\ UNCHANGED loads
    /\ UNCHANGED <<table, shown, tabs, active, selected, asOf, best,
                   activity, sidebar, steps>>

-----------------------------------------------------------------------------
(* The tabs.                                                                *)

\* App renders the tab bar and the tab views only outside a full-screen view.
FullscreenViews == {"settings", "chat"}
SidebarPanels == {"assets", "proxy", "forwards", "toolbox", "emulator", "music", "git"}
Activities == SidebarPanels \cup FullscreenViews
TabsVisible == activity \notin FullscreenViews
Panel == IF sidebar /\ activity \in SidebarPanels THEN activity ELSE "none"
TreeIsOpen == Panel = "assets" /\ dialog = Closed

OpenTab(tab) ==
    /\ Step
    /\ tabs' = IF tab \in Range(tabs) THEN tabs ELSE Append(tabs, tab)
    /\ active' = tab
    /\ UNCHANGED <<table, calls, loads, shown, selected, error, asOf, best,
                   dialog, activity, sidebar>>

SetActiveTab(tab) ==
    /\ TabsVisible /\ dialog = Closed /\ tab \in Range(tabs)
    /\ active' = tab
    /\ UNCHANGED <<table, calls, loads, shown, tabs, selected, error, asOf, best, page>>

\* Mutant: the closed tab stays active.
CloseTabOnly(tab) ==
    /\ TabsVisible /\ dialog = Closed /\ tab \in Range(tabs)
    /\ tabs' = Without(tabs, {tab})
    /\ UNCHANGED <<table, calls, loads, shown, active, selected, error, asOf, best, page>>

CloseTab(tab) ==
    /\ TabsVisible /\ dialog = Closed /\ tab \in Range(tabs)
    /\ tabs' = Without(tabs, {tab})
    /\ active' = IF active = tab THEN LastTab(tabs') ELSE active
    /\ UNCHANGED <<table, calls, loads, shown, selected, error, asOf, best, page>>

\* A double click opens a row of the shown tree; PostgreSQL hosts connect
\* instead (module PGTree) and open tabs from their table nodes.
HostTab(a) == [view |-> IF Kind[a] = "postgresql" THEN "tableList" ELSE Kind[a], asset |-> a]
DoubleClickHost(a) ==
    /\ TreeIsOpen /\ a \in Hosts \cap DOMAIN shown
    /\ OpenTab(HostTab(a))

ToolTab == [view |-> "toolbox", asset |-> NoKey]
OpenTool ==
    /\ Panel = "toolbox"
    /\ OpenTab(ToolTab)

TabViews == {"ssh", "local_terminal", "tableList", "redis", "web_bookmark",
             "rest_client", "todo", "memo", "toolbox", "emulator", "music"}
\* The tab views that exist, visible or not.  A type without a view renders none.
MountedViews ==
    IF TabsVisible THEN {t \in Range(tabs) : t.view \in TabViews} ELSE {}

-----------------------------------------------------------------------------
(* The activity bar.                                                        *)

\* What handlers of an AssetTree that is gone still do: they only reload.
Detached(then) == IF then \in {"editor", "reload"} THEN "reload" ELSE "nothing"
DetachAll ==
    calls' = {[c EXCEPT !.then = Detached(c.then)] : c \in calls}

\* Clicking the shown activity folds or unfolds its panel; AssetTree loads the
\* tree whenever it is mounted and drops its own state when it is not.
ShowActivity(key) ==
    /\ Step
    /\ activity' = key
    /\ sidebar' = (key # activity \/ ~sidebar)
    /\ DetachAll
    /\ LET gone == [l \in Loads |-> [loads[l] EXCEPT !.then = Detached(@)]]
           mounts == activity' = "assets" /\ sidebar' /\ Panel # "assets"
       IN  IF mounts
           THEN /\ error' = FALSE
                /\ \E l \in FreeLoads :
                      loads' = [gone EXCEPT ![l] = [Idle EXCEPT !.stage = "asked"]]
           ELSE loads' = gone /\ UNCHANGED error
    /\ UNCHANGED <<table, shown, tabs, active, selected, asOf, best, dialog>>

\* A modal over the tree covers the bar.
SelectActivity(key) == dialog = Closed /\ ShowActivity(key)

-----------------------------------------------------------------------------
(* The rows of the asset tree and their dialogs.                            *)

NewIds == Ids \ (DOMAIN row \cup {c.id : c \in calls})
Ask(op, id, to, then) ==
    /\ Step /\ Cardinality(calls) < MaxCalls
    /\ calls' = calls \cup
          {[op |-> op, id |-> id, to |-> to, then |-> then, stage |-> "asked", path |-> <<>>]}

\* treeData: a node for each asset of the tree, and below a PostgreSQL host the
\* nodes of its databases.  The headers that gather the hosts of a type have none.
TreeNodes == DOMAIN shown \cup {PgNode}

\* onSelect and onRightClick, which keep database nodes selected as well.
SelectKey(k) ==
    /\ TreeIsOpen /\ k \in TreeNodes
    /\ selected' = k
    /\ UNCHANGED <<table, calls, loads, shown, tabs, active, error, asOf, best, page>>

\* What the context menu and the toolbar offer.
Offered ==
    {"group", "picker", "editor"} \cup
    (IF selected = NoKey THEN {} ELSE {"rename", "move", "delete"}) \cup
    (IF selected \in Hosts \cap DOMAIN shown THEN {"edit"} ELSE {})

SetDialog(kind, id) ==
    /\ dialog' = [kind |-> kind, id |-> id]
    /\ UNCHANGED <<table, calls, loads, store, activity, sidebar, steps>>

OpenNewDialog == TreeIsOpen /\ \E kind \in {"group", "picker", "editor"} : SetDialog(kind, NoKey)
PickType == dialog.kind = "picker" /\ SetDialog("editor", NoKey)
HandleEdit == TreeIsOpen /\ "edit" \in Offered /\ SetDialog("editor", selected)
HandleRename == TreeIsOpen /\ selected \in DOMAIN shown /\ SetDialog("rename", selected)
HandleDelete == TreeIsOpen /\ selected \in DOMAIN shown /\ SetDialog("delete", selected)
Cancel == dialog # Closed /\ SetDialog("none", NoKey)

\* A host's new sibling goes below the host's parent; any other selection, a
\* database node or a deleted row included, becomes the parent itself.
GetTargetParentId ==
    IF selected \in Hosts \cap DOMAIN shown THEN shown[selected]
    ELSE IF selected = NoKey THEN Root ELSE selected

HandleCreateGroup ==
    /\ dialog.kind = "group"
    /\ \E id \in NewIds \cap Groups :
          Ask("create", id, IF selected \in Groups \cap DOMAIN shown THEN selected ELSE Root,
              "group")
    /\ UNCHANGED <<table, loads, store, dialog, activity, sidebar>>

\* The editor stays open until the answer, and its button enabled.
HandleEditorSave ==
    /\ dialog.kind = "editor"
    /\ IF dialog.id # NoKey
       THEN Ask("update", dialog.id, GetTargetParentId, "editor")
       ELSE \E id \in NewIds \cap Hosts : Ask("create", id, GetTargetParentId, "editor")
    /\ UNCHANGED <<table, loads, store, dialog, activity, sidebar>>

DoRename ==
    /\ dialog.kind = "rename"
    /\ Ask("rename", dialog.id, Root, "rename")
    /\ UNCHANGED <<table, loads, store, dialog, activity, sidebar>>

ConfirmDelete ==
    /\ dialog.kind = "delete"
    /\ Ask("delete", dialog.id, Root, "nothing")
    /\ dialog' = Closed
    /\ UNCHANGED <<table, loads, store, activity, sidebar>>

MoveTargets == ((Groups \cap DOMAIN shown) \ {selected}) \cup {Root}

HandleMoveTo(target) ==
    /\ TreeIsOpen /\ "move" \in Offered /\ target \in MoveTargets
    /\ Ask("move", selected, target, "nothing")
    /\ UNCHANGED <<table, loads, store, dialog, activity, sidebar>>

\* A drag and its onUp: dropped on a group the row moves into it, on a host next
\* to it.
DropTarget(over) == IF over \in Groups THEN over ELSE shown[over]
OnUp(id, over) ==
    /\ TreeIsOpen /\ {id, over} \subseteq DOMAIN shown
    /\ over # id /\ DropTarget(over) # id
    /\ Ask("move", id, DropTarget(over), "nothing")
    /\ UNCHANGED <<table, loads, store, dialog, activity, sidebar>>

Refresh ==
    /\ TreeIsOpen /\ Step
    /\ StartLoad("nothing")
    /\ UNCHANGED <<table, calls, shown, tabs, active, selected, asOf, best,
                   dialog, activity, sidebar>>

\* What each part of the page lets the user do.
TreeToolbar == Refresh \/ OpenNewDialog
TreeMenu ==
    \/ HandleEdit \/ HandleRename \/ HandleDelete
    \/ \E g \in Groups \cup {Root} : HandleMoveTo(g)
TreeModals == Cancel \/ HandleCreateGroup \/ HandleEditorSave \/ DoRename \/ ConfirmDelete
TreeClicks ==
    \/ \E k \in Ids \cup {PgNode} : SelectKey(k)
    \/ \E a \in Hosts : DoubleClickHost(a)
Drag == \E id, over \in Ids : OnUp(id, over)
TabStrip == \E tab \in Range(tabs) : SetActiveTab(tab) \/ CloseTab(tab)
ActivityBar == \E key \in Visits \cap Activities : SelectActivity(key)

UserNext ==
    \/ TreeToolbar \/ TreeMenu \/ TreeModals \/ PickType \/ TreeClicks \/ Drag
    \/ TabStrip \/ ActivityBar \/ OpenTool

Next ==
    \/ UserNext
    \/ \E c \in calls : \/ Perform(c) \/ DeleteChildren(c) \/ DeleteRow(c) \/ Refuse(c)
                        \/ AnswerChange(c) \/ AnswerDelete(c) \/ AnswerFailed(c)
    \/ \E l \in Loads : ReadTree(l) \/ ShowTree(l) \/ FailLoad(l)

Spec == Init /\ [][Next]_vars

-----------------------------------------------------------------------------
(* Properties.                                                              *)

TypeOK ==
    /\ DOMAIN row \subseteq Ids /\ Range(row) \subseteq Ids \cup {Root, PgNode}
    /\ \A l \in Loads : loads[l].stage \in {"idle", "asked", "read"}
    /\ selected \in Ids \cup {PgNode, NoKey}
    /\ dialog.kind \in {"none", "group", "picker", "editor", "rename", "delete"}
    /\ activity \in Activities /\ sidebar \in BOOLEAN /\ error \in BOOLEAN
    /\ dialog # Closed => Panel = "assets"
    /\ \A c \in calls : c.path # <<>> <=> c.stage = "walking"
    /\ asOf <= best /\ best <= changes

\* The tab on top is one of the open tabs, and there is one while any is open,
\* whatever closeTab, deleteAsset and openTab do in between; no tab is open twice.
ActiveIsOpen ==
    /\ active = NoKey <=> tabs = <<>>
    /\ active # NoKey => active \in Range(tabs)
    /\ Cardinality(Range(tabs)) = Len(tabs)

\* Once nothing is under way and nothing failed, the page has been shown a tree
\* with every change, and shows the table as it is unless an older GetTree
\* answer overtook that one (connectionStore.ts:76 takes answers as they come).
Quiet == calls = {} /\ \A l \in Loads : loads[l] = Idle
QuietTreeIsCurrent ==
    (Quiet /\ ~error /\ changes > 0) =>
        /\ best = changes
        /\ asOf = best => shown = Tree(row)

\* A row goes out of the tree only with its own deletion, or when it, or a group
\* it is in, is put below a row that does not hang from a root (below itself, or
\* below one that is gone), or was put below a row whose children a deletion under
\* way had read already.  deleteChildren leaves no other orphan, also when two of
\* them walk the same rows or one fails half way, and neither a late update nor a
\* deletion that races a move cuts off a row it is not about.
RowsStayReachable ==
    [][\A i \in DOMAIN Tree(row) \ DOMAIN Tree(row') :
          \/ i \notin DOMAIN row'
          \/ \E g \in DOMAIN row' : /\ row'[g] # row[g]
                                   /\ row'[g] \notin DOMAIN Tree(row') \cup {Root}
                                   /\ i \in Below(row', g) \cup {g}
          \/ \E l \in late : /\ l[1] \in DOMAIN row /\ row[l[1]] = l[2]
                             /\ l[2] \notin DOMAIN row'
                             /\ i \in Below(row, l[1]) \cup {l[1]}]_vars

=============================================================================
