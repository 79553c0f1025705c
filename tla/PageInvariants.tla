--------------------------- MODULE PageInvariants ---------------------------
(***************************************************************************)
(* The inductive invariants of the pages.  <Page>Inv is made of named      *)
(* parts: <Page>Fields says what the fields and the calls of the page can  *)
(* hold, the others how the page, its calls and Go's part fit.  PageInv is *)
(* the invariant of the page a behaviour is about.                         *)
(***************************************************************************)
EXTENDS Pages, Lists

-----------------------------------------------------------------------------
\* SSHView.tla
\* What the records of the view can hold.
SSHFields ==
    /\ DOMAIN ui = {"tabs", "active", "first", "connected", "connecting", "info", "mounted",
                    "late"}
    /\ ui.tabs \in Seq(Sessions \cup {Nothing}) /\ ui.first \in Sessions \cup {Nothing}
    /\ ui.connected \in BOOLEAN /\ ui.connecting \in BOOLEAN /\ ui.late \in BOOLEAN
    /\ back \in [live : SUBSET Sessions, ended : SUBSET Sessions, used : SUBSET Sessions]
    /\ calls \subseteq [op : {"connect", "shell"}, of : Sessions \cup {Nothing},
                        sid : Sessions \cup {Nothing}]

\* A session is used up once opened, and has ended or not.
SSHOpened ==
    /\ back.live \subseteq back.used /\ back.ended \subseteq back.used
    /\ back.live \cap back.ended = {}
    /\ SSH!Range(ui.tabs) \subseteq back.used \cup {Nothing}
    /\ \A c \in calls : c.sid \in back.used \cup {Nothing}

\* One connect is under way while the view says so, and then it is not connected.
SSHConnects ==
    /\ ui.connecting => ~ui.connected
    /\ ui.mounted => \A c, d \in SSH!CallsOf({"connect"}) : c = d /\ ui.connecting

\* SessionsOwned, also of a view about to be connected.
SSHShells ==
    ui.mounted /\ ~ui.late =>
        /\ back.live \subseteq SSH!Range(ui.tabs) \cup {c.sid : c \in calls}
        /\ ~ui.connected => SSH!Range(ui.tabs) \cap back.live = {}

SSHOnTop == ui.tabs # <<>> => ui.active \in SSH!Range(ui.tabs)

SSHInv == SSHFields /\ SSHOpened /\ SSHConnects /\ SSHShells /\ SSHOnTop

-----------------------------------------------------------------------------
\* LocalTerminalView.tla
\* What the records of the view and of the manager can hold.
LocalFields ==
    /\ DOMAIN ui = {"tabs", "active", "connected", "connecting", "mounted", "late"}
    /\ ui.tabs \in Seq(Sessions \cup {Nothing})
    /\ ui.connected \in BOOLEAN /\ ui.connecting \in BOOLEAN
    /\ DOMAIN back = {"listed", "alive", "ended", "used"}
    /\ back.used \subseteq Sessions
    /\ calls \subseteq [op : {"connect", "shell"}, sid : Sessions \cup {Nothing}]

\* A shell that runs is in the map or about to be; its session is used up, and has not
\* ended.
LocalOpened ==
    /\ \A s \in back.alive : s \in back.listed \/ \E c \in calls : c.sid = s
    /\ back.alive \subseteq back.used
    /\ back.listed \subseteq back.used /\ back.ended \subseteq back.used
    /\ back.alive \cap back.ended = {}
    /\ Local!Range(ui.tabs) \subseteq back.used \cup {Nothing}
    /\ \A c \in calls : c.sid \in back.used \cup {Nothing}

\* One connect is under way while the view says so, and then it is not connected.
LocalConnects ==
    /\ ui.connecting => ~ui.connected
    /\ ui.mounted => \A c, d \in Local!CallsOf({"connect"}) : c = d /\ ui.connecting

\* The second part of SessionsOwned, also of a view about to be connected.
LocalShells ==
    ui.mounted /\ ~ui.late =>
        /\ back.alive \subseteq Local!Range(ui.tabs) \cup {c.sid : c \in calls}
        /\ ~ui.connected => Local!Range(ui.tabs) \cap back.alive = {}

LocalOnTop == ui.tabs # <<>> => ui.active \in Local!Range(ui.tabs)

LocalInv == LocalFields /\ LocalOpened /\ LocalConnects /\ LocalShells /\ LocalOnTop

-----------------------------------------------------------------------------
\* FileBrowser.tla
\* What the fields of the page can hold: the path is the entry of the history it
\* stands at.
BrowserFields ==
    /\ DOMAIN ui = {"dir", "hist", "pos", "rows", "loading", "dialog", "clip", "found", "hasty"}
    /\ ui.dir \in Things /\ ui.rows \in Things \cup {Nothing}
    /\ ui.hist \in Seq(Things) /\ ui.pos \in 1 .. Len(ui.hist) /\ ui.dir = ui.hist[ui.pos]
    /\ ui.loading \in BOOLEAN /\ ui.hasty \in BOOLEAN
    /\ \A c \in calls : c.dir \in Things \cup {Nothing}
    /\ \A c \in calls : c.op = "list" => c.rows = c.dir
    /\ \A w \in ui.dialog : w.op = "change" /\ w.dir \in Things \cup {Nothing}
    /\ \A w \in ui.clip : w.op \in {"copy", "cut"}

\* Unless something hasty happened, what is under way and what a dialog asks for
\* is of the path shown, and so are the rows once loaded.
BrowserFresh ==
    ~ui.hasty =>
        /\ ~ui.loading => ui.rows = ui.dir
        /\ \A c \in Browser!ListsLater : c.rows = ui.dir /\ c.dir = ui.dir
        /\ \A w \in ui.dialog : w.rows = ui.dir /\ w.dir = ui.dir

BrowserInv == BrowserFields /\ BrowserFresh

-----------------------------------------------------------------------------
\* FileViewer.tla
\* What the dialog can hold; a text is modified only in an open, edited and loaded one.
ViewerFields ==
    /\ DOMAIN ui = {"open", "file", "text", "loading", "editing", "modified", "reopened", "failed"}
    /\ \A c \in calls : c.op = "read" => c.text = c.file
    /\ ui.editing \in BOOLEAN /\ ui.reopened \in BOOLEAN
    /\ ui.modified => ui.editing /\ ui.open /\ ~ui.loading
    /\ ui.editing => ui.open

\* Unless a file was opened while another was read, one read is under way, of the
\* file shown, which is loading.
ViewerReads ==
    ~ui.reopened =>
        /\ \A c \in Viewer!CallsOf({"read"}) : c.file = ui.file /\ ui.loading
        /\ \A c, d \in Viewer!CallsOf({"read"}) : c = d

\* Then what is on its way to a file, too, was read from it.
ViewerWrites ==
    ~ui.reopened => \A c \in Viewer!CallsOf({"write"}) : c.text \in {c.file, Nothing}

ViewerInv == ViewerFields /\ ViewerReads /\ ViewerWrites /\ Viewer!ShownBelongs /\ Viewer!UntouchedKept

-----------------------------------------------------------------------------
\* TransferQueue.tla
TransItems == [id : Nat, name : Things \cup {Nothing}, up : BOOLEAN,
               status : Transfers!Ended \cup {"pending", "uploading"}, to : Things]

TransCalls == [op : {"start", "download", "cancel"}, at : Nat, name : Things \cup {Nothing}, host : Things]
              \cup [op : {"upload"}, at : Nat \ {0}, name : Things \cup {Nothing}, host : Things]

\* What the records of the view and its calls can hold; one loop works at the queue.
TransFields ==
    /\ DOMAIN ui = {"queue", "last", "cancelOne", "broken", "host", "disturbed"}
    /\ ui.queue \in Seq(TransItems) /\ ui.last \in Nat /\ ui.host \in Things
    /\ ui.cancelOne \in BOOLEAN /\ ui.broken \in BOOLEAN /\ ui.disturbed \in BOOLEAN
    /\ back \in Nat
    /\ calls \subseteq TransCalls
    /\ \A c, d \in Transfers!Uploads : c = d

\* No two items have a number in common.
Numbered(q, last) ==
    \A i, j \in DOMAIN q : q[i].id \in 1 .. last /\ (q[i].id = q[j].id => i = j)

\* Nothing is shown as uploading, and what waits was dropped on this session.
Idle(q) ==
    \A i \in DOMAIN q :
        /\ q[i].up => q[i].status # "uploading"
        /\ q[i].status = "pending" => q[i].up /\ q[i].to = ui.host

\* The second direction of WorkOwned: the call under way is of an item shown as
\* running; and what waits, waits for the session the loop is on.
TransOwned ==
    /\ Transfers!WorkOwned
    /\ ~ui.disturbed =>
          /\ Numbered(ui.queue, ui.last)
          /\ \A c \in Transfers!Uploads : c.host = ui.host
          /\ \A c \in Transfers!CallsOf({"upload"}) :
                c.at \in DOMAIN ui.queue /\ ui.queue[c.at].up /\ ui.queue[c.at].status = "uploading"
          /\ \A i \in DOMAIN ui.queue :
                ui.queue[i].status = "pending" => ui.queue[i].up /\ ui.queue[i].to = ui.host

TransInv == TransFields /\ TransOwned

\* The items of one queue are those of another, with new ones behind them; what has
\* ended is as it was.
Follows(p, q, last) ==
    /\ \A i \in DOMAIN q : /\ i \in DOMAIN p /\ p[i].id = q[i].id
                           /\ q[i].up /\ q[i].status \in Transfers!Ended => p[i] = q[i]
    /\ \A i \in DOMAIN p : i \in DOMAIN q \/ p[i].id > last

-----------------------------------------------------------------------------
\* PGTree.tla
\* The calls that load and the others.
TreeLoads == [op : {"list", "export", "import"}, sid : Things, db : Things, step : {"switch", "read"}]

TreeWorks == [op : {"connect"}, sid : Things \cup {Nothing}, db : {Nothing}]
             \cup [op : {"databases", "create", "drop", "refresh"}, sid : Things, db : Things \cup {Nothing}]

\* What the records of the tree and of Go can hold.
TreeFields ==
    /\ DOMAIN ui = {"sid", "dbs", "cur", "shown", "loading", "sure", "left"}
    /\ ui.sid \in Things \cup {Nothing} /\ ui.dbs \subseteq Things /\ ui.cur \in Things \cup {Nothing}
    /\ ui.shown \in [Things -> Things \cup {Nothing}] /\ ui.sure \in BOOLEAN /\ ui.left \subseteq Things
    /\ DOMAIN back = {"open", "cur", "dbs", "wrong"}
    /\ back.open \subseteq Things /\ back.cur \in [Things -> Things] /\ back.dbs \subseteq Things
    /\ calls \subseteq TreeLoads \cup TreeWorks
    /\ \A c \in calls : c.op = "create" => c.db \in Things

\* Every session the page or a call has is one Go opened.
TreeOpened ==
    /\ ui.sid \in back.open \cup {Nothing}
    /\ \A c \in calls : c.sid \in back.open \cup {Nothing}

\* A session that works is the page's or one it let go; it has let none go while it
\* has one.
TreeOwned ==
    ui.sure =>
        /\ Tree!SessionsOwned
        /\ \A c \in calls : c.op # "connect" => c.sid \in {ui.sid} \cup ui.left
        /\ ui.sid # Nothing => ui.left = {}

\* The page knows the database its session is on, and a load that reads is on its own.
TreeKnows ==
    ui.sure =>
        /\ ui.cur # Nothing /\ ui.sid # Nothing => back.cur[ui.sid] = ui.cur
        /\ ui.sid = Nothing /\ ui.left = {} => ui.cur = Nothing
        /\ \A c, d \in Tree!Loads : c = d
        /\ \A c \in Tree!Loads : c.step = "read" => back.cur[c.sid] = c.db

TreeInv == TreeFields /\ TreeOpened /\ TreeOwned /\ TreeKnows /\ Tree!ShownBelongs /\ Tree!UntouchedKept

-----------------------------------------------------------------------------
\* ConnectionEditor.tla
\* What the form can hold: a shell only by hand, and of a field that was typed
\* what was typed; the way to authenticate is chosen for ssh only.
EditorFields ==
    /\ DOMAIN ui = {"open", "editing", "kind", "tab", "auth", "form", "typed"}
    /\ DOMAIN ui.form = Editor!Fields /\ ui.form["shell"] \in {"blank", "typed"}
    /\ ui.typed \subseteq Editor!Fields /\ \A f \in ui.typed : ui.form[f] = "typed"
    /\ ui.kind \in {"ssh", "rdp", "local"} /\ (ui.kind # "ssh" => ui.auth = "password")

\* What is stored of a connection is its own, typed, or empty.
EditorStored ==
    /\ DOMAIN back = Things
    /\ \A a \in Things : DOMAIN back[a] = Editor!Stored /\ \A f \in Editor!Stored : back[a][f] \in {a, "typed", "blank"}

\* While a connection is edited, its form is of its type and holds what is stored
\* of it, but for what was typed.
EditorShows ==
    ui.editing # Nothing =>
        /\ ui.open /\ ui.editing \in Things /\ ui.kind = TypeOf[ui.editing]
        /\ \A f \in Editor!Stored \ ui.typed : ui.form[f] = back[ui.editing][f]

EditorInv == EditorFields /\ EditorStored /\ EditorShows

-----------------------------------------------------------------------------
\* MusicPlayer.tla
\* What the fields of the player can hold, and which tracks its calls are for.
PlayerFields ==
    /\ DOMAIN ui = {"track", "playing", "lyrics", "playlist", "mode", "history", "volume",
                    "muted", "hasty"}
    /\ ui.track \in Things \cup {Nothing} /\ ui.mode \in 1 .. 3
    /\ ui.playing \in BOOLEAN /\ ui.hasty \in BOOLEAN /\ back \in BOOLEAN
    /\ ui.playlist \in Seq(Things) /\ ui.history \in Seq(Things)
    /\ Len(ui.history) <= Bound
    /\ \A c \in calls : c.track \in Things /\ c.step \in {"url", "sound", "lyrics"}

\* The history is headed by the track that is on and names none twice.
PlayerHistory ==
    /\ ui.track # Nothing => ui.history # <<>> /\ Head(ui.history) = ui.track
    /\ Distinct(ui.history)

\* While no track was asked for during another's way there is one call, and behind
\* the address it is for the track that is on.
PlayerLyrics ==
    ~ui.hasty =>
        /\ \A c, d \in calls : c = d
        /\ \A c \in calls : c.step # "url" => c.track = ui.track
        /\ ui.lyrics \in {ui.track, Nothing}

PlayerInv == PlayerFields /\ PlayerHistory /\ PlayerLyrics /\ Player!SoundIsShown

-----------------------------------------------------------------------------
\* TabBar.tla
\* The calls of the bar that is there.
ToolsOwn(op) == {c \in calls : c.op = op /\ c.here}

\* What the fields of the bar and its calls can hold.
ToolsFields ==
    /\ DOMAIN ui = {"open", "remain", "running", "finished", "tick", "queued", "capturing",
                    "searching", "results", "twice", "left"}
    /\ ui.tick \in {0, 1} /\ ui.remain \in 0 .. Bound
    /\ ui.running \in BOOLEAN /\ ui.finished \in BOOLEAN /\ ui.left \in BOOLEAN
    /\ ui.capturing \in BOOLEAN /\ ui.searching \in BOOLEAN /\ ui.twice \in BOOLEAN
    /\ back \subseteq {0, 1, Tools!Gone}
    /\ \A c \in calls : DOMAIN c = {"op", "word", "here"}

\* One interval of this bar ticks while the countdown runs, and it has not ended.
ToolsTicks ==
    /\ ui.running => back \ {Tools!Gone} = {ui.tick} /\ ui.remain > 0
    /\ ~ui.running => back \ {Tools!Gone} = {} /\ (ui.finished \/ ui.remain = 0)
    /\ Tools!Gone \in back => ui.left

\* Unless the keys doubled them, one screenshot and one search, each with its spinner.
ToolsSpin ==
    ~ui.twice =>
        /\ \A c, d \in ToolsOwn("capture") : c = d
        /\ \A c, d \in ToolsOwn("search") : c = d
        /\ ui.capturing <=> ToolsOwn("capture") # {}
        /\ ui.searching <=> ToolsOwn("search") # {}

ToolsInv == ToolsFields /\ ToolsTicks /\ ToolsSpin

-----------------------------------------------------------------------------
\* MusicPanel.tla
\* The pages of a search up to one.
MusicRun(w, nth) == {<<w, i>> : i \in 1 .. nth}

\* What the fields of the page can hold.
MusicFields ==
    /\ DOMAIN ui = {"tab", "word", "tracks", "page", "more", "searching", "loadingMore", "lists",
                    "selected", "shown", "offline", "hasty"}
    /\ ui.word \in Things \cup {Nothing} /\ ui.page \in 1 .. Bound /\ ui.hasty \in BOOLEAN
    /\ ui.lists \subseteq Things /\ back.lists \subseteq Things
    /\ DOMAIN back = {"lists", "torn"}
    /\ \A c \in calls : c.op = "more" => c.page \in 1 .. Bound

\* Unless something hasty happened, one search or one further page is under way; the
\* page is behind the tracks it was asked for, which are all of the word before it.
MusicTracks ==
    ~ui.hasty =>
        /\ \A c, d \in Music!CallsOf({"search", "more"}) : c = d
        /\ \A c \in Music!CallsOf({"search"}) : c.of = ui.word
        /\ \A c \in Music!CallsOf({"more"}) :
              /\ ui.loadingMore /\ ui.tracks # {}
              /\ c.of = ui.word /\ c.held = ui.tracks /\ c.page = ui.page + 1
        /\ \E w \in Things \cup {Nothing} : ui.tracks # {} => ui.tracks = MusicRun(w, ui.page)
        /\ (Music!CallsOf({"search"}) = {} /\ ui.tracks # {}) => ui.tracks = MusicRun(ui.word, ui.page)
        /\ ui.more => ui.tracks # {}

\* Then the tracks of a playlist, shown or to come, are of the one selected, and none
\* was taken out of another.
MusicLists ==
    ~ui.hasty => /\ ui.shown \in {ui.selected, Nothing} /\ ~back.torn
                 /\ \A c \in Music!CallsOf({"tracks"}) : c.of = ui.selected

MusicInv == MusicFields /\ MusicTracks /\ MusicLists

-----------------------------------------------------------------------------
\* PGTableData.tla
\* A call or a question of the page, and whether its rows are of the page it names.
RowsCall(c) ==
    /\ DOMAIN c = {"op", "query", "rows", "todo"}
    /\ c.op \in {"load", "commit", "delete", "insert"} => c.query \in Rows!Queries

RowsOwn(c) == c.op \in {"commit", "delete"} => \A m \in c.todo : m[2] = c.rows

\* What the fields of the page can hold.
RowsFields ==
    /\ DOMAIN ui = {"page", "order", "unapplied", "rows", "loading", "keys", "edit", "mods",
                    "selected", "dialog", "inserting", "sub", "subLoading", "hasty"}
    /\ ui.rows \in Rows!Queries \cup {Nothing} /\ ui.page \in (1 .. Bound) /\ ui.order \in Things
    /\ ui.hasty \in BOOLEAN /\ ui.unapplied \in BOOLEAN
    /\ ui.mods \subseteq (1 .. Bound) \X Rows!Queries /\ ui.edit \subseteq (1 .. Bound) \X Rows!Queries
    /\ \A c \in calls \cup ui.dialog : RowsCall(c)
    /\ \A w \in ui.dialog : w.op = "delete"

\* Unless something hasty happened, the edits, the cell being edited, the selection
\* and what is under way are of the rows on the page.
RowsMeant ==
    ~ui.hasty =>
        /\ \A m \in ui.mods \cup ui.selected \cup ui.edit : m[2] = ui.rows
        /\ \A c \in calls \cup ui.dialog : RowsOwn(c)
        /\ back = {}

\* A cell is edited while nothing is under way that brings other rows.
RowsEdit == ~ui.hasty /\ ui.edit # {} => Rows!Reloads = {} /\ ui.dialog = {} /\ ~ui.inserting

\* The calls that end in other rows.
RowsBrings(c) == c.op \in {"load", "commit", "delete", "insert"}

\* One such call at a time, for the order of the header or of a filter not applied; and
\* the rows are of the page shown, in that order if no load is to bring it.
RowsShown ==
    ~ui.hasty =>
        /\ \A c, d \in calls : RowsBrings(c) /\ RowsBrings(d) => c = d
        /\ \A c \in calls : c.op = "load" => c.query.order = ui.order \/ ui.unapplied
        /\ \A c \in calls \cup ui.dialog :
               c.op \in {"commit", "delete", "insert"} => c.query.order = ui.order
        /\ ui.rows # Nothing =>
               /\ ui.rows.page = ui.page
               /\ ui.rows.order = ui.order \/ ui.unapplied \/ \E c \in calls : c.op = "load"

RowsInv == RowsFields /\ RowsMeant /\ RowsEdit /\ RowsShown

-----------------------------------------------------------------------------
\* PGTables.tla
\* A call or a question of the page: what it does has been named.
TablesJob(c) ==
    /\ DOMAIN c = {"op", "todo", "named", "nth"}
    /\ c.op \in {"connect", "switch", "list", "read", "drop", "dropping", "rename", "paste"}
    /\ c.todo \subseteq (1 .. Bound)
    /\ c.op \in {"drop", "dropping", "paste"} =>
           c.todo \subseteq c.named /\ c.named \subseteq (1 .. Bound) /\ c.named # {}

\* What the fields of the page and the schema can hold.
TablesFields ==
    /\ DOMAIN ui = {"phase", "list", "loading", "search", "selected", "menu", "rename", "dialog",
                    "clip", "paste", "ai", "news"}
    /\ ui.news \in {"due", "seen", "overtaken", "failed"}
    /\ ui.list \subseteq (1 .. Bound) /\ ui.selected \subseteq (1 .. Bound) /\ ui.clip \subseteq (1 .. Bound)
    /\ ui.menu \in (1 .. Bound) \cup {0}
    /\ \A w \in ui.dialog : TablesJob(w) /\ w.op \in {"drop", "dropping", "paste"}
    /\ DOMAIN back = {"tables", "unmeant"} /\ back.tables \subseteq (1 .. Bound) /\ back.unmeant = {}

\* Before the page is ready one call is under way at a time, the connection's, and no
\* question can be open; after, the connection's is over.
TablesCalls ==
    /\ \A c \in calls : TablesJob(c)
    /\ \A c \in calls : c.op \in {"connect", "switch"} <=> ui.phase # "ready"
    /\ ui.phase # "ready" => ui.dialog = {} /\ \A c, d \in calls : c = d

\* A job that brings the tables there are: a load that has not read them or has read
\* these, or a change that ends in a load.
TablesComes(c) ==
    c.op \in {"list", "drop", "paste"} \/ (c.op = "read" /\ c.todo = back.tables)

\* A change that the list has seen is shown, and one that it has to see comes.
TablesNews ==
    /\ ui.phase # "ready" => ui.news = "due"
    /\ ui.news = "seen" => ui.list = back.tables
    /\ ui.phase = "ready" /\ ui.news = "due" => \E c \in calls : TablesComes(c)

TablesInv == TablesFields /\ TablesCalls /\ TablesNews

-----------------------------------------------------------------------------
\* RedisKeys.tla
\* A call of the page.
RedisJob(c) ==
    /\ DOMAIN c = {"op", "key", "was", "pattern", "more", "db"}
    /\ c.pattern \in Things /\ c.db \in (0 .. Bound - 1) /\ c.more \in BOOLEAN
    /\ c.op \in {"read", "change", "ttl", "rename"} => c.key \in Things
    /\ c.op = "connect" => c = Redis!Job("connect", Nothing)

\* What the fields of the page and the session can hold.
RedisFields ==
    /\ DOMAIN ui = {"connected", "connecting", "pattern", "listed", "more", "loading", "selected",
                    "value", "editor", "db", "creating", "hasty"}
    /\ ui.hasty \in BOOLEAN /\ ui.pattern \in Things
    /\ ui.selected \in Things \cup {Nothing} /\ ui.db \in (0 .. Bound - 1)
    /\ ui.listed \subseteq (0 .. Bound - 1) \X Things /\ ui.value \subseteq Things \X (0 .. Bound - 1)
    /\ DOMAIN back = {"db", "wrong"} /\ back.db \in (0 .. Bound - 1)
    /\ \A c \in calls : RedisJob(c)

\* Before the page is connected nothing else is under way, or open.
RedisFirst ==
    IF ui.connected THEN \A c \in calls : c.op # "connect"
    ELSE ~ui.creating /\ \A c \in calls : c.op = "connect" /\ ui.connecting

\* What a call under way goes by, the page still shows.
RedisAs(c) ==
    /\ c.op = "load" /\ c.more => ui.listed = {<<ui.db, c.pattern>>}
    /\ c.op \in {"read", "change", "ttl"} => c.key = ui.selected
    /\ c.op = "rename" => c.was = ui.selected
    /\ c.op \in {"change", "ttl", "rename"} => ui.value # {}
    /\ c.op = "switched" => c.db = back.db

\* A first page and the value of a renamed key are loaded together.
RedisPair(c, d) == c.op = "load" /\ ~c.more /\ d.op = "read"

\* Unless something hasty happened, one change is under way at a time, and what the
\* page shows is of one search, one key and the session's database but for what the
\* call under way brings.
RedisClean ==
    ~ui.hasty =>
        /\ \A c, d \in calls : c = d \/ RedisPair(c, d) \/ RedisPair(d, c)
        /\ \A c \in calls : RedisAs(c)
        /\ (\A c \in calls : c.op # "switched") => ui.db = back.db
        /\ (\A c \in calls : c.op # "load" \/ c.more) => \E p \in Things : ui.listed \subseteq {<<ui.db, p>>}
        /\ (\A c \in calls : c.op # "read") => ui.value = {} \/ ui.value = {<<ui.selected, ui.db>>}
        /\ back.wrong = {}

RedisInv == RedisFields /\ RedisFirst /\ RedisClean

-----------------------------------------------------------------------------
\* RestClient.tla
\* What the fields of the page can hold: a timer at a time, of this page and of an
\* earlier one; one load, until the text is there.
RestFields ==
    /\ DOMAIN ui = {"text", "loaded", "timer", "late", "status", "sending", "response", "asked",
                    "mixed", "crossed", "failed"}
    /\ ui.loaded \in BOOLEAN /\ ui.mixed \in BOOLEAN /\ ui.crossed \in BOOLEAN /\ ui.failed \in BOOLEAN
    /\ ui.timer \subseteq (Things \cup {Nothing}) /\ \A s, t \in ui.timer : s = t
    /\ ui.late \subseteq (Things \cup {Nothing}) /\ \A s, t \in ui.late : s = t
    /\ \A c, d \in Rest!CallsOf({"load"}) : c = d
    /\ ui.loaded => Rest!CallsOf({"load"}) = {}

\* What is to be saved is the text on the page, or a save of it is under way that
\* nothing can overtake; when neither is, the text is stored.
RestSaves ==
    ~ui.crossed /\ ~ui.failed =>
        /\ ui.late = {}
        /\ ~ui.loaded => ui.timer = {} /\ Rest!CallsOf({"save"}) = {}
        /\ ui.timer \subseteq {ui.text}
        /\ \A c, d \in Rest!CallsOf({"save"}) : c = d
        /\ ui.timer = {} => \A c \in Rest!CallsOf({"save"}) : c.text = ui.text
        /\ ui.loaded /\ ui.timer = {} /\ Rest!CallsOf({"save"}) = {}
           => ui.text = back \/ (back = Nothing /\ ui.text = Second)

\* Unless two requests were out at once, all that are out are the last one.
RestSends ==
    ~ui.mixed => /\ ui.response \in {Nothing, ui.asked}
                 /\ \A c \in Rest!CallsOf({"send"}) : c.text = ui.asked

RestInv == RestFields /\ RestSaves /\ RestSends

-----------------------------------------------------------------------------
\* TodoList.tla
\* A task, and a set of tasks of different IDs.
TodoRow(r) == DOMAIN r = {"id", "title", "done"} /\ r.id \in (1 .. Bound)

TodoTable(rows) == (\A r \in rows : TodoRow(r)) /\ \A r, s \in rows : r.id = s.id => r = s

\* A call of the page.
TodoJob(c) ==
    /\ DOMAIN c = {"op", "id", "row", "todo"} /\ TodoTable(c.row)
    /\ c.op \in {"add", "toggle", "edit", "delete", "clear", "load", "read"}
    /\ c.op = "edit" => \A r \in c.row : r.id = c.id
    /\ c.op \in {"load", "read", "add"} => c.todo = {}

\* What the fields hold.
TodoFields ==
    /\ DOMAIN ui = {"items", "day", "filter", "editing", "value", "focus", "made", "hasty"}
    /\ ui.hasty \in BOOLEAN /\ TodoTable(ui.items)
    /\ DOMAIN back = {"rows", "lost"} /\ TodoTable(back.rows)
    /\ \A c \in calls : TodoJob(c)

\* Every ID on the page, in Go or on its way was drawn, and a task on its way is of an
\* ID no other has.
TodoFresh ==
    /\ \A r \in ui.items \cup back.rows : r.id \in ui.made
    /\ \A c \in calls : \A r \in c.row \cup c.todo : r.id \in ui.made
    /\ \A c \in calls : c.op = "add" =>
          \A r \in c.row : /\ \A s \in ui.items \cup back.rows : s.id # r.id
                           /\ \A d \in calls \ {c} : \A s \in d.row \cup d.todo : s.id # r.id

\* What the page is given holds the tasks there are, and no more unless a clearing is
\* under way.
TodoSeen(rows) ==
    back.rows \subseteq rows /\ ((\A c \in calls : c.op # "clear") => rows = back.rows)

\* An edit and a clearing under way go by the completion as it is.
TodoDone(c) ==
    /\ c.op = "edit" => \A r \in back.rows, n \in c.row : r.id = n.id => n.done = r.done
    /\ c.op = "clear" => \A r \in back.rows, n \in c.todo : r.id = n.id => r.done

\* As long as the user waits for what was asked: nothing is lost, and what is read last
\* is what there is.
TodoClean ==
    ~ui.hasty =>
        /\ back.lost = {}
        /\ \A c, d \in calls : c.op \in {"load", "read"} /\ d.op \in {"load", "read"} => c = d
        /\ \A c, d \in calls : ~(c.op = "toggle" /\ d.op \in {"edit", "clear"})
        /\ \A c \in calls : TodoDone(c)
        /\ \A c \in calls : c.op = "read" => TodoSeen(c.row)
        /\ (\A c \in calls : c.op \notin {"load", "read"}) => TodoSeen(ui.items)

TodoInv == TodoFields /\ TodoFresh /\ TodoClean

-----------------------------------------------------------------------------
\* ChatStreams.tla
\* The questions on their way to SendMessage, and all that a question has under way.
ChatSends == {c \in calls : c.op = "send"}

ChatAll == ChatSends \cup back.streams \cup {back.events[i] : i \in DOMAIN back.events}

\* The fields of the records, and what an event, a stream and a call carry.
ChatFields ==
    /\ DOMAIN ui = {"mounted", "convs", "active", "messages", "streaming", "content", "sends",
                    "made", "cleared", "left", "lost", "moved", "hasty", "orphaned"}
    /\ DOMAIN back = {"convs", "msgs", "streams", "events"}
    /\ ui.active \in Things \cup {Nothing} /\ ui.sends \in 0 .. Bound
    /\ back.events \in Seq([conv : Things, nth : 1 .. Bound, done : BOOLEAN])
    /\ \A c \in calls : /\ DOMAIN c = {"op", "conv", "nth", "here"} /\ c.conv \in Things \cup {Nothing}
                        /\ c.op = "send" => c.conv \in Things /\ c.nth \in 1 .. Bound
    /\ \A s \in back.streams : /\ DOMAIN s = {"conv", "nth", "said", "on"}
                               /\ s.conv \in Things /\ s.nth \in 1 .. Bound

\* The last event of all ends a stream, and one stream at most is not told to end.
ChatEnded ==
    /\ back.streams = {} /\ back.events # <<>> => back.events[Len(back.events)].done
    /\ \A s, t \in back.streams : s.on /\ t.on => s = t

\* Before the page is left an answer is in one place: its question on the way, its
\* stream, or the events that end with the stream's last.
ChatOnePlace ==
    ~ui.left =>
        /\ \A c, d \in ChatSends : c = d
        /\ \A s, t \in back.streams : s = t
        /\ ChatSends # {} => back.streams = {} /\ back.events = <<>>
        /\ back.streams # {} => \A i \in 1 .. Len(back.events) : ~back.events[i].done
        /\ back.streams = {} =>
              \A i \in 1 .. Len(back.events) : back.events[i].done <=> i = Len(back.events)

\* A question under way keeps the spinner, or lost it when the page was left.
ChatSpinning ==
    /\ ~ui.streaming => \A q \in ChatAll : q.nth \in ui.lost
    /\ ~ui.left => ui.lost = {}

\* While the page is away nothing is on it, and only what Go goes on with is under way.
ChatAway ==
    ~ui.mounted =>
        /\ ui.left /\ ui.active = Nothing /\ ui.convs = {}
        /\ \A c \in calls : c.op = "send" \/ (c.op \in {"create", "delete"} /\ ~c.here)

\* An answer in the making is of the conversation on the page, or was under way when it
\* came on.
ChatTold ==
    ui.active # Nothing => \A q \in ui.content \cup ChatAll : q.conv = ui.active \/ q.nth \in ui.moved

ChatOwns == ChatFields /\ ChatEnded /\ ChatOnePlace /\ ChatSpinning /\ ChatAway /\ ChatTold

\* What most steps leave alone.
ChatUntouched ==
    /\ ChatSends' = ChatSends /\ back'.streams = back.streams /\ back'.events = back.events
    /\ ui'.streaming = ui.streaming /\ ui'.left = ui.left /\ ui'.lost = ui.lost

\* How what is shown may change with it.
ChatShowing ==
    \/ ui'.active = ui.active /\ ui'.content = ui.content /\ ui'.moved = ui.moved
    \/ ui'.active = ui.active /\ ui'.content = {} /\ ui'.moved = ui.moved
    \/ ui'.content = {} /\ ui'.moved = Chat!UnderWay
    \/ ui'.active = Nothing

\* The page is there, or nothing new is under way.
ChatThere ==
    \/ ui'.mounted
    \/ ui' = ui /\ calls' \subseteq calls

\* What the fields hold.
ChatTyped ==
    /\ ui.messages \cup back.msgs \subseteq [conv : Things, nth : 1 .. Bound, role : {"user", "assistant"}]
    /\ ui.hasty \in BOOLEAN /\ ui.orphaned \in BOOLEAN

\* Every conversation there is, is on the page or is on its way was drawn.
ChatMade ==
    /\ ui.made \subseteq Things /\ ui.convs \subseteq ui.made /\ back.convs \subseteq ui.made
    /\ ui.active \in ui.made \cup {Nothing}
    /\ \A m \in back.msgs : m.conv \in ui.made
    /\ \A s \in back.streams : s.conv \in ui.made
    /\ \A c \in calls : c.op \in {"send", "create", "listing"} => c.conv \in ui.made

\* What a question has under way is of a conversation there is, and that nobody deletes.
ChatKept ==
    ~ui.orphaned =>
        /\ \A m \in back.msgs : m.conv \in back.convs
        /\ \A c \in ChatSends \cup back.streams :
              c.conv \in back.convs /\ \A d \in calls : d.op = "delete" => d.conv # c.conv

\* Unless something hasty happened a load is of the conversation on the page, which is
\* not deleted unless the page goes with it, and a new one has no messages.
ChatNew(c) ==
    /\ c.conv # ui.active
    /\ \A m \in back.msgs : m.conv # c.conv
    /\ \A d \in ChatSends \cup back.streams : d.conv # c.conv
    /\ \A d \in calls : d.op \in {"create", "listing"} /\ d.conv = c.conv => d = c

ChatShown ==
    ~ui.hasty =>
        /\ \A c \in calls : c.op \in {"create", "listing"} => ChatNew(c)
        /\ ui.active # Nothing =>
              /\ \A c \in calls : c.op = "messages" => c.conv = ui.active
              /\ \A c \in calls : c.op = "delete" /\ (c.nth # 1 \/ ~c.here) => c.conv # ui.active
              /\ ~ui.cleared /\ ChatAll = {} /\ (\A c \in calls : c.op # "messages") =>
                    ui.messages = {m \in back.msgs : m.conv = ui.active}

ChatMore == ChatTyped /\ ChatMade /\ ChatKept /\ ChatShown

\* The whole invariant of the page.
ChatInv == ChatOwns /\ ChatMore

-----------------------------------------------------------------------------
\* Pages.tla
\* The inductive invariant: that of the page a behaviour is about.
PageInv ==
    /\ page \in {"ssh", "local", "browser", "viewer", "transfers", "tree", "editor", "player",
                "tools", "music", "rows", "tables", "redis", "rest", "todo", "chat"}
    /\ page = "ssh" => SSHInv
    /\ page = "local" => LocalInv
    /\ page = "browser" => BrowserInv
    /\ page = "viewer" => ViewerInv
    /\ page = "transfers" => TransInv
    /\ page = "tree" => TreeInv
    /\ page = "editor" => EditorInv
    /\ page = "player" => PlayerInv
    /\ page = "tools" => ToolsInv
    /\ page = "music" => MusicInv
    /\ page = "rows" => RowsInv
    /\ page = "tables" => TablesInv
    /\ page = "redis" => RedisInv
    /\ page = "rest" => RestInv
    /\ page = "todo" => TodoInv
    /\ page = "chat" => ChatInv

=============================================================================
