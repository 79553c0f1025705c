-------------------------------- MODULE Pages --------------------------------
(***************************************************************************)
(* The pages of the front end, each a module of its own that knows what it *)
(* shows, the calls it has under way and the part of Go behind it.  They   *)
(* share no state but Go's, so a behaviour is that of one page, chosen at  *)
(* the start; what they have in common is what is asked of them.           *)
(***************************************************************************)
EXTENDS Naturals, FiniteSets, Sequences

CONSTANTS
    MaxCalls,       \* bound: calls of a page under way at once
    Sessions,       \* the sessions Go may open for a terminal page
    Things, Nothing,\* files, tables, tracks, keys, ... and none
    Bound           \* bound: what a page numbers or keeps a list of

ASSUME PagesAssumption ==
    /\ IsFiniteSet(Things) /\ \E a, b \in Things : a # b
    /\ Nothing \notin Things \cup Sessions
    /\ Bound \in Nat \ {0}

VARIABLES page, ui, calls, back

vars == <<page, ui, calls, back>>

First == CHOOSE t \in Things : TRUE
Second == CHOOSE t \in Things : t # First

\* The connection type of each asset.
TypeOf == [a \in Things |-> IF a = First THEN "ssh" ELSE "local"]

SSH == INSTANCE SSHView WITH NoSession <- Nothing
Local == INSTANCE LocalTerminalView WITH NoSession <- Nothing
Browser == INSTANCE FileBrowser
    WITH Dirs <- Things, Root <- First, Home <- Second, NoDir <- Nothing, MaxHistory <- Bound
Viewer == INSTANCE FileViewer WITH Files <- Things, NoFile <- Nothing
Transfers == INSTANCE TransferQueue
    WITH Names <- Things, NoName <- Nothing, MaxItems <- Bound, Hosts <- Things
Tree == INSTANCE PGTree
    WITH Sessions <- Things, NoSession <- Nothing, DBs <- Things, Default <- First, NoDB <- Nothing
Editor == INSTANCE ConnectionEditor
    WITH Assets <- Things, Kind <- TypeOf,
         New <- Nothing, Blank <- "blank", Typed <- "typed", MaxTyped <- 1
Player == INSTANCE MusicPlayer WITH Tracks <- Things, NoTrack <- Nothing, MaxHistoryLen <- Bound
Tools == INSTANCE TabBar WITH Words <- Things, NoWord <- Nothing, MaxSecs <- Bound
Music == INSTANCE MusicPanel WITH Words <- Things, Lists <- Things, MaxPages <- Bound
Rows == INSTANCE PGTableData
    WITH Numbers <- 1 .. Bound, First <- 1, Orders <- Things, Plain <- First,
         NoQuery <- Nothing, Indexes <- 1 .. Bound
Tables == INSTANCE PGTables
    WITH Tables <- 1 .. Bound, NoTable <- 0, Searches <- {1 .. Bound, {1}}
Redis == INSTANCE RedisKeys
    WITH Keys <- Things, NoKey <- Nothing, DBs <- 0 .. Bound - 1, First <- 0,
         Patterns <- Things, All <- Second
Rest == INSTANCE RestClient
    WITH Texts <- Things \cup {Nothing}, Empty <- Nothing, Default <- Second
Todo == INSTANCE TodoList
    WITH Ids <- 1 .. Bound, NoId <- 0, AnyDay <- "any",
         Due <- [i \in 1 .. Bound |-> IF i = 1 THEN "today" ELSE "any"],
         New <- First, Titles <- {Second}, Blank <- Nothing
Chat == INSTANCE ChatStreams WITH Convs <- Things, NoConv <- Nothing, MaxSends <- Bound

Init ==
    \/ page = "ssh" /\ SSH!Init
    \/ page = "local" /\ Local!Init
    \/ page = "browser" /\ Browser!Init
    \/ page = "viewer" /\ Viewer!Init
    \/ page = "transfers" /\ Transfers!Init
    \/ page = "tree" /\ Tree!Init
    \/ page = "editor" /\ Editor!Init
    \/ page = "player" /\ Player!Init
    \/ page = "tools" /\ Tools!Init
    \/ page = "music" /\ Music!Init
    \/ page = "rows" /\ Rows!Init
    \/ page = "tables" /\ Tables!Init
    \/ page = "redis" /\ Redis!Init
    \/ page = "rest" /\ Rest!Init
    \/ page = "todo" /\ Todo!Init
    \/ page = "chat" /\ Chat!Init

On(p) == page = p /\ UNCHANGED page

Next ==
    \/ On("ssh") /\ SSH!Next
    \/ On("local") /\ Local!Next
    \/ On("browser") /\ Browser!Next
    \/ On("viewer") /\ Viewer!Next
    \/ On("transfers") /\ Transfers!Next
    \/ On("tree") /\ Tree!Next
    \/ On("editor") /\ Editor!Next
    \/ On("player") /\ Player!Next
    \/ On("tools") /\ Tools!Next
    \/ On("music") /\ Music!Next
    \/ On("rows") /\ Rows!Next
    \/ On("tables") /\ Tables!Next
    \/ On("redis") /\ Redis!Next
    \/ On("rest") /\ Rest!Next
    \/ On("todo") /\ Todo!Next
    \/ On("chat") /\ Chat!Next

\* A call of Go's ends sooner or later, with a result or an error.
Answer ==
    \/ On("ssh") /\ SSH!Answer
    \/ On("local") /\ Local!Answer
    \/ On("browser") /\ Browser!Answer
    \/ On("viewer") /\ Viewer!Answer
    \/ On("transfers") /\ Transfers!Answer
    \/ On("tree") /\ Tree!Answer
    \/ On("tools") /\ Tools!Answer
    \/ On("music") /\ Music!Answer
    \/ On("rows") /\ Rows!Answer
    \/ On("tables") /\ Tables!Answer
    \/ On("redis") /\ Redis!Answer
    \/ On("rest") /\ Rest!Answer
    \/ On("chat") /\ Chat!Answer

Spec == Init /\ [][Next]_vars /\ WF_vars(Answer)

-----------------------------------------------------------------------------
\* Every page is in a state its code can hold.
PagesTypeOK ==
    CASE page = "ssh" -> SSH!TypeOK
      [] page = "local" -> Local!TypeOK
      [] page = "browser" -> Browser!TypeOK
      [] page = "viewer" -> Viewer!TypeOK
      [] page = "transfers" -> Transfers!TypeOK
      [] page = "tree" -> Tree!TypeOK
      [] page = "editor" -> Editor!TypeOK
      [] page = "player" -> Player!TypeOK
      [] page = "tools" -> Tools!TypeOK
      [] page = "music" -> Music!TypeOK
      [] page = "rows" -> Rows!TypeOK
      [] page = "tables" -> Tables!TypeOK
      [] page = "redis" -> Redis!TypeOK
      [] page = "rest" -> Rest!TypeOK
      [] page = "todo" -> Todo!TypeOK
      [] page = "chat" -> Chat!TypeOK

\* What runs behind a page has its place on it, and what the page says runs does:
\* the shells of the terminal views (SSHView, LocalTerminalView), the database
\* sessions of the tree, the uploads of the queue, countdown, screenshot and
\* search of the tab bar, the sound of the player, the answer the assistant streams.
WorkOwned ==
    /\ page = "ssh" => SSH!SessionsOwned
    /\ page = "local" => Local!SessionsOwned
    /\ page = "tree" => Tree!SessionsOwned
    /\ page = "transfers" => Transfers!WorkOwned
    /\ page = "tools" => Tools!WorkOwned
    /\ page = "player" => Player!SoundIsShown
    /\ page = "chat" => Chat!WorkOwned

\* What a page shows is of what it says it shows, whatever order the answers came
\* in: the rows of the path, the text of the file, the schemas of the database,
\* the values of the asset, the lyrics of the track, the tracks of the search, the
\* rows of the query, the tables and keys there are, the stored text, tasks and
\* messages.
ShownBelongs ==
    /\ page = "ssh" => SSH!ShownBelongs
    /\ page = "local" => Local!ShownBelongs
    /\ page = "browser" => Browser!ShownBelongs
    /\ page = "viewer" => Viewer!ShownBelongs
    /\ page = "tree" => Tree!ShownBelongs
    /\ page = "editor" => Editor!ShownBelongs
    /\ page = "player" => Player!ShownBelongs
    /\ page = "music" => Music!ShownBelongs
    /\ page = "rows" => Rows!ShownBelongs
    /\ page = "tables" => Tables!ShownBelongs
    /\ page = "redis" => Redis!ShownBelongs
    /\ page = "rest" => Rest!ShownBelongs
    /\ page = "todo" => Todo!ShownBelongs
    /\ page = "chat" => Chat!ShownBelongs

\* What a page writes, imports, removes, updates, drops or renames is what the
\* user saw when asking for it, and nothing is left behind by what it deletes.
UntouchedKept ==
    /\ page = "viewer" => Viewer!UntouchedKept
    /\ page = "tree" => Tree!UntouchedKept
    /\ page = "music" => Music!UntouchedKept
    /\ page = "rows" => Rows!UntouchedKept
    /\ page = "tables" => Tables!UntouchedKept
    /\ page = "redis" => Redis!UntouchedKept
    /\ page = "todo" => Todo!UntouchedKept
    /\ page = "chat" => Chat!UntouchedKept

\* No step gives an upload that ended another outcome, and none changes a field of
\* a stored connection that the user did not type, but for the ones named there.
StepsKeep ==
    [][/\ page = "transfers" => Transfers!EndsOnce
       /\ page = "editor" => Editor!SavesOnlyTyped]_vars

\* No page waits for ever: a spinner stops once the calls it waits for answer.
Busy ==
    \/ page = "ssh" /\ SSH!Busy
    \/ page = "local" /\ Local!Busy
    \/ page = "browser" /\ Browser!Busy
    \/ page = "viewer" /\ Viewer!Busy
    \/ page = "transfers" /\ Transfers!Busy
    \/ page = "tree" /\ Tree!Busy
    \/ page = "tools" /\ Tools!Busy
    \/ page = "music" /\ Music!Busy
    \/ page = "rows" /\ Rows!Busy
    \/ page = "tables" /\ Tables!Busy
    \/ page = "redis" /\ Redis!Busy
    \/ page = "rest" /\ Rest!Busy
    \/ page = "chat" /\ Chat!Busy
BusyEnds == Busy ~> ~Busy

=============================================================================
