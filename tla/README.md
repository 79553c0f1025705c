# HiKit in TLA+

HiKit is a desktop tool (Go back end under `bridge/`, React front end under
`frontend/`, joined by Wails calls and events): SSH terminals, port forwarding, a file
manager, PostgreSQL and Redis browsers, a capturing proxy, an AI chat, and smaller
panels. This directory models the parts where goroutines, shared connections, pages and
late answers meet; TLC checks the models on small instances and TLAPS proves the main
safety properties, those of every page included, for any number of sessions, rules, files,
switches, requests, reloads and answers under way.

Paths below are relative to the repository. `PROJECT.json` maps every definition
to its lines, every property to a mutant that breaks it, and lists the hazards.

## 1. Inventory

| Component | State | Operations | What is hard | Correct when |
|---|---|---|---|---|
| SSH sessions `bridge/ssh/session.go` | session map under a mutex; clients shared by sessions; a reader and a waiter goroutine per session | Connect, OpenNewShell, Disconnect, DisconnectAll, the waiter's own Disconnect | decisions under the lock, closes after it; lookups used after the unlock; shutdown with calls under way | no client leaks or closes under a sibling; the map is the running shells; shutdown ends |
| Port forwarding `bridge/ssh/forward.go`, `PortForwardView.tsx` | rule map; per rule a client, a context, a listener, an accept loop, handlers; saved rules in SQLite | StartForward, StopForward, StopAll; create, start, stop, delete on the page | error paths with resources in hand; order of the teardown; two callers stopping one rule | nothing is held by an unlisted rule; what is stopped is torn down |
| Folder download `bridge/ssh/sftp_transfer.go` | a walker per directory, a bounded channel, a semaphore, counters | DownloadFolder, CancelDownload | channel close against senders; cancel at any point; failures skipped | no send on a closed channel; no file forgotten; everything ends |
| Breakpoints `bridge/proxy/breakpoint.go`, `proxy.go`, `ProxyView.tsx` | pending map, a channel per paused request, one dialog | PauseRequest, ReleaseRequest, the dialog's buttons | event before registration; timer against answer; two requests, one dialog | only what was aborted is dropped; every pause and call ends |
| Database sessions `bridge/pg/manager.go`, `pg/tunnel.go`, `bridge/redis/service.go` | session map, a handle per session replaced by switches, a tunnel with an accept loop and handlers | Connect, SwitchDatabase, Disconnect, DisconnectAll | the old handle is read outside the lock; Close waits for handlers | a listed session is usable; a removed one is closed, tunnel last |
| Shell and asset tree `App.tsx`, `connectionStore.ts`, `AssetTree.tsx`, `bridge/asset/` | asset table; the tree shown; selection, tabs, activity, dialogs | create, update, rename, move, delete; reloads; tabs | changes and reloads overlap, and answers come in any order; a deletion is many statements without a transaction; Move makes no check on the parent | the active tab is open; a quiet page has seen every change; no row goes missing unexplained |
| Terminal pages `SSHView.tsx`, `LocalTerminalView.tsx`, `bridge/local/` | tabs and the shells they opened | connect, add, close, unmount; shells that end | shells come up late, end by themselves; clean-up sees the first render | a shell that runs has a tab, or a call that makes one |
| File manager `FileManager.tsx` with viewer, search, transfers | path, history, rows; a text under edit; a queue held in a ref | navigate, change files; read, save; drop, cancel, remove | path and rows change apart; an index into a queue others edit | rows are those of the path; an upload keeps its outcome |
| PostgreSQL pages (tree nodes, `PGTableListView.tsx`, `PGTableDataView.tsx`) | a session with one current database; list, selection, clipboard; rows with edits by index | switch and read, import, export; drop, rename, paste; load, edit, commit, delete | one database for all; reloads of a list overlap; questions stay open while the selection changes; indexes survive a reload | what is written is what the user saw |
| Redis page `RedisView.tsx` | pages of keys, selected value, the session's database | scan, read, edit, rename, delete, switch | calls act on the database selected when Go gets to them | list and value are of the database in the header |
| Connection editor `ConnectionEditor.tsx` | one form for every opening | open, type, select, save | values outlive the dialog; only mounted fields are returned | a save changes what was typed |
| Music `musicStore.ts`, `MusicPanel.tsx`; tab bar tools | one audio element, playlist, lyrics; countdown, screenshot, search | play, search, edit playlists; start, reset | three awaits of two tracks interleave; intervals outlive a reset, and the bar | sound can be stopped; a list is of one search; one interval |
| REST client `RestClientView.tsx` | the text, a save timer | type, send, leave and come back | timer against mount | what was typed is stored |
| Todo list `TodoView.tsx`, `bridge/todo/` | tasks, an edit field | add, toggle, edit, clear | an edit writes the row it was rendered from | no change is undone unseen |
| Assistant `pages/chat/ui/ChatView.tsx`, `bridge/chat/` | one cancel function; messages in SQLite; the page's stream text | send, stop, select, create, delete | a stream outlives its page and its conversation; events carry an ID nobody reads | one answer at a time, which can be stopped |
| Proxy server, rules, traffic; proxied browser; Codex proxy; SQL assistant | flags, lists, streams | see section 6 | failures half-way in Start; the waiter of a browser that was replaced; fragments of parallel calls | not modelled |
| Git, memos, ROMs, CA, CDP | little or none | files, one process or one request per call | — | — |

Interactions. A Wails call runs in a goroutine of its own, so any two operations
overlap; a page captures its state when it asks and is answered in any order, also after
it is gone; events go the other way, in the order they are emitted. `App.Shutdown`
(`bridge/app.go:105`) calls the drains of the proxy, SSH, PostgreSQL and Redis
services in turn, so one that does not return holds up the rest.

## 2. Plan

Done: 1. `SSHSessions`, its abstraction `SharedClients`, proofs. 2. `ForwardManager`,
proofs, and `PortForwardView` over it. 3. `FolderDownload`, proofs. 4. `Breakpoints`,
proofs. 5. `DBSessions`, proofs. 6. `Workspace`, proof of what a quiet tree shows.
7. Sixteen pages in `Pages`, their proofs.
8. Lists and trees (`ListsProofs`), proofs of the rows and tabs of `Workspace`.

Left, in this order:

- `CodexStream`, the stream translation as a state machine over chunks against a reference
  of what each call's arguments are; `ProxyServer` with `ProxyBrowser`; the upload context
  shared in Go; `splitSQL` as a function.

## 3. Modules

**SSHSessions** models `session.go`. A call (`Calls`) is one Connect or OpenNewShell
and names the session, and for a Connect the client, it makes. `pc` is how far it is;
the steps are what the mutex leaves apart: `Dial` or `LookUp`, `OpenShell`, `Insert`,
`StartGoroutines`. `Disconnect` removes a session under the lock and notes in `owes`
what it will close; `CloseShell` and `CloseClient` come later. `WaitReturns` and
`WaiterDisconnects` are `waitSession`; `DisconnectAll`, `DisconnectNext` and
`DisconnectAllReturns` the shutdown with its snapshot `ids`. A client may be lost at any
time (`ConnectionLost`), which ends its shells. `UniqueIds` restricts shells to distinct
milliseconds (`session.go:222`). **SharedClients** is the promise: a client has holders
and is condemned when the last one lets go.

**ForwardManager** models `forward.go`: `ConnectSSH`, `Listen` or `ListenFails`,
`Register` for StartForward; `StopForward` removes a rule and leaves `Cancel`,
`CloseListener`, `CloseClient` to follow in that order; `StopAll` takes a snapshot and
stops one rule at a time. Accept loops and handlers are goroutines of their own; a lost
client makes a remote Accept fail, which the loop retries. **PortForwardView** EXTENDS it
with the page's handlers and the `forward_rules` table.

**FolderDownload** models `DownloadFolder` and `walkRemoteDir`: each directory's walker
(start, wait for a reader, read, list, send), the channel as a sequence of at most
`Capacity` files, the scanner that closes it, the download loop and the cancel. Byte
counts and progress events are left out.

**Breakpoints** models the request handler around `PauseRequest` (`Emit`, `Register`,
`ReceiveResult` or `AutoRelease`, `Unregister`), `ReleaseRequest` (`Lookup`, `Send`) and
the dialog (`ShowRequest`, `Click`, `CloseDialog`, `ShowError`). Header edits are left out.

**DBSessions** models `pg/manager.go` and `pg/tunnel.go`. A handle is named by the
Connect or the switch that opened it. A switch is five steps: lookup, open and ping, read
of `sess.DB`, swap under the lock, close of what it read. Teardown is `CloseDB`,
`CloseDone`, `CloseListener`, `Waited`, `CloseClient`; the accept loop and handlers of a
tunnel run beside it. Redis sessions are the case without a tunnel.

**Workspace** models the shell of the front end: the asset table as a function from rows
to parents, the calls that change it, overlapping reloads (`StartLoad`, `ReadTree`,
`ShowTree`, `FailLoad`), selection, tabs, activities and each dialog of the tree. A create,
an update, a rename and a move are one statement (`Perform`). A deletion is many, with no
transaction around them (`asset.go:238-273`): `DeleteChildren` reads the children of a row,
`DeleteRow` deletes one whose children are done with, and `path` holds the recursion, each
frame with the children it read and has yet to delete. Other calls land between two of these
steps, and any of them may fail (`Refuse`) and leave the rest undone. `AnswerChange`,
`AnswerDelete` and `AnswerFailed` are what the page does then. A statement on a connection
without `foreign_keys` may leave a row below a parent that is gone (`MayHang`), and such a
`DeleteRow` leaves the rows below its own. The code has no check that a deletion has been
at a row before, so below itself a row never ends it: that recursion is followed to
`MaxDepth`, where it stays until it fails. `changes`, `asOf`, `best` and `late` are
history: how many changes there were, how many a tree has seen, and which rows were put
below one whose children a deletion had read.

**PageCalls** is what the pages share: the calls one has under way, each a record of what
its handler captured. `Ask` is a click up to its await, `Answered` and `Continue` what
follows one. A page keeps its React state in `ui`, its calls in `calls`, and what Go holds
for it in `back`; a value is told apart by what it was read for (a row by its directory,
a page of rows by its query), which is what the properties compare. The pages are
**SSHView**, **LocalTerminalView**, **FileBrowser**, **FileViewer**, **TransferQueue**,
**PGTree**, **PGTables**, **PGTableData**, **RedisKeys**, **ConnectionEditor**,
**MusicPlayer**, **MusicPanel**, **TabBar**, **RestClient**, **TodoList** and
**ChatStreams**. `ui` also holds history flags, named at `Init`. Several pages do go wrong
when two of their answers cross (the text of a slow read is shown, and saved, under the
file opened after it): `hasty`, `reopened`, `mixed`, `late` and the like record that such
a crossing has happened, and the properties say what holds as long as none has. After a
flag like that rises most pages offer no more clicks, since all that is left to say is
that their spinners stop. **Pages** composes them: a behaviour is that of one page, chosen
in the first state, since pages share nothing but Go's services.

What of the pages is less than obvious:

- `ChatStreams` and `TabBar` are mounted only while `App.tsx` shows them, so they can be
  left and entered at any moment (`Leave`, `Enter`, `Reopen`). Go streams on while the chat
  is away and what it emits nobody hears (`EventLost`); the page that comes back has neither
  spinner nor stop button. `lost` are the questions this happened to and `moved` those whose
  tokens may show under another conversation; `WorkOwned` and `ShownBelongs` except exactly
  these, and before the page is left there is one stream at most. An interval of a bar that
  was left ticks on for nobody (`Gone`). The last second of a countdown is counted in a state
  updater, which runs when the bar renders (`Render`): if a reset and a start come between,
  it stops the interval of the new countdown, which is then finished with time on it.
- `PGTables` answers loads of the list in any order: the button is there whatever is under
  way. `news` follows the last change of the tables; the list may miss it when the answer of
  an older read comes after the one that showed it (`overtaken`), or when no load came after
  the change (`failed`). `Settled` and `OneChange` bound the other clicks while jobs are out.
- `PGTableData` sets order and filter with the click and the rows with the answer, as the
  code does; a load that fails leaves a header that names what the rows are not (`unapplied`).
- `LocalTerminalView` starts a shell before its manager lists it (`StartShell`, `Connected`).
  Two shells started in one millisecond would get one ID (`local/terminal.go:53`); the model
  gives each its own.
- `ForwardManager` tells the ports of remote rules apart by their server (`CanListen`).

**Lists** has the two list operations of the pages that proofs need: `Without` is
`filter`, `FirstOf` what `findIndex` picks.

MC modules give the constants of a run; each `.cfg` names its specification and
properties. Mutants sit above the definition they vary.

## 4. Runs

| Run | Instance | What it shows |
|---|---|---|
| `ssh_sessions` | 3 calls, 3 IDs, symmetric | the inductive invariant, no leaked client, a dialler keeps its client, running shells are in the map, and every step is a step of `SharedClients` |
| `ssh_sessions_live` | 2 calls and a shutdown | dead sessions leave the map, disconnected ones end their waiter, condemned clients close, DisconnectAll returns with its snapshot gone |
| `ssh_close_used_client` | 2 calls | *violation* of `session.go:338`: a shell registered between check and close loses its client |
| `forward_manager` | a dynamic and a remote rule on one port number, one connection, StopAll | no leak, listed rules are whole, no accept loop sees a closed listener uncancelled, stops tear down |
| `forward_delete_running` | a rule and one restart | *violation* of `PortForwardView.tsx:186`: deleting a restarted row leaves its forward running |
| `folder_download` | root, 2 directories, 4 files, 1 reader, channel of 1 | no walker after the close, nothing forgotten, everything ends |
| `folder_download_cancel` | the same | *violation*: a cancelled download reports 100% and nil |
| `breakpoints` | 2 requests, 2 clicks | the pending map fits the handlers, only aborted requests are dropped, pauses and calls end |
| `breakpoints_offered` | the same | *violation* of `proxy.go:287`: a request that lost the dialog is released by the timer only |
| `db_sessions` | a tunnelled and a direct session, 2 switches, 1 pooled connection | the inductive invariant, listed sessions are usable, handlers keep their client, only racing switches lose a handle, removed sessions are torn down |
| `workspace` | 2 groups, a host, 2 reloads, 2 changes at once, 2 steps that open or change | the active tab is open and none twice; a quiet page has seen every change; rows leave the tree only with a row above them that is deleted, by a move below a row that hangs from nowhere, or because they were put below a row whose children a deletion had already read |
| `pages` | each of the 16 pages with two things and two calls at once | what runs behind a page has its place on it (`WorkOwned`), what it shows is of what it says (`ShownBelongs`), what it writes is what the user saw (`UntouchedKept`), no upload ends twice and no save changes an untyped field (`StepsKeep`), every spinner ends (`BusyEnds`) |

Why the bounds suffice. Sharing needs two sessions and a third call to interfere; races
between a decision and its effect need two actors; both stop and drain paths are in every
instance. A channel of one place and one reader make every walker wait for both. Two
switches are the fewest that can read the same old handle. In `workspace` a chain of two
groups over a host is the least a move can tie into a circle, two reloads the least that
overtake each other; `MaxSteps` bounds the clicks that open, reload or change, `MaxCalls`
the changes under way, and `MaxDepth` the recursion of a deletion at one more than a tree
of these assets is deep. In `pages` two things are what an answer can be confused between,
two calls (`MaxCalls`) what can cross, and `MaxSends`, `MaxItems`, `MaxHistory`,
`MaxHistoryLen`, `MaxPages`, `MaxSecs` and `MaxTyped` bound a list or counter at two or
one. Guards that are bounds and not the code's say so where they stand:
`More`, `Free`, `OneChange` and `Settled` leave out clicks the code allows, most of them with
a change of the same page still under way; a filter is typed once until it is applied, and the
tab bar renders before its next second. In the other runs every count is a
constant of its module, and apart from the sets of calls nothing is bounded.

Fairness. Go schedules every runnable goroutine, so each goroutine's next step is weakly
fair. Strong fairness is used once, in `FolderDownload`: a walker blocked on the semaphore
or on the channel is woken in queue order, which is what the Go runtime does. Network
operations that block are assumed to answer (dial, open a shell, read a directory, save a
file); `WaitReturns` follows the end of a shell. In `Pages` the answers a spinner waits
for are weakly fair: each Go call behind them returns a result or an error. Users, lost
connections, new calls and the end of a healthy stream have no fairness. What the
assumption on dials hides is listed as a hazard (`pg/tunnel.go:31`). Deadlock is checked
in `db_sessions`; in the other runs the system may rest once every call has been made, the
steps are used up, or a history flag has taken the clicks away, so the check is off.

## 5. Proofs

Eight modules hold theorems: `SSHSessionsProofs`, `ForwardManagerProofs`,
`FolderDownloadProofs`, `BreakpointsProofs`, `DBSessionsProofs`, `WorkspaceProofs`,
`PagesProofs`, and `ListsProofs` with the lemmas on lists that the last two share. They hold
for any constants, with no step trusted. Every safety invariant and every action property of
section 4 that speaks of single steps is stated by one of them.

In each of the first six, `Invariance` says that `IInv` is inductive. It has one named part
per idea.

- Sessions: how a call's variables fit (`CallsFit`), IDs differ, the map holds what its
  sessions say, only removed sessions owe a close, and the two ownership properties, which
  the induction needs because the right to close a client is decided in one step and used in
  another. From it `ClientOwnership`, `DialledClientIsKept`, `MapMatchesShells`,
  `DrainRemovesSnapshot`, and `Refinement`: the session manager implements the safety part of
  `SharedClients` (`StepRefines` maps every step to a step of the count or a stutter).
- Rules: what a rule holds is a function of where StartForward and StopForward are. From it
  `NothingLeaks`, `ListedRulesAreWhole`, `NoLoopSpins`.
- Download: an entry is reached once, from its parent; an uncancelled walk keeps every entry
  in `todo` or reached and every counted file on its way. From it `NoSendOnClosed`,
  `NothingIsForgotten`.
- Breakpoints: a click that was not refused names a request that had been registered, so its
  answer cannot end up in a channel made later (`CallsFit`, `HandlersFit`). From it
  `AbortsAreAsked`.
- Database sessions: `StagesFit` and `TunnelsFit` order the teardown; `HandlesFit` says that
  the handle a switch has read is one that was in place before and, once swapped, is not in
  place any more, although the read is outside the lock; `ReplacedFit` says who will close
  what was replaced. From it `ListedSessionsAreOpen`, `HandlersKeepTheClient`,
  `OnlyTheRaceLeaks`.
- Asset tree: `LastChangeIsHeard` names who still has to bring the last change to the page,
  `FreshTrees` that a tree that has seen every change is the current one. From it
  `QuietTreeHasEveryChange`. Three more invariants stand beside it: `TypesFit` (what each
  variable can hold), `WalkFits` (what a deletion has read of a row it has yet to delete is
  what is below it, but for the rows in `late`) and `TabsFit` (no tab twice, one of them
  active). From them `WorkspaceTypes`, `RowsStay` and `ActiveTabIsOpen`.

**Rows.** `RowsStay` needs what `HangFrom` is. It is defined by as many rounds as there
are assets, since that is how deep a tree can be, and `HangFromIsLeastClosed` shows that this
is enough: it is the least set that holds each row whose parent is the top or in the set. A
chain of levels that grows at every round would outgrow the finite set of assets. Being least
is all that is used of it: a move cuts off only what hangs below the row that moved
(`MoveCutsOnlyBelow`), a deleted row only what hangs below it (`DeleteCutsBelow`), and by
`WalkFits` that is nothing but what was put there late (`DeleteRowCuts`).

**Lists.** JavaScript's `filter` is `Without` in `Lists`, a recursive function over the
positions with the elements that go as a set, because the library's `SelectSeq` takes an
operator and the provers cannot reason about one. For the same reason the induction theorems
of the library are out of reach. `UpTo` is an induction over the numbers up to a bound whose
property is a set; it rests on `LeastElement`, which follows from what the library says of
finite sets under inclusion. `RecursionUpTo` says that the recursive functions of the models
exist. `WithoutSelects`, `WithoutRange`, `EndsInRange` and `FrontOfDistinct` are what the pages
and the tab strip use.

**Pages.** `PagesProofs` goes page by page. A page has an inductive invariant `<Page>Inv`
(`SSHInv`, `TreeInv`, `TodoInv`, ..., all in `PageInvariants`) made of what its records hold
(`<Page>Fields`) and of how the page, its calls and Go's part fit; `<Page>Init` and `<Page>Next` show that it is kept,
with a lemma for each group of handlers, and `<Page>Says` that the properties follow. What
had to be added to the properties is, for each page, what its handlers captured when they
asked:

- A shell of a mounted terminal page has a tab or a call that makes one, and one connect at
  most is under way (`SSHShells`, `SSHConnects`, `LocalShells`).
- One loop works at the transfer queue. Until the user disturbs it by removing items or
  changing the session, the index its call goes by is that of an item shown as uploading,
  items have numbers of their own, and what waits waits for the session on the page
  (`TransOwned`).
- A read under way is of what the page says it shows, unless two answers have crossed
  (`BrowserFresh`, `ViewerReads`, `RedisClean`, `MusicLists`, `RowsMeant`).
- Sessions of the PostgreSQL tree are owned by the node or by the connect under way, and an
  export reads the database it switched to (`TreeOwned`, `TreeKnows`).
- Tasks have an ID nobody else has, also while they are on their way, and as long as nobody
  is hasty the list is the rows there are (`TodoFresh`, `TodoClean`).
- Until the page is left an answer of the assistant is in one place: a question on its way, a
  stream, or events that end with its last (`ChatOnePlace`). Left or not, one stream at most is
  not told to end (`ChatEnded`), a question without a spinner is one that lost it
  (`ChatSpinning`), and a token is of the conversation on the page or of a question that was
  under way when it came on (`ChatTold`). These make up `ChatOwns`, an invariant by itself,
  which gives `WorkOwned`. `ChatMore` adds what the messages on the page are, and that
  messages have a conversation until one is deleted under a question.
- A list that has seen the last change of the tables shows them, and while that change is due
  something that brings it is under way (`TablesNews`).
- A countdown that runs has one interval of this bar and time left, and whatever else ticks
  is of a bar that was left (`ToolsTicks`).

`PageInv` is the invariant of the page a behaviour is about. `PageSteps` says that each step is
one of that page, `PageNext` that it keeps the invariant, and the results are `PagesTypes`,
`WorkIsOwned`, `ShownIsOfPage`, `WritesMeant` and `OutcomesKept`: the four invariants and the
action property of the run `pages`, for any set of files, tables, keys, tracks and sessions,
any list bounds, and any number of calls that cross. The history flags of section 3 are part of
these properties as they are of the run: the theorems say what holds before such a crossing
and, where the flag is not named, after it. `PageInv` was model-checked on the instance of that
run before it was proved (1.62 million states).

`tlapm` takes about 25 minutes for `PagesProofs` and a few minutes for the others together.

Assumptions: the constants' own, each named in its module. `PagesAssumption` wants finitely
many things, two at least, a `Nothing` that is none of them, and a positive list bound;
`WorkspaceAssumption` wants finitely many assets, each a group or a host, and names for the
roots that no asset has; `NoKeyIsNoTab` says that no tab is null. `UniqueIds` is a premise of
the theorems about the session manager: without it the second of two shells with one ID
overwrites the first, and both ownership and the map property fail.

Only model-checked: everything about liveness (`BusyEnds`, `EveryPauseEnds`, `StopTearsDown`
and the other properties with a fairness premise, since fairness and ENABLED are outside the
prover), and with it the liveness part of `SharedClients`; and the four violations, which are
behaviours, not theorems.

## 6. Not modelled

- Proxy server, rules and traffic (apart from breakpoints), the proxied browser and CDP,
  the Codex proxy and the SQL assistant. Their hazards, for a later model: `Stop` holds the
  server's mutex while requests are paused (`proxy.go:163`); `Start` sets the port before
  the listen that may fail (`proxy.go:78`); the goroutine that waits for Chrome waits on
  whatever process is current (`browser.go:114`); fragments of parallel tool calls are
  appended to the last call (`codex/proxy.go:506`), and an upstream that breaks off counts
  as completed (`codex/proxy.go:434`).
- In Go: the upload context shared without a lock (`session.go:57`), a switch that ends
  after its session was removed and leaves its handle open (`pg/manager.go:207`), the
  pending import file (`pg/manager.go:344`), byte counts (`sftp_transfer.go:378`), the
  SOCKS5 handshake without a deadline (`forward.go:396`), the accept loop of a lost remote
  client that retries for ever (`forward.go:249`; modelled, not refuted).
- What pages leave behind by design of their clean-up (`SSHView.tsx:227`,
  `RedisView.tsx:77`): of these views only what is mounted is followed. The assistant and the
  tab bar are followed across mounts, and so is the REST client.
- What goes wrong once two answers of a page have crossed: a history flag of section 3 rises
  there, and the properties are about the time before. The hazards name the cases.
- Remote I/O that keeps no state (listings, server info, SQL and Redis commands, git, REST,
  screenshots), single-statement tables (memos), files (ROMs), key generation (CA), the git
  panel and the SQL assistant's panel.
- Front-end modules nothing imports any more: `frontend/src/registries.tsx`, `stores/`,
  `components/Layout`, `components/ConnectionEditor`, `features/chat`, `features/settings`.
- Byte counts, wording, logs and layout of the modelled parts.
