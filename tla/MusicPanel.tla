----------------------------- MODULE MusicPanel ------------------------------
(***************************************************************************)
(* The music page, features/music/ui/MusicPanel.tsx: searches page by      *)
(* page, playlists and their tracks, and the offline cache.  A list of     *)
(* tracks is told apart by the word or playlist it was asked for.          *)
(***************************************************************************)
EXTENDS PageCalls

CONSTANTS Words, Lists, Nothing, MaxPages   \* bound: pages a search has

VARIABLES ui, back  \* back: playlists there are; torn: tracks removed from another

vars == <<ui, calls, back>>

Work(op, of, page, held) == [op |-> op, of |-> of, page |-> page, held |-> held]

\* hasty (history): a search or a playlist was asked for, or a playlist left, while
\* the answer of another was out, or a search failed under its new word; nothing is
\* claimed after it, and only a spinner followed to its end.
Init ==
    /\ ui = [tab |-> "search", word |-> Nothing, tracks |-> {}, page |-> 1, more |-> FALSE,
             searching |-> FALSE, loadingMore |-> FALSE, lists |-> {}, selected |-> Nothing,
             shown |-> Nothing, offline |-> FALSE, hasty |-> FALSE]
    /\ calls = {}
    /\ back = [lists |-> {}, torn |-> FALSE]

\* Searching shows the search tab; the word is kept for the pages to come.
HandleSearch(w) ==
    /\ ~ui.hasty /\ Ask(Work("search", w, 1, {}))
    /\ ui' = [ui EXCEPT !.tab = "search", !.word = w, !.searching = TRUE,
                        !.hasty = CallsOf({"search", "more"}) # {}]
    /\ UNCHANGED back

AnswerSearch(c) ==
    /\ c.op = "search" /\ Answered(c)
    /\ \/ \E more \in BOOLEAN :
             ui' = [ui EXCEPT !.tracks = {<<c.of, 1>>}, !.page = 1, !.more = more,
                              !.searching = FALSE]
       \/ ui' = [ui EXCEPT !.searching = FALSE, !.hasty = TRUE]
    /\ UNCHANGED back

\* Scrolling asks for the next page of the word kept, to be put behind the
\* tracks of the render at hand.
HandleLoadMore ==
    /\ ~ui.hasty /\ ui.tab = "search" /\ ui.more /\ ~ui.loadingMore /\ ui.page < MaxPages
    /\ Ask(Work("more", ui.word, ui.page + 1, ui.tracks))
    /\ ui' = [ui EXCEPT !.loadingMore = TRUE, !.hasty = CallsOf({"search"}) # {}]
    /\ UNCHANGED back

\* Mutant: the page is put behind nothing.
AnswerMoreReplaces(c) ==
    /\ c.op = "more" /\ Answered(c)
    /\ ui' = [ui EXCEPT !.tracks = {<<c.of, c.page>>}, !.page = c.page, !.loadingMore = FALSE]
    /\ UNCHANGED back

AnswerMore(c) ==
    /\ c.op = "more" /\ Answered(c)
    /\ \/ \E more \in BOOLEAN :
             ui' = [ui EXCEPT !.tracks = c.held \cup {<<c.of, c.page>>}, !.page = c.page,
                              !.more = more, !.loadingMore = FALSE]
       \/ ui' = [ui EXCEPT !.more = FALSE, !.loadingMore = FALSE]
       \/ ui' = [ui EXCEPT !.loadingMore = FALSE]
    /\ UNCHANGED back

\* Playlists and the offline cache are loaded whenever their tab is shown; the
\* history (and the lyrics beside it) are the player's.
Tabs == {"search", "playlists", "history", "offline"}

SelectTab(t) ==
    /\ ~ui.hasty /\ t # ui.tab
    /\ ui' = [ui EXCEPT !.tab = t]
    /\ UNCHANGED back
    /\ IF t \in {"search", "history"} THEN UNCHANGED calls ELSE Ask(Work(t, Nothing, 0, {}))

AnswerPlaylists(c) ==
    /\ c.op = "playlists" /\ Answered(c)
    /\ \E l \in {back.lists, {}} : ui' = [ui EXCEPT !.lists = l]
    /\ UNCHANGED back

AnswerOffline(c) ==
    /\ c.op = "offline" /\ Answered(c)
    /\ \E o \in BOOLEAN : ui' = [ui EXCEPT !.offline = o]
    /\ UNCHANGED back

\* handleCacheTrack, handleDeleteOfflineTrack, handleClearOfflineCache: Go first,
\* then the cache is read again where it is shown.
ChangeOffline ==
    /\ ~ui.hasty /\ ui.tab # "playlists"
    /\ IF ui.tab = "offline" THEN Ask(Work("offline", Nothing, 0, {})) ELSE UNCHANGED calls
    /\ UNCHANGED <<ui, back>>

Playlists == ~ui.hasty /\ ui.tab = "playlists"

HandleCreatePlaylist(p) ==
    /\ Playlists /\ ui.selected = Nothing /\ p \notin back.lists
    /\ Ask(Work("playlists", Nothing, 0, {}))
    /\ back' = [back EXCEPT !.lists = @ \cup {p}]
    /\ UNCHANGED ui

HandleDeletePlaylist(p) ==
    /\ Playlists /\ ui.selected = Nothing /\ p \in ui.lists
    /\ Ask(Work("playlists", Nothing, 0, {}))
    /\ back' = [back EXCEPT !.lists = @ \ {p}]
    /\ UNCHANGED ui

HandleSelectPlaylist(p) ==
    /\ Playlists /\ ui.selected = Nothing /\ p \in ui.lists
    /\ Ask(Work("tracks", p, 0, {}))
    /\ ui' = [ui EXCEPT !.selected = p, !.hasty = CallsOf({"tracks"}) # {}]
    /\ UNCHANGED back

\* The tracks of whichever playlist answers last.
AnswerTracks(c) ==
    /\ c.op = "tracks" /\ Answered(c)
    /\ \E s \in {c.of, Nothing} : ui' = [ui EXCEPT !.shown = s]
    /\ UNCHANGED back

\* handleSelectPlaylist once more, by the handler of an earlier click; the lists
\* are loaded as well.
SelectAgain(c) ==
    /\ c \in calls
    /\ calls' = (calls \ {c}) \cup {Work("tracks", c.of, 0, {}), Work("playlists", Nothing, 0, {})}
    /\ ui' = [ui EXCEPT !.selected = c.of,
                        !.hasty = @ \/ ui.selected # c.of \/ CallsOf({"tracks"}) # {}]

\* Mutant: the tracks of a playlist stay until those of the next are there.
BackToPlaylistsKeepsTracks ==
    /\ Playlists /\ ui.selected # Nothing
    /\ ui' = [ui EXCEPT !.selected = Nothing, !.hasty = CallsOf({"tracks"}) # {}]
    /\ UNCHANGED <<calls, back>>

BackToPlaylists ==
    /\ Playlists /\ ui.selected # Nothing
    /\ ui' = [ui EXCEPT !.selected = Nothing, !.shown = Nothing, !.hasty = CallsOf({"tracks"}) # {}]
    /\ UNCHANGED <<calls, back>>

\* A track on the page, taken out of the playlist that is selected, and the
\* playlist shown again when Go has done so.
HandleRemoveFromPlaylist ==
    /\ Playlists /\ ui.selected # Nothing /\ ui.shown # Nothing
    /\ Ask(Work("remove", ui.selected, 0, {}))
    /\ back' = [back EXCEPT !.torn = @ \/ ui.shown # ui.selected]
    /\ UNCHANGED ui

AnswerRemove(c) ==
    /\ c.op = "remove"
    /\ \/ SelectAgain(c)
       \/ Answered(c) /\ UNCHANGED ui
    /\ UNCHANGED back

\* The dialog that adds a track offers the playlists as last loaded; it keeps the
\* selection of its render.
HandleAddToPlaylist(p) ==
    /\ ~ui.hasty /\ ui.tab \in {"search", "history"} /\ p \in ui.lists
    /\ Ask(Work("add", p, 0, {ui.selected}))
    /\ UNCHANGED <<ui, back>>

AnswerAdd(c) ==
    /\ c.op = "add"
    /\ \/ c.of \in c.held /\ SelectAgain(c)
       \/ Continue(c, Work("playlists", Nothing, 0, {})) /\ c.of \notin c.held /\ UNCHANGED ui
       \/ Answered(c) /\ UNCHANGED ui
    /\ UNCHANGED back

\* What is offered where: each line of tabs, field, list, dialog and row.
Header == \E t \in Tabs : SelectTab(t)
SearchBar == \E w \in Words : HandleSearch(w)
SearchTab == HandleLoadMore
PlaylistsTab ==
    \/ BackToPlaylists
    \/ \E p \in Lists : HandleCreatePlaylist(p) \/ HandleDeletePlaylist(p) \/ HandleSelectPlaylist(p)
OfflineTab == ui.tab = "offline" /\ ChangeOffline
AddDialog == \E p \in Lists : HandleAddToPlaylist(p)
Row == (ui.tab # "offline" /\ ChangeOffline) \/ HandleRemoveFromPlaylist

\* The answer a spinner waits for.
Answer == \E c \in calls : AnswerSearch(c) \/ AnswerMore(c)

Next ==
    \/ Header \/ SearchBar \/ SearchTab \/ PlaylistsTab \/ OfflineTab \/ AddDialog \/ Row
    \/ /\ ~ui.hasty
       /\ \E c \in calls : AnswerPlaylists(c) \/ AnswerOffline(c) \/ AnswerTracks(c)
                           \/ AnswerRemove(c) \/ AnswerAdd(c)
    \/ Answer

-----------------------------------------------------------------------------
TypeOK == ui.page \in 1..MaxPages /\ ui.lists \subseteq Lists

\* The tracks listed are the pages of one search, all there are up to the last;
\* those of a playlist are of the one selected, unless one was opened while
\* another was read.
ShownBelongs ==
    ~ui.hasty =>
        /\ \E w \in Words \cup {Nothing} : ui.tracks # {} => ui.tracks = {<<w, i>> : i \in 1..ui.page}
        /\ (ui.selected # Nothing /\ CallsOf({"tracks"}) = {}) => ui.shown \in {ui.selected, Nothing}

\* A track is only taken out of the playlist it was shown in.
UntouchedKept == ~ui.hasty => ~back.torn

Busy == ui.searching \/ ui.loadingMore
=============================================================================
