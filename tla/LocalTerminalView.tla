-------------------------- MODULE LocalTerminalView --------------------------
(***************************************************************************)
(* Local terminals: the tabs of features/terminal/ui/LocalTerminalView.tsx *)
(* and the session map of bridge/local/terminal.go behind them.  Unlike an *)
(* SSH view this one starts a shell of its own for every tab, and offers a *)
(* new tab also when nothing runs.  A session is named by the millisecond  *)
(* of its start; two starts in one are left out.                           *)
(***************************************************************************)
EXTENDS PageCalls, Functions

CONSTANTS Sessions, NoSession

VARIABLES
    ui,     \* the state of the view; a tab is the session it shows
    back    \* listed: Manager.sessions; alive: shells running; ended: events

vars == <<ui, calls, back>>

Connecting(op) == [op |-> op, sid |-> NoSession]

Init ==
    /\ ui = [tabs |-> <<>>, active |-> NoSession, connected |-> FALSE,
             connecting |-> TRUE, mounted |-> TRUE, late |-> FALSE]
    /\ calls = {Connecting("connect")}
    /\ back = [listed |-> {}, alive |-> {}, ended |-> {}, used |-> {}]

DoConnect ==
    /\ ui.mounted /\ ~ui.connected /\ ~ui.connecting
    /\ Ask(Connecting("connect"))
    /\ ui' = [ui EXCEPT !.connecting = TRUE]
    /\ UNCHANGED back

AddTab ==
    /\ ui.mounted /\ ui.tabs # <<>>
    /\ Ask(Connecting("shell"))
    /\ UNCHANGED <<ui, back>>

\* Manager.Connect: the shell is started, and then put into the map.
StartShell(c, s) ==
    /\ c.sid = NoSession /\ s \notin back.used
    /\ Continue(c, [c EXCEPT !.sid = s])
    /\ back' = [back EXCEPT !.alive = @ \cup {s}, !.used = @ \cup {s}]
    /\ UNCHANGED ui

Connect(c) ==
    /\ c.sid \notin back.listed \cup {NoSession}
    /\ back' = [back EXCEPT !.listed = @ \cup {c.sid}]
    /\ UNCHANGED <<ui, calls>>

\* Go answers with a session of the map or an error.
Connected(c) == c.sid \in back.listed \cup {NoSession} /\ Answered(c)

AnswerConnect(c) ==
    /\ c.op = "connect" /\ Connected(c)
    /\ ui' = IF ~ui.mounted THEN ui
             ELSE [ui EXCEPT !.tabs = <<c.sid>>, !.active = c.sid, !.connecting = FALSE,
                             !.connected = @ \/ c.sid # NoSession]
    /\ UNCHANGED back

\* late (history): a tab was added to a view that says it has stopped.
AnswerTab(c) ==
    /\ c.op = "shell" /\ Connected(c)
    /\ ui' = IF ~ui.mounted \/ c.sid = NoSession THEN ui
             ELSE [ui EXCEPT !.tabs = Append(@, c.sid), !.active = c.sid,
                             !.late = @ \/ ~ui.connected]
    /\ UNCHANGED back

\* Manager.Disconnect, which only a tab's close button calls.
Disconnected(s) ==
    [back EXCEPT !.listed = @ \ {s}, !.alive = @ \ {s},
                 !.ended = IF s \in back.alive THEN @ \cup {s} ELSE @]

CloseTab(s) ==
    /\ ui.mounted /\ Len(ui.tabs) > 1 /\ s \in Range(ui.tabs)
    /\ ui' = LET rest == Without(ui.tabs, {s})
             IN  [ui EXCEPT !.tabs = rest, !.active = IF @ = s THEN rest[Len(rest)] ELSE @]
    /\ back' = Disconnected(s)
    /\ UNCHANGED calls

SelectTab(s) ==
    /\ ui.mounted /\ s \in Range(ui.tabs)
    /\ ui' = [ui EXCEPT !.active = s]
    /\ UNCHANGED <<calls, back>>

\* waitProcess, begun once the session is in the map, tells the page and leaves it there.
WaitProcess(s) ==
    /\ s \in back.alive \cap back.listed
    /\ back' = [back EXCEPT !.alive = @ \ {s}, !.ended = @ \cup {s}]
    /\ UNCHANGED <<ui, calls>>

SessionClosed(s) ==
    /\ s \in back.ended
    /\ back' = [back EXCEPT !.ended = @ \ {s}]
    /\ ui' = [ui EXCEPT !.connected =
                  @ /\ ~(/\ ui.mounted /\ s \in Range(ui.tabs)
                         /\ Range(ui.tabs) \subseteq {s, NoSession})]
    /\ UNCHANGED calls

Unmount ==
    /\ ui.mounted
    /\ ui' = [ui EXCEPT !.mounted = FALSE]
    /\ UNCHANGED <<calls, back>>

\* DisconnectAll, when the program ends.
DisconnectAll ==
    /\ ~ui.mounted /\ calls = {}
    /\ back' = [back EXCEPT !.listed = {}, !.alive = {}]
    /\ UNCHANGED <<ui, calls>>

\* The answer a spinner waits for.
Answer == \E c \in calls : Connect(c) \/ AnswerConnect(c)

\* What the page offers; unlike SSHView the plus whenever there are tabs.
TabStrip == AddTab \/ \E s \in Sessions \cup {NoSession} : SelectTab(s) \/ CloseTab(s)

Next ==
    \/ DoConnect \/ TabStrip \/ Unmount \/ DisconnectAll
    \/ \E c \in calls, s \in Sessions : StartShell(c, s)
    \/ \E s \in Sessions : WaitProcess(s) \/ SessionClosed(s)
    \/ \E c \in calls : AnswerTab(c)
    \/ Answer

-----------------------------------------------------------------------------
TypeOK ==
    /\ Range(ui.tabs) \subseteq Sessions \cup {NoSession}
    /\ back.alive \subseteq back.used /\ back.listed \subseteq back.used

\* Every shell that runs is in the map, where DisconnectAll finds it, or about to be put
\* there by the call that started it; and while
\* the view is mounted, and was never added to after it stopped, it has a tab or
\* a call about to make one, so that the restart button drops no living shell.
SessionsOwned ==
    /\ back.alive \subseteq back.listed \cup {c.sid : c \in calls}
    /\ (ui.mounted /\ ~ui.late) =>
          back.alive \subseteq Range(ui.tabs) \cup {c.sid : c \in calls}

\* The tab on top is one of the tabs.
ShownBelongs == ui.tabs # <<>> => ui.active \in Range(ui.tabs)

Busy == ui.mounted /\ ui.connecting

=============================================================================
