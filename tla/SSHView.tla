------------------------------- MODULE SSHView -------------------------------
(***************************************************************************)
(* The terminal tabs of one SSH host, features/terminal/ui/SSHView.tsx,    *)
(* over the shells that bridge/ssh keeps open (module SSHSessions).        *)
(***************************************************************************)
EXTENDS PageCalls, Functions

CONSTANTS Sessions, NoSession

VARIABLES
    ui,     \* the state of the view; a tab is the session it shows
    back    \* live: open shells; ended: their ssh:closed events not yet seen

vars == <<ui, calls, back>>

Fresh == [tabs |-> <<NoSession>>, active |-> NoSession, first |-> NoSession,
          connected |-> FALSE, connecting |-> TRUE, info |-> NoSession,
          mounted |-> TRUE, late |-> FALSE]
ConnectCall == [op |-> "connect", of |-> NoSession, sid |-> NoSession]

\* Mounting connects.
Init ==
    /\ ui = [Fresh EXCEPT !.tabs = <<>>]
    /\ calls = {ConnectCall}
    /\ back = [live |-> {}, ended |-> {}, used |-> {}]

\* doConnect up to its await, from the button in the header.
DoConnect ==
    /\ ui.mounted /\ ~ui.connected /\ ~ui.connecting
    /\ Ask(ConnectCall)
    /\ ui' = [ui EXCEPT !.connecting = TRUE]
    /\ UNCHANGED back

AddTab ==
    /\ ui.mounted /\ ui.connected /\ ui.tabs # <<>> /\ ui.first # NoSession
    /\ Ask([op |-> "shell", of |-> ui.first, sid |-> NoSession])
    /\ UNCHANGED <<ui, back>>

\* SSHConnect and SSHOpenShell in Go; a new shell needs a session still open.
OpenSession(c, s) ==
    /\ c.sid = NoSession /\ s \notin back.used
    /\ c.op = "shell" => c.of \in back.live
    /\ Continue(c, [c EXCEPT !.sid = s])
    /\ back' = [back EXCEPT !.live = @ \cup {s}, !.used = @ \cup {s}]
    /\ UNCHANGED ui

AnswerConnect(c) ==
    /\ c.op = "connect" /\ c.sid # NoSession /\ Answered(c)
    /\ ui' = IF ~ui.mounted THEN ui
             ELSE [ui EXCEPT !.tabs = <<c.sid>>, !.active = c.sid, !.first = c.sid,
                             !.connected = TRUE, !.connecting = FALSE]
    /\ UNCHANGED back

\* A failed connect still shows a tab, with the error and no session.
FailConnect(c) ==
    /\ c.op = "connect" /\ c.sid = NoSession /\ Answered(c)
    /\ ui' = IF ~ui.mounted THEN ui
             ELSE [ui EXCEPT !.tabs = <<NoSession>>, !.active = NoSession,
                             !.connecting = FALSE]
    /\ UNCHANGED back

\* late (history): a shell came up in a view that had lost its connection.
AnswerShell(c) ==
    /\ c.op = "shell" /\ c.sid # NoSession /\ Answered(c)
    /\ ui' = IF ~ui.mounted THEN ui
             ELSE [ui EXCEPT !.tabs = Append(@, c.sid), !.active = c.sid,
                             !.late = @ \/ ~ui.connected \/ ui.connecting]
    /\ UNCHANGED back

FailShell(c) ==
    /\ c.op = "shell" /\ c.sid = NoSession /\ Answered(c)
    /\ UNCHANGED <<ui, back>>

\* Mutant: the tab goes and its shell stays.
CloseTabKeepsShell(s) ==
    /\ ui.mounted /\ Len(ui.tabs) > 1 /\ s \in Range(ui.tabs)
    /\ ui' = [ui EXCEPT !.tabs = Without(@, {s})]
    /\ UNCHANGED <<calls, back>>

\* A tab is closable while there is another; its shell is disconnected.  The
\* reference addTab opens shells from is only reset with the last tab.
CloseTab(s) ==
    /\ ui.mounted /\ Len(ui.tabs) > 1 /\ s \in Range(ui.tabs)
    /\ ui' = LET rest == Without(ui.tabs, {s})
             IN  [ui EXCEPT !.tabs = rest,
                            !.active = IF @ = s THEN rest[Len(rest)] ELSE @]
    /\ back' = [back EXCEPT !.live = @ \ {s}]
    /\ UNCHANGED calls

SelectTab(s) ==
    /\ ui.mounted /\ s \in Range(ui.tabs)
    /\ ui' = [ui EXCEPT !.active = s]
    /\ UNCHANGED <<calls, back>>

\* A shell that ends emits ssh:closed; only a tab on the page is wired to it.
ShellEnds(s) ==
    /\ s \in back.live
    /\ back' = [back EXCEPT !.live = @ \ {s}, !.ended = @ \cup {s}]
    /\ UNCHANGED <<ui, calls>>

WiredTabs == IF ui.mounted THEN Range(ui.tabs) \ {NoSession} ELSE {}

\* Mutant: one closed shell takes the whole view for disconnected.
SessionClosedAlone(s) ==
    /\ s \in back.ended
    /\ back' = [back EXCEPT !.ended = @ \ {s}]
    /\ ui' = [ui EXCEPT !.connected = @ /\ s \notin WiredTabs]
    /\ UNCHANGED calls

SessionClosed(s) ==
    /\ s \in back.ended
    /\ back' = [back EXCEPT !.ended = @ \ {s}]
    /\ ui' = [ui EXCEPT !.connected =
                  @ /\ ~(s \in WiredTabs /\ Range(ui.tabs) \subseteq {s, NoSession})]
    /\ UNCHANGED calls

\* The host summary of the header, from the first session.
ShowServerInfo ==
    /\ ui.mounted /\ ui.connected /\ ui.first \in back.live
    /\ ui' = [ui EXCEPT !.info = ui.first]
    /\ UNCHANGED <<calls, back>>

\* The cleanup runs with the tabs of the first render: none.
Unmount ==
    /\ ui.mounted
    /\ ui' = [ui EXCEPT !.mounted = FALSE]
    /\ UNCHANGED <<calls, back>>

\* The file manager works on the first tab that has a session.
MainSessionId ==
    LET with == Without(ui.tabs, {NoSession})
    IN  IF with = <<>> THEN NoSession ELSE Head(with)

\* The answer a spinner waits for.
Answer == \E c \in calls : AnswerConnect(c) \/ FailConnect(c)

\* What the page offers: the summary and, while there is no connection, the
\* button in the header; the tabs, each with its cross, and the plus.
Header == ShowServerInfo \/ DoConnect
TabStrip == AddTab \/ \E s \in Sessions \cup {NoSession} : SelectTab(s) \/ CloseTab(s)

Next ==
    \/ Header \/ TabStrip \/ Unmount
    \/ \E c \in calls, s \in Sessions : OpenSession(c, s)
    \/ \E s \in Sessions : ShellEnds(s) \/ SessionClosed(s)
    \/ \E c \in calls : AnswerShell(c) \/ FailShell(c)
    \/ Answer

-----------------------------------------------------------------------------
TypeOK ==
    /\ Range(ui.tabs) \subseteq Sessions \cup {NoSession}
    /\ back.live \subseteq back.used /\ back.used \subseteq Sessions
    /\ \A c \in calls : c.op \in {"connect", "shell"}

\* While the view is mounted every open shell is in a tab or in a call about to
\* add one, and the button that replaces the tabs is offered only when none of
\* them is open; unless a shell came up after the connection was given up.
SessionsOwned ==
    (ui.mounted /\ ~ui.late) =>
        /\ back.live \subseteq Range(ui.tabs) \cup {c.sid : c \in calls}
        /\ (~ui.connected /\ ~ui.connecting) => Range(ui.tabs) \cap back.live = {}

\* The tab on top is one of the tabs, and the files are those of an open tab.
ShownBelongs ==
    /\ ui.tabs # <<>> => ui.active \in Range(ui.tabs)
    /\ MainSessionId \in Range(ui.tabs) \cup {NoSession}

Busy == ui.mounted /\ ui.connecting

=============================================================================
