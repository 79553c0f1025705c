----------------------------- MODULE PagesProofs -----------------------------
(***************************************************************************)
(* Every page keeps what is asked of it, for any files, tables, keys and   *)
(* sessions, any number of calls under way and any order of their answers. *)
(* <Page>Init and <Page>Next show that the invariant of a page holds, with *)
(* a lemma for each group of handlers, and <Page>Says that it implies the  *)
(* page's properties.  The last section puts the pages together.           *)
(***************************************************************************)
EXTENDS PageInvariants, ListsProofs

\* The constants the pages are given.
LEMMA TwoThings == First \in Things /\ Second \in Things /\ First # Second
  <1>1. \E t : t \in Things BY PagesAssumption
  <1>2. First \in Things BY <1>1 DEF First
  <1>3. \E t : t \in Things /\ t # First BY PagesAssumption
  <1>4. Second \in Things /\ Second # First BY <1>3 DEF Second
  <1> QED BY <1>2, <1>4

-----------------------------------------------------------------------------
\* SSHView.tla
\* The constants of the page.
LEMMA SSHConstants == Nothing \notin Sessions
  BY PagesAssumption

\* The lists of the page are the lists ListsProofs is about.
LEMMA SSHLists ==
  /\ \A s, out : SSH!Without(s, out) = Without(s, out)
  /\ \A s : SSH!Range(s) = Range(s)
  <1>1. \A s, out : SSH!Without(s, out) = Without(s, out) BY DEF SSH!Without, Without
  <1>2. \A s : SSH!Range(s) = Range(s) BY DEF SSH!Range, Range
  <1> QED BY <1>1, <1>2

\* Mounting connects, with no tab yet.
THEOREM SSHInit == SSH!Init => SSHInv
  <1> SUFFICES ASSUME SSH!Init PROVE SSHInv OBVIOUS
  <1>1. ui = [tabs |-> <<>>, active |-> Nothing, first |-> Nothing,
              connected |-> FALSE, connecting |-> TRUE, info |-> Nothing,
              mounted |-> TRUE, late |-> FALSE]
    BY Zenon DEF SSH!Init, SSH!Fresh
  <1>2. calls = {[op |-> "connect", of |-> Nothing, sid |-> Nothing]}
        /\ back = [live |-> {}, ended |-> {}, used |-> {}]
    BY DEF SSH!Init, SSH!ConnectCall
  <1>3. SSH!Range(ui.tabs) = {} BY <1>1 DEF SSH!Range
  <1> QED BY <1>1, <1>2, <1>3 DEF SSHInv, SSHFields, SSHOpened, SSHConnects, SSHShells,
             SSHOnTop,
             SSH!CallsOf

\* A tab closes: its shell goes with it, and the tab on top is one of the rest.
LEMMA SSHCloses == ASSUME SSHInv, NEW s, SSH!CloseTab(s) PROVE SSHInv'
  <1> DEFINE rest == SSH!Without(ui.tabs, {s})
  <1>1. rest \in Seq(Sessions \cup {Nothing}) /\ SSH!Range(rest) = SSH!Range(ui.tabs) \ {s}
    BY WithoutRange, SSHLists DEF SSHInv, SSHFields
  <1>2. /\ ui' = [ui EXCEPT !.tabs = rest, !.active = IF @ = s THEN rest[Len(rest)] ELSE @]
        /\ back' = [back EXCEPT !.live = @ \ {s}] /\ calls' = calls /\ ui.tabs # <<>>
    BY DEF SSH!CloseTab
  <1>3. rest # <<>> => rest[Len(rest)] \in SSH!Range(rest) BY <1>1, EndsInRange, SSHLists
  <1> HIDE DEF rest
  <1>4. SSHFields' BY Zenon, <1>1, <1>2 DEF SSHInv, SSHFields
  <1>5. /\ SSH!Range(ui'.tabs) = SSH!Range(ui.tabs) \ {s} /\ back'.live = back.live \ {s}
        /\ back'.ended = back.ended /\ back'.used = back.used
        /\ ui'.mounted = ui.mounted /\ ui'.late = ui.late /\ ui'.connecting = ui.connecting
        /\ ui'.connected = ui.connected /\ ui'.tabs = rest
        /\ ui'.active = IF ui.active = s THEN rest[Len(rest)] ELSE ui.active
    BY <1>1, <1>2 DEF SSHInv, SSHFields
  <1>6. SSHOnTop' BY <1>1, <1>2, <1>3, <1>5 DEF SSHInv, SSHOnTop
  <1>7. SSHOpened' /\ SSHConnects' /\ SSHShells'
    BY <1>2, <1>5 DEF SSHInv, SSHOpened, SSHConnects, SSHShells, SSH!CallsOf
  <1> QED BY <1>4, <1>6, <1>7 DEF SSHInv

\* The answers that come to a view: a session in a tab, or none.
LEMMA SSHAnswers ==
  ASSUME SSHInv, NEW c \in calls, SSH!AnswerConnect(c) \/ SSH!FailConnect(c) \/ SSH!AnswerShell(c) \/ SSH!FailShell(c)
  PROVE  SSHInv'
  <1>1. calls' = calls \ {c} /\ back' = back
    BY DEF SSH!AnswerConnect, SSH!FailConnect, SSH!AnswerShell, SSH!FailShell, SSH!Answered
  <1>2. CASE ui' = ui /\ (~ui.mounted \/ SSH!FailShell(c))
    <2>1. SSH!FailShell(c) => c.sid = Nothing BY DEF SSH!FailShell
    <2>2. Nothing \notin back.live BY SSHConstants DEF SSHInv, SSHFields
    <2> QED BY <1>1, <1>2, <2>1, <2>2 DEF SSHInv, SSHFields, SSHOpened, SSHConnects, SSHShells,
               SSHOnTop, SSH!CallsOf
  <1>3. CASE ui.mounted /\ (SSH!AnswerConnect(c) \/ SSH!FailConnect(c))
    <2> DEFINE t == <<c.sid>>
    <2>1. c.op = "connect" /\ ui.connecting /\ ~ui.connected
      BY <1>3 DEF SSH!AnswerConnect, SSH!FailConnect, SSHInv, SSHConnects, SSH!CallsOf
    <2>2. /\ DOMAIN ui' = DOMAIN ui /\ ui'.tabs = t /\ ui'.active = c.sid
          /\ ui'.first \in {ui.first, c.sid} /\ ~ui'.connecting
          /\ ui'.connected = (c.sid # Nothing) /\ ui'.mounted = ui.mounted /\ ui'.late = ui.late
      BY Zenon, <1>3, <2>1 DEF SSH!AnswerConnect, SSH!FailConnect, SSHInv, SSHFields
    <2>3. t \in Seq(Sessions \cup {Nothing}) /\ SSH!Range(t) = {c.sid}
      BY DEF SSH!Range, SSHInv, SSHFields
    <2> HIDE DEF t
    <2>4. SSHFields'
      <3>1. c.sid \in Sessions \cup {Nothing} BY DEF SSHInv, SSHFields
      <3>2. ui'.connected \in BOOLEAN /\ ui'.connecting \in BOOLEAN
        BY Zenon, <1>3, <2>1 DEF SSH!AnswerConnect, SSH!FailConnect, SSHInv, SSHFields
      <3> QED BY <1>1, <2>2, <2>3, <3>1, <3>2 DEF SSHInv, SSHFields
    <2>5. SSHOpened' /\ SSHOnTop' BY <1>1, <2>2, <2>3 DEF SSHInv, SSHOpened, SSHOnTop
    <2>6. SSHConnects'
      <3>1. \A d \in calls \ {c} : d.op # "connect"
        BY <1>3, <2>1 DEF SSHInv, SSHConnects, SSH!CallsOf
      <3> QED BY <1>1, <2>2, <3>1 DEF SSHConnects, SSH!CallsOf
    <2>7. SSHShells'
      <3>1. ASSUME ~ui.late PROVE back.live \subseteq {c.sid} \cup {d.sid : d \in calls \ {c}}
        BY <1>3, <2>1, <3>1 DEF SSHInv, SSHShells
      <3>2. Nothing \notin back.live BY SSHConstants DEF SSHInv, SSHFields
      <3> QED BY Zenon, <1>1, <2>2, <2>3, <3>1, <3>2 DEF SSHShells
    <2> QED BY <2>4, <2>5, <2>6, <2>7 DEF SSHInv
  <1>4. CASE ui.mounted /\ SSH!AnswerShell(c)
    <2> DEFINE t == Append(ui.tabs, c.sid)
    <2>1. /\ DOMAIN ui' = DOMAIN ui /\ ui'.tabs = t /\ ui'.active = c.sid
          /\ ui'.first = ui.first /\ ui'.connecting = ui.connecting
          /\ ui'.connected = ui.connected /\ ui'.mounted = ui.mounted
          /\ ui'.late = (ui.late \/ ~ui.connected \/ ui.connecting)
          /\ c.op = "shell"
      BY Zenon, <1>4 DEF SSH!AnswerShell, SSHInv, SSHFields
    <2>2. /\ t \in Seq(Sessions \cup {Nothing}) /\ SSH!Range(t) = SSH!Range(ui.tabs) \cup {c.sid}
      BY AppendRange, SSHLists DEF SSHInv, SSHFields
    <2> HIDE DEF t
    <2>3. SSHFields' BY <1>1, <2>1, <2>2 DEF SSHInv, SSHFields
    <2>4. SSHOpened' /\ SSHOnTop' BY <1>1, <2>1, <2>2 DEF SSHInv, SSHOpened, SSHOnTop
    <2>5. SSHConnects' BY <1>1, <2>1 DEF SSHInv, SSHConnects, SSH!CallsOf
    <2>6. SSHShells' BY Zenon, <1>1, <2>1, <2>2 DEF SSHInv, SSHShells
    <2> QED BY <2>3, <2>4, <2>5, <2>6 DEF SSHInv
  <1> QED BY <1>2, <1>3, <1>4 DEF SSH!AnswerConnect, SSH!FailConnect, SSH!AnswerShell,
             SSH!FailShell

\* No step of the view or of Go leaves the invariant.
THEOREM SSHNext == SSHInv /\ [SSH!Next]_SSH!vars => SSHInv'
  <1> SUFFICES ASSUME SSHInv, [SSH!Next]_SSH!vars PROVE SSHInv' OBVIOUS
  <1> USE DEF SSHInv
  <1>1. CASE SSH!DoConnect
    <2>1. calls' = calls \cup {SSH!ConnectCall} /\ ui' = [ui EXCEPT !.connecting = TRUE] /\ back' = back
          /\ ui.mounted /\ ~ui.connected /\ ~ui.connecting
      BY <1>1 DEF SSH!DoConnect, SSH!Ask
    <2>2. SSH!ConnectCall \in [op : {"connect", "shell"}, of : Sessions \cup {Nothing},
                           sid : Sessions \cup {Nothing}] /\ SSH!ConnectCall.sid = Nothing
      BY DEF SSH!ConnectCall
    <2> QED BY <2>1, <2>2 DEF SSHFields, SSHOpened, SSHConnects, SSHShells, SSHOnTop,
               SSH!CallsOf
  <1>2. CASE SSH!AddTab
    <2> DEFINE d == [op |-> "shell", of |-> ui.first, sid |-> Nothing]
    <2>1. calls' = calls \cup {d} /\ ui' = ui /\ back' = back
      BY <1>2 DEF SSH!AddTab, SSH!Ask
    <2>2. d.op = "shell" /\ d.sid = Nothing /\
          d \in [op : {"connect", "shell"}, of : Sessions \cup {Nothing},
                 sid : Sessions \cup {Nothing}]
      BY DEF SSHFields
    <2> HIDE DEF d
    <2> QED BY <2>1, <2>2 DEF SSHFields, SSHOpened, SSHConnects, SSHShells, SSHOnTop,
               SSH!CallsOf
  <1>3. ASSUME NEW c \in calls, NEW s \in Sessions, SSH!OpenSession(c, s) PROVE SSHInv'
    <2> DEFINE d == [c EXCEPT !.sid = s]
    <2>1. /\ calls' = (calls \ {c}) \cup {d} /\ ui' = ui /\ s \notin back.used /\ c.sid = Nothing
          /\ back' = [back EXCEPT !.live = @ \cup {s}, !.used = @ \cup {s}]
      BY <1>3 DEF SSH!OpenSession, SSH!Continue
    <2>2. d.op = c.op /\ d.sid = s /\
          d \in [op : {"connect", "shell"}, of : Sessions \cup {Nothing},
                 sid : Sessions \cup {Nothing}]
      BY DEF SSHFields
    <2> HIDE DEF d
    <2>3. /\ back'.live = back.live \cup {s} /\ back'.used = back.used \cup {s}
          /\ back'.ended = back.ended
      BY <2>1 DEF SSHFields
    <2>4. SSHFields' BY Zenon, <2>1, <2>2 DEF SSHFields
    <2>5. SSHOpened' BY <2>1, <2>2, <2>3, SSHConstants DEF SSHOpened
    <2>6. SSHConnects' BY <2>1, <2>2 DEF SSHConnects, SSH!CallsOf
    <2>7. SSHShells'
      <3>1. s \notin SSH!Range(ui.tabs) BY <2>1, SSHConstants DEF SSHOpened
      <3>2. Nothing \notin back.live BY SSHConstants DEF SSHFields
      <3> QED BY <2>1, <2>2, <2>3, <3>1, <3>2 DEF SSHShells
    <2>8. SSHOnTop' BY <2>1 DEF SSHOnTop
    <2> QED BY <2>4, <2>5, <2>6, <2>7, <2>8
  <1>4. ASSUME NEW s \in Sessions, SSH!ShellEnds(s) PROVE SSHInv'
    BY Zenon, <1>4 DEF SSH!ShellEnds, SSHFields, SSHOpened, SSHConnects, SSHShells, SSHOnTop,
       SSH!CallsOf
  <1>5. ASSUME NEW s \in Sessions, SSH!SessionClosed(s) PROVE SSHInv'
    <2> DEFINE up == ui.connected /\ ~(s \in SSH!WiredTabs /\ SSH!Range(ui.tabs) \subseteq {s, Nothing})
    <2>1. /\ s \in back.ended /\ back' = [back EXCEPT !.ended = @ \ {s}] /\ calls' = calls
          /\ ui' = [ui EXCEPT !.connected = up]
      BY <1>5 DEF SSH!SessionClosed
    <2>2. /\ up \in BOOLEAN /\ (up => ui.connected)
          /\ (~up => ~ui.connected \/ SSH!Range(ui.tabs) \subseteq {s, Nothing})
      OBVIOUS
    <2> HIDE DEF up
    <2>3. s \notin back.live /\ Nothing \notin back.live
      BY <2>1, SSHConstants DEF SSHFields, SSHOpened
    <2>4. SSHFields' BY Zenon, <2>1, <2>2 DEF SSHFields
    <2>5. /\ ui'.tabs = ui.tabs /\ ui'.mounted = ui.mounted /\ ui'.late = ui.late
          /\ ui'.connecting = ui.connecting /\ ui'.connected = up /\ ui'.active = ui.active
          /\ back'.live = back.live /\ back'.used = back.used /\ back'.ended \subseteq back.ended
      BY <2>1 DEF SSHFields
    <2>6. SSHOpened' /\ SSHConnects' /\ SSHOnTop'
      BY <2>1, <2>2, <2>5 DEF SSHOpened, SSHConnects, SSHOnTop, SSH!CallsOf
    <2>7. SSHShells' BY <2>1, <2>2, <2>3, <2>5 DEF SSHShells
    <2> QED BY <2>4, <2>6, <2>7
  <1>6. ASSUME NEW s, SSH!SelectTab(s) PROVE SSHInv'
    BY <1>6 DEF SSH!SelectTab, SSHFields, SSHOpened, SSHConnects, SSHShells, SSHOnTop,
       SSH!CallsOf
  <1>7. CASE SSH!ShowServerInfo
    BY Zenon, <1>7 DEF SSH!ShowServerInfo, SSHFields, SSHOpened, SSHConnects, SSHShells, SSHOnTop,
       SSH!CallsOf
  <1>8. CASE SSH!Unmount
    BY <1>8 DEF SSH!Unmount, SSHFields, SSHOpened, SSHConnects, SSHShells, SSHOnTop, SSH!CallsOf
  <1>9. CASE UNCHANGED SSH!vars
    BY <1>9 DEF SSH!vars, SSHFields, SSHOpened, SSHConnects, SSHShells, SSHOnTop, SSH!CallsOf
  <1> QED
    BY <1>1, <1>2, <1>3, <1>4, <1>5, <1>6, <1>7, <1>8, <1>9, SSHCloses, SSHAnswers
       DEF SSH!Next, SSH!Header, SSH!TabStrip, SSH!Answer

\* What the invariant says of the view.
THEOREM SSHSays == SSHInv => SSH!TypeOK /\ SSH!SessionsOwned /\ SSH!ShownBelongs
  <1> SUFFICES ASSUME SSHInv PROVE SSH!TypeOK /\ SSH!SessionsOwned /\ SSH!ShownBelongs OBVIOUS
  <1>1. SSH!TypeOK BY DEF SSHInv, SSHFields, SSHOpened, SSH!TypeOK, SSH!Range
  <1>2. SSH!SessionsOwned BY DEF SSHInv, SSHShells, SSH!SessionsOwned
  <1>3. SSH!ShownBelongs
    <2> DEFINE with == SSH!Without(ui.tabs, {Nothing})
    <2>1. with \in Seq(Sessions \cup {Nothing}) /\ SSH!Range(with) \subseteq SSH!Range(ui.tabs)
      BY WithoutRange, SSHLists DEF SSHInv, SSHFields
    <2> HIDE DEF with
    <2>2. with # <<>> => Head(with) \in SSH!Range(ui.tabs) BY <2>1, EndsInRange, SSHLists
    <2> QED BY <2>2 DEF with, SSH!MainSessionId, SSHInv, SSHOnTop, SSH!ShownBelongs
  <1> QED BY <1>1, <1>2, <1>3

-----------------------------------------------------------------------------
\* LocalTerminalView.tla
\* The constants of the page.
LEMMA LocalConstants == Nothing \notin Sessions
  BY PagesAssumption

\* The lists of the page are the lists ListsProofs is about.
LEMMA LocalLists ==
  /\ \A s, out : Local!Without(s, out) = Without(s, out)
  /\ \A s : Local!Range(s) = Range(s)
  <1>1. \A s, out : Local!Without(s, out) = Without(s, out) BY DEF Local!Without, Without
  <1>2. \A s : Local!Range(s) = Range(s) BY DEF Local!Range, Range
  <1> QED BY <1>1, <1>2

\* Mounting starts a shell, with no tab yet.
THEOREM LocalInit == Local!Init => LocalInv
  <1> SUFFICES ASSUME Local!Init PROVE LocalInv OBVIOUS
  <1>1. /\ ui = [tabs |-> <<>>, active |-> Nothing, connected |-> FALSE,
                 connecting |-> TRUE, mounted |-> TRUE, late |-> FALSE]
        /\ calls = {[op |-> "connect", sid |-> Nothing]}
        /\ back = [listed |-> {}, alive |-> {}, ended |-> {}, used |-> {}]
    BY DEF Local!Init, Local!Connecting
  <1>2. Local!Range(ui.tabs) = {} BY <1>1 DEF Local!Range
  <1> QED BY <1>1, <1>2 DEF LocalInv, LocalFields, LocalOpened, LocalConnects, LocalShells,
             LocalOnTop, Local!CallsOf

\* A tab closes: its shell goes with it, and the tab on top is one of the rest.
LEMMA LocalCloses == ASSUME LocalInv, NEW s, Local!CloseTab(s) PROVE LocalInv'
  <1> DEFINE rest == Local!Without(ui.tabs, {s})
  <1>1. rest \in Seq(Sessions \cup {Nothing}) /\ Local!Range(rest) = Local!Range(ui.tabs) \ {s}
    BY WithoutRange, LocalLists DEF LocalInv, LocalFields
  <1>2. /\ ui' = [ui EXCEPT !.tabs = rest, !.active = IF @ = s THEN rest[Len(rest)] ELSE @]
        /\ back' = Local!Disconnected(s) /\ calls' = calls /\ ui.tabs # <<>>
    BY DEF Local!CloseTab
  <1>3. rest # <<>> => rest[Len(rest)] \in Local!Range(rest) BY <1>1, EndsInRange, LocalLists
  <1> HIDE DEF rest
  <1>4. /\ DOMAIN back' = DOMAIN back
        /\ back'.alive = back.alive \ {s} /\ back'.listed = back.listed \ {s}
        /\ back'.ended = (IF s \in back.alive THEN back.ended \cup {s} ELSE back.ended)
        /\ back'.used = back.used
    BY <1>2 DEF Local!Disconnected, LocalInv, LocalFields
  <1>5. /\ DOMAIN ui' = DOMAIN ui /\ Local!Range(ui'.tabs) = Local!Range(ui.tabs) \ {s} /\ ui'.tabs = rest
        /\ ui'.mounted = ui.mounted /\ ui'.late = ui.late /\ ui'.connecting = ui.connecting
        /\ ui'.connected = ui.connected
        /\ ui'.active = IF ui.active = s THEN rest[Len(rest)] ELSE ui.active
    BY <1>1, <1>2 DEF LocalInv, LocalFields
  <1>6. LocalFields' BY <1>1, <1>2, <1>4, <1>5 DEF LocalInv, LocalFields
  <1>7. LocalOnTop' BY <1>1, <1>2, <1>3, <1>5 DEF LocalInv, LocalOnTop
  <1>8. LocalOpened' /\ LocalConnects' /\ LocalShells'
    BY <1>2, <1>4, <1>5 DEF LocalInv, LocalOpened, LocalConnects, LocalShells, Local!CallsOf
  <1> QED BY <1>6, <1>7, <1>8 DEF LocalInv

\* The answers that come to a view: a shell in a tab, or none.
LEMMA LocalAnswers ==
  ASSUME LocalInv, NEW c \in calls, Local!AnswerConnect(c) \/ Local!AnswerTab(c) PROVE LocalInv'
  <1>0. Nothing \notin back.alive BY LocalConstants DEF LocalInv, LocalFields, LocalOpened
  <1>1. calls' = calls \ {c} /\ back' = back /\ c.sid \in back.listed \cup {Nothing}
    BY DEF Local!AnswerConnect, Local!AnswerTab, Local!Connected, Local!Answered
  <1>2. CASE ui' = ui /\ (~ui.mounted \/ c.sid = Nothing)
    BY <1>0, <1>1, <1>2 DEF LocalInv, LocalFields, LocalOpened, LocalConnects, LocalShells,
       LocalOnTop, Local!CallsOf
  <1>3. CASE ui.mounted /\ Local!AnswerConnect(c)
    <2> DEFINE t == <<c.sid>>
    <2>1. c.op = "connect" /\ ui.connecting /\ ~ui.connected
      BY <1>3 DEF Local!AnswerConnect, LocalInv, LocalConnects, Local!CallsOf
    <2>2. /\ DOMAIN ui' = DOMAIN ui /\ ui'.tabs = t /\ ui'.active = c.sid
          /\ ~ui'.connecting /\ ui'.mounted = ui.mounted /\ ui'.late = ui.late
          /\ ui'.connecting \in BOOLEAN /\ ui'.connected \in BOOLEAN
          /\ ui'.connected <=> c.sid # Nothing
      BY Zenon, <1>3, <2>1 DEF Local!AnswerConnect, LocalInv, LocalFields
    <2>3. t \in Seq(Sessions \cup {Nothing}) /\ Local!Range(t) = {c.sid}
      BY DEF Local!Range, LocalInv, LocalFields
    <2> HIDE DEF t
    <2>4. LocalFields' BY <1>1, <2>2, <2>3 DEF LocalInv, LocalFields
    <2>5. LocalOpened' /\ LocalOnTop' BY <1>0, <1>1, <2>2, <2>3 DEF LocalInv, LocalOpened,
                                         LocalOnTop
    <2>6. LocalConnects'
      <3>1. \A d \in calls \ {c} : d.op # "connect"
        BY <1>3, <2>1 DEF LocalInv, LocalConnects, Local!CallsOf
      <3> QED BY <1>1, <2>2, <3>1 DEF LocalConnects, Local!CallsOf
    <2>7. LocalShells'
      <3>1. ASSUME ~ui.late PROVE back.alive \subseteq {c.sid} \cup {d.sid : d \in calls \ {c}}
        BY <1>3, <2>1, <3>1 DEF LocalInv, LocalShells
      <3> QED BY <1>0, <1>1, <2>2, <2>3, <3>1 DEF LocalShells
    <2> QED BY <2>4, <2>5, <2>6, <2>7 DEF LocalInv
  <1>4. CASE ui.mounted /\ Local!AnswerTab(c) /\ c.sid # Nothing
    <2> DEFINE t == Append(ui.tabs, c.sid)
    <2>1. /\ DOMAIN ui' = DOMAIN ui /\ ui'.tabs = t /\ ui'.active = c.sid
          /\ ui'.connecting = ui.connecting
          /\ ui'.connected = ui.connected /\ ui'.mounted = ui.mounted
          /\ ui'.late = (ui.late \/ ~ui.connected)
          /\ c.op = "shell"
      BY Zenon, <1>4 DEF Local!AnswerTab, LocalInv, LocalFields
    <2>2. /\ t \in Seq(Sessions \cup {Nothing}) /\ Local!Range(t) = Local!Range(ui.tabs) \cup {c.sid}
      BY AppendRange, LocalLists DEF LocalInv, LocalFields
    <2> HIDE DEF t
    <2>3. LocalFields' BY <1>1, <2>1, <2>2 DEF LocalInv, LocalFields
    <2>4. LocalOpened' /\ LocalOnTop'
      BY <1>0, <1>1, <2>1, <2>2 DEF LocalInv, LocalOpened, LocalOnTop
    <2>5. LocalConnects' BY <1>1, <2>1 DEF LocalInv, LocalConnects, Local!CallsOf
    <2>6. LocalShells' BY Zenon, <1>1, <2>1, <2>2 DEF LocalInv, LocalShells
    <2> QED BY <2>3, <2>4, <2>5, <2>6 DEF LocalInv
  <1> QED BY <1>2, <1>3, <1>4 DEF Local!AnswerConnect, Local!AnswerTab

\* No step of the view or of Go leaves the invariant.
THEOREM LocalNext == LocalInv /\ [Local!Next]_Local!vars => LocalInv'
  <1> SUFFICES ASSUME LocalInv, [Local!Next]_Local!vars PROVE LocalInv' OBVIOUS
  <1> USE DEF LocalInv
  <1>1. ASSUME NEW op \in {"connect", "shell"}, Local!Ask(Local!Connecting(op)), back' = back,
               \/ ui' = ui /\ op = "shell"
               \/ ui' = [ui EXCEPT !.connecting = TRUE] /\ ~ui.connected /\ ~ui.connecting /\ ui.mounted
        PROVE  LocalInv'
    <2> DEFINE d == [op |-> op, sid |-> Nothing]
    <2>1. calls' = calls \cup {d} BY <1>1 DEF Local!Ask, Local!Connecting
    <2>2. d.op = op /\ d.sid = Nothing
          /\ d \in [op : {"connect", "shell"}, sid : Sessions \cup {Nothing}]
      OBVIOUS
    <2> HIDE DEF d
    <2>3. /\ DOMAIN ui' = DOMAIN ui /\ ui'.tabs = ui.tabs /\ ui'.active = ui.active
          /\ ui'.connected = ui.connected /\ ui'.mounted = ui.mounted /\ ui'.late = ui.late
          /\ ui'.connecting \in BOOLEAN /\ (ui.connecting => ui'.connecting)
      BY Zenon, <1>1 DEF LocalFields
    <2>4. \/ op = "shell" /\ ui'.connecting = ui.connecting
          \/ op = "connect" /\ ui'.connecting /\ ~ui.connecting /\ ~ui.connected
          \/ op = "shell" /\ ui'.connecting /\ ~ui.connecting /\ ~ui.connected
      BY <1>1 DEF LocalFields
    <2>5. LocalFields' BY <1>1, <2>1, <2>2, <2>3 DEF LocalFields
    <2>6. LocalOpened' BY <1>1, <2>1, <2>2, <2>3 DEF LocalOpened
    <2>7. LocalOnTop' BY <2>3 DEF LocalOnTop
    <2>8. LocalShells' BY <1>1, <2>1, <2>3 DEF LocalShells
    <2>9. LocalConnects' BY <2>1, <2>2, <2>3, <2>4 DEF LocalConnects, Local!CallsOf
    <2> QED BY <2>5, <2>6, <2>7, <2>8, <2>9
  <1>2. CASE Local!DoConnect \/ Local!AddTab
    <2>1. CASE Local!DoConnect
      <3>1. Local!Ask(Local!Connecting("connect")) /\ back' = back BY <2>1 DEF Local!DoConnect
      <3> QED BY <1>1, <2>1, <3>1 DEF Local!DoConnect
    <2>2. CASE Local!AddTab
      <3>1. Local!Ask(Local!Connecting("shell")) /\ back' = back BY <2>2 DEF Local!AddTab
      <3> QED BY <1>1, <2>2, <3>1 DEF Local!AddTab
    <2> QED BY <1>2, <2>1, <2>2
  <1>3. ASSUME NEW c \in calls, NEW s \in Sessions, Local!StartShell(c, s) PROVE LocalInv'
    <2> DEFINE d == [c EXCEPT !.sid = s]
    <2>1. /\ calls' = (calls \ {c}) \cup {d} /\ ui' = ui /\ s \notin back.used /\ c.sid = Nothing
          /\ back' = [back EXCEPT !.alive = @ \cup {s}, !.used = @ \cup {s}]
      BY <1>3 DEF Local!StartShell, Local!Continue
    <2>2. d.op = c.op /\ d.sid = s
          /\ d \in [op : {"connect", "shell"}, sid : Sessions \cup {Nothing}]
      BY DEF LocalFields
    <2> HIDE DEF d
    <2>3. /\ back'.alive = back.alive \cup {s} /\ back'.used = back.used \cup {s}
          /\ back'.listed = back.listed /\ back'.ended = back.ended
          /\ DOMAIN back' = DOMAIN back
      BY <2>1 DEF LocalFields
    <2>4. LocalFields' BY <2>1, <2>2, <2>3 DEF LocalFields
    <2>5. LocalOpened'
      <3>1. Nothing \notin back.alive BY LocalConstants DEF LocalFields, LocalOpened
      <3> QED BY <2>1, <2>2, <2>3, <3>1, LocalConstants DEF LocalOpened
    <2>6. LocalConnects' BY <2>1, <2>2 DEF LocalConnects, Local!CallsOf
    <2>7. LocalShells'
      <3>1. s \notin Local!Range(ui.tabs) BY <2>1, LocalConstants DEF LocalOpened
      <3>2. Nothing \notin back.alive BY LocalConstants DEF LocalFields, LocalOpened
      <3> QED BY <2>1, <2>2, <2>3, <3>1, <3>2 DEF LocalShells
    <2>8. LocalOnTop' BY <2>1 DEF LocalOnTop
    <2> QED BY <2>4, <2>5, <2>6, <2>7, <2>8
  <1>10. ASSUME NEW c \in calls, Local!Connect(c) PROVE LocalInv'
    <2>1. /\ back' = [back EXCEPT !.listed = @ \cup {c.sid}] /\ ui' = ui /\ calls' = calls
          /\ c.sid \in back.used
      BY <1>10 DEF Local!Connect, LocalOpened
    <2> QED
      BY <2>1 DEF LocalFields, LocalOpened, LocalConnects, LocalShells, LocalOnTop,
         Local!CallsOf
  <1>4. ASSUME NEW s \in Sessions, Local!WaitProcess(s) PROVE LocalInv'
    BY <1>4 DEF Local!WaitProcess, LocalFields, LocalOpened, LocalConnects, LocalShells,
       LocalOnTop,
       Local!CallsOf
  <1>5. ASSUME NEW s \in Sessions, Local!SessionClosed(s) PROVE LocalInv'
    <2> DEFINE up == ui.connected /\ ~(/\ ui.mounted /\ s \in Local!Range(ui.tabs)
                                       /\ Local!Range(ui.tabs) \subseteq {s, Nothing})
    <2>1. /\ s \in back.ended /\ back' = [back EXCEPT !.ended = @ \ {s}] /\ calls' = calls
          /\ ui' = [ui EXCEPT !.connected = up]
      BY <1>5 DEF Local!SessionClosed
    <2>2. /\ up \in BOOLEAN /\ (up => ui.connected)
          /\ (~up => ~ui.connected \/ Local!Range(ui.tabs) \subseteq {s, Nothing})
      OBVIOUS
    <2> HIDE DEF up
    <2>3. s \notin back.alive /\ Nothing \notin back.alive
      BY <2>1, LocalConstants DEF LocalFields, LocalOpened
    <2>4. LocalFields' BY <2>1, <2>2 DEF LocalFields
    <2>5. /\ ui'.tabs = ui.tabs /\ ui'.mounted = ui.mounted /\ ui'.late = ui.late
          /\ ui'.connecting = ui.connecting /\ ui'.connected = up /\ ui'.active = ui.active
          /\ back'.alive = back.alive /\ back'.used = back.used /\ back'.listed = back.listed
          /\ back'.ended \subseteq back.ended
      BY <2>1 DEF LocalFields
    <2>6. LocalOpened' /\ LocalConnects' /\ LocalOnTop'
      BY <2>1, <2>2, <2>5 DEF LocalOpened, LocalConnects, LocalOnTop, Local!CallsOf
    <2>7. LocalShells' BY <2>1, <2>2, <2>3, <2>5 DEF LocalShells
    <2> QED BY <2>4, <2>6, <2>7
  <1>6. ASSUME NEW s, Local!SelectTab(s) PROVE LocalInv'
    BY <1>6 DEF Local!SelectTab, LocalFields, LocalOpened, LocalConnects, LocalShells,
       LocalOnTop, Local!CallsOf
  <1>7. CASE Local!Unmount
    BY <1>7 DEF Local!Unmount, LocalFields, LocalOpened, LocalConnects, LocalShells, LocalOnTop,
       Local!CallsOf
  <1>8. CASE Local!DisconnectAll
    BY <1>8 DEF Local!DisconnectAll, LocalFields, LocalOpened, LocalConnects, LocalShells,
       LocalOnTop,
       Local!CallsOf
  <1>9. CASE UNCHANGED Local!vars
    BY <1>9 DEF Local!vars, LocalFields, LocalOpened, LocalConnects, LocalShells, LocalOnTop,
       Local!CallsOf
  <1> QED
    BY <1>2, <1>3, <1>4, <1>5, <1>6, <1>7, <1>8, <1>9, <1>10, LocalCloses, LocalAnswers
       DEF Local!Next, Local!TabStrip, Local!Answer

\* What the invariant says of the view.
THEOREM LocalSays == LocalInv => Local!TypeOK /\ Local!SessionsOwned /\ Local!ShownBelongs
  BY DEF LocalInv, LocalFields, LocalOpened, LocalShells, LocalOnTop, Local!TypeOK,
     Local!SessionsOwned,
     Local!ShownBelongs, Local!Range

-----------------------------------------------------------------------------
\* FileBrowser.tla
\* The constants of the page.
LEMMA BrowserConstants == First \in Things /\ Second \in Things
  BY TwoThings

\* The page is mounted on the root and lists it.
THEOREM BrowserInit == Browser!Init => BrowserInv
  <1> SUFFICES ASSUME Browser!Init PROVE BrowserInv OBVIOUS
  <1>1. /\ ui = [dir |-> First, hist |-> <<First>>, pos |-> 1, rows |-> Nothing, loading |-> TRUE,
                 dialog |-> {}, clip |-> {}, found |-> FALSE, hasty |-> FALSE]
        /\ calls = {[op |-> "list", dir |-> First, rows |-> First],
                    [op |-> "home", dir |-> Nothing, rows |-> Nothing]}
    BY DEF Browser!Init, Browser!List, Browser!Work
  <1>2. <<First>> \in Seq(Things) /\ Len(<<First>>) = 1 /\ <<First>>[1] = First
    BY BrowserConstants
  <1> QED BY <1>1, <1>2, BrowserConstants DEF BrowserInv, BrowserFields, BrowserFresh,
             Browser!ListsLater

\* The path changes, and is listed.
LEMMA BrowserGoes ==
  ASSUME BrowserInv, NEW d \in Things, NEW hist \in Seq(Things), NEW pos \in 1 .. Len(hist), hist[pos] = d,
         NEW others \in SUBSET calls, Browser!GoTo(d, hist, pos, others)
  PROVE  BrowserInv'
  <1> USE DEF BrowserInv
  <1> DEFINE quick == ui.hasty \/ (d # ui.dir /\ (ui.dialog # {} \/ Browser!ListsLater # {}))
             loads == ui.loading \/ d # ui.dir
             n == Browser!List(d)
  <1>1. n.op = "list" /\ n.dir = d /\ n.rows = d BY DEF Browser!List, Browser!Work
  <1>2. /\ calls' = others \cup (IF d = ui.dir THEN {} ELSE {n})
        /\ ui' = [ui EXCEPT !.dir = d, !.hist = hist, !.pos = pos, !.found = FALSE,
                            !.loading = loads, !.hasty = quick]
    BY DEF Browser!GoTo
  <1>3. quick \in BOOLEAN /\ loads \in BOOLEAN BY DEF BrowserFields
  <1>4. ~quick => /\ ~ui.hasty
                  /\ d # ui.dir => loads /\ ui.dialog = {} /\ Browser!ListsLater = {}
                  /\ d = ui.dir => (loads <=> ui.loading)
    BY DEF BrowserFields
  <1> HIDE DEF quick, loads, n
  <1>5. /\ DOMAIN ui' = DOMAIN ui /\ ui'.dir = d /\ ui'.hist = hist /\ ui'.pos = pos
        /\ ui'.loading = loads /\ ui'.hasty = quick /\ ui'.rows = ui.rows
        /\ ui'.dialog = ui.dialog /\ ui'.clip = ui.clip
    BY <1>2 DEF BrowserFields
  <1>6. calls' \subseteq calls \cup {n} /\ (d = ui.dir => calls' \subseteq calls) BY <1>2
  <1>7. BrowserFields' BY <1>1, <1>3, <1>5, <1>6 DEF BrowserFields
  <1>8. BrowserFresh' BY <1>1, <1>4, <1>5, <1>6 DEF BrowserFresh, Browser!ListsLater
  <1> QED BY <1>7, <1>8

\* A directory opened is the newest entry of the history.
LEMMA BrowserOpens == ASSUME BrowserInv, NEW d \in Things, Browser!NavigateTo(d) PROVE BrowserInv'
  <1> DEFINE kept == SubSeq(ui.hist, 1, ui.pos)
             hist == Append(kept, d)
             pos == Len(kept) + 1
  <1>1. ui.hist \in Seq(Things) /\ ui.pos \in 1 .. Len(ui.hist) BY DEF BrowserInv, BrowserFields
  <1>2. ui.pos <= Len(ui.hist) /\ ui.pos \in Nat /\ Len(ui.hist) \in Nat BY <1>1
  <1>3. \A i \in 1 .. ui.pos : ui.hist[i] \in Things BY <1>1, <1>2, ElementOfSeq
  <1>4. kept \in Seq(Things) BY <1>1, <1>2, <1>3, SubSeqProperties
  <1>5. Browser!GoTo(d, hist, pos, calls) BY Zenon DEF Browser!NavigateTo
  <1> HIDE DEF kept
  <1>6. hist \in Seq(Things) /\ Len(hist) = Len(kept) + 1 /\ hist[pos] = d /\ Len(kept) \in Nat
    BY <1>4, AppendProperties
  <1>7. pos \in 1 .. Len(hist) BY <1>6
  <1> HIDE DEF hist, pos
  <1> QED BY <1>5, <1>6, <1>7, BrowserGoes

\* What is asked for on the path shown, by a button or out of a dialog.
LEMMA BrowserAsks ==
  ASSUME BrowserInv, NEW n, calls' = calls \cup {n}, back' = back,
         (n.dir = ui.dir /\ n.rows = ui.dir) \/ n \in ui.dialog,
         \/ ui' = ui \/ ui' = [ui EXCEPT !.loading = TRUE] \/ ui' = [ui EXCEPT !.dialog = {}]
  PROVE  BrowserInv'
  <1> USE DEF BrowserInv
  <1>1. /\ DOMAIN ui' = DOMAIN ui /\ ui'.dir = ui.dir /\ ui'.hist = ui.hist /\ ui'.pos = ui.pos
        /\ ui'.rows = ui.rows /\ ui'.hasty = ui.hasty /\ ui'.loading \in {ui.loading, TRUE}
        /\ ui'.dialog \subseteq ui.dialog /\ ui'.clip = ui.clip
    BY Zenon DEF BrowserFields
  <1>2. BrowserFields' BY Zenon, <1>1 DEF BrowserFields
  <1>3. BrowserFresh' BY Zenon, <1>1 DEF BrowserFresh, Browser!ListsLater
  <1> QED BY <1>2, <1>3

\* The page alone changes: a dialog opens or closes, or a row is copied or cut.
LEMMA BrowserPicks ==
  ASSUME BrowserInv, calls' = calls,
         \/ Browser!OpenDialog("change") \/ Browser!HandleMakeDir
         \/ \E op \in {"copy", "cut"} : Browser!CopyOrCut(op)
         \/ Browser!CloseDialog
         \/ ui' = ui
  PROVE  BrowserInv'
  <1> USE DEF BrowserInv
  <1>1. CASE ui' = ui BY <1>1 DEF BrowserFields, BrowserFresh, Browser!ListsLater
  <1>2. ASSUME NEW rows \in {ui.rows, ui.dir}, rows = ui.dir \/ ~ui.loading,
               ui' = [ui EXCEPT !.dialog = {Browser!Work("change", ui.dir, rows)}]
        PROVE  BrowserInv'
    <2> DEFINE w == Browser!Work("change", ui.dir, rows)
    <2>1. w.op = "change" /\ w.dir = ui.dir /\ w.rows = rows BY DEF Browser!Work
    <2>2. ui' = [ui EXCEPT !.dialog = {w}] BY <1>2
    <2> HIDE DEF w
    <2>3. /\ DOMAIN ui' = DOMAIN ui /\ ui'.dir = ui.dir /\ ui'.hist = ui.hist /\ ui'.pos = ui.pos
          /\ ui'.rows = ui.rows /\ ui'.hasty = ui.hasty /\ ui'.loading = ui.loading
          /\ ui'.dialog = {w} /\ ui'.clip = ui.clip
      BY <2>2 DEF BrowserFields
    <2>4. BrowserFields' BY <2>1, <2>3 DEF BrowserFields
    <2>5. BrowserFresh' BY <1>2, <2>1, <2>3 DEF BrowserFresh, Browser!ListsLater
    <2> QED BY <2>4, <2>5
  <1>3. ASSUME NEW op \in {"copy", "cut"}, Browser!CopyOrCut(op) PROVE BrowserInv'
    <2> DEFINE w == Browser!Work(op, ui.dir, ui.dir)
    <2>1. w.op = op BY DEF Browser!Work
    <2>2. ui' = [ui EXCEPT !.clip = {w}] BY <1>3 DEF Browser!CopyOrCut
    <2> HIDE DEF w
    <2>3. /\ DOMAIN ui' = DOMAIN ui /\ ui'.dir = ui.dir /\ ui'.hist = ui.hist /\ ui'.pos = ui.pos
          /\ ui'.rows = ui.rows /\ ui'.hasty = ui.hasty /\ ui'.loading = ui.loading
          /\ ui'.dialog = ui.dialog /\ ui'.clip = {w}
      BY <2>2 DEF BrowserFields
    <2>4. BrowserFields' BY <1>3, <2>1, <2>3 DEF BrowserFields
    <2>5. BrowserFresh' BY <2>3 DEF BrowserFresh, Browser!ListsLater
    <2> QED BY <2>4, <2>5
  <1>4. CASE Browser!CloseDialog
    <2>1. /\ DOMAIN ui' = DOMAIN ui /\ ui'.dir = ui.dir /\ ui'.hist = ui.hist /\ ui'.pos = ui.pos
          /\ ui'.rows = ui.rows /\ ui'.hasty = ui.hasty /\ ui'.loading = ui.loading
          /\ ui'.dialog = {} /\ ui'.clip = ui.clip
      BY <1>4 DEF Browser!CloseDialog, BrowserFields
    <2>2. BrowserFields' BY <2>1 DEF BrowserFields
    <2>3. BrowserFresh' BY <2>1 DEF BrowserFresh, Browser!ListsLater
    <2> QED BY <2>2, <2>3
  <1>5. CASE Browser!OpenDialog("change") \/ Browser!HandleMakeDir
    BY <1>2, <1>5 DEF Browser!OpenDialog, Browser!RowsUsable, Browser!HandleMakeDir
  <1> QED BY <1>1, <1>3, <1>4, <1>5

\* The answers: a list gives the rows, a change lists, a search finds.
LEMMA BrowserAnswers ==
  ASSUME BrowserInv, NEW c \in calls, Browser!AnswerList(c) \/ Browser!AnswerChange(c) \/ Browser!AnswerSearch(c)
  PROVE  BrowserInv'
  <1> USE DEF BrowserInv
  <1>1. CASE Browser!AnswerList(c)
    <2>1. PICK rows \in {c.dir, ui.rows} :
            ui' = [ui EXCEPT !.rows = rows, !.loading = FALSE, !.hasty = @ \/ rows # c.dir]
      BY Zenon, <1>1 DEF Browser!AnswerList
    <2>2. calls' = calls \ {c} /\ c.op = "list" BY <1>1 DEF Browser!AnswerList, Browser!Answered
    <2>3. /\ DOMAIN ui' = DOMAIN ui /\ ui'.dir = ui.dir /\ ui'.hist = ui.hist /\ ui'.pos = ui.pos
          /\ ui'.rows = rows /\ ui'.hasty = (ui.hasty \/ rows # c.dir) /\ ui'.loading = FALSE
          /\ ui'.dialog = ui.dialog /\ ui'.clip = ui.clip
      BY <2>1 DEF BrowserFields
    <2>4. rows \in Things \cup {Nothing} BY DEF BrowserFields
    <2>5. ui'.hasty \in BOOLEAN /\ ui'.loading \in BOOLEAN BY Zenon, <2>3
    <2>6. BrowserFields' BY <2>2, <2>3, <2>4, <2>5 DEF BrowserFields
    <2>7. ~ui'.hasty => ~ui.hasty /\ rows = c.dir BY Zenon, <2>3 DEF BrowserFields
    <2>8. ~ui'.hasty => rows = ui.dir BY <2>2, <2>7 DEF BrowserFresh, Browser!ListsLater
    <2>9. BrowserFresh' BY <2>2, <2>3, <2>7, <2>8 DEF BrowserFresh, Browser!ListsLater
    <2> QED BY <2>6, <2>9
  <1>2. CASE Browser!AnswerChange(c) /\ Browser!Continue(c, Browser!List(c.dir))
    <2> DEFINE n == Browser!List(c.dir)
               clip == IF c.op = "cut" THEN {} ELSE ui.clip
    <2>1. n.op = "list" /\ n.dir = c.dir /\ n.rows = c.dir BY DEF Browser!List, Browser!Work
    <2>2. calls' = (calls \ {c}) \cup {n} BY <1>2 DEF Browser!Continue
    <2>3. c.op \notin {"home", "search", "list"} BY <1>2 DEF Browser!AnswerChange
    <2>4. \/ ui' = [ui EXCEPT !.loading = TRUE, !.clip = clip] \/ ui' = ui
      BY <1>2 DEF Browser!AnswerChange
    <2>5. clip \subseteq ui.clip OBVIOUS
    <2> HIDE DEF n, clip
    <2>6. /\ DOMAIN ui' = DOMAIN ui /\ ui'.dir = ui.dir /\ ui'.hist = ui.hist /\ ui'.pos = ui.pos
          /\ ui'.rows = ui.rows /\ ui'.hasty = ui.hasty /\ ui'.loading \in {ui.loading, TRUE}
          /\ ui'.dialog = ui.dialog /\ ui'.clip \subseteq ui.clip
      BY Zenon, <2>4, <2>5 DEF BrowserFields
    <2>7. BrowserFields' BY Zenon, <2>1, <2>2, <2>6 DEF BrowserFields
    <2>8. BrowserFresh' BY Zenon, <2>1, <2>2, <2>3, <2>6 DEF BrowserFresh, Browser!ListsLater
    <2> QED BY <2>7, <2>8
  <1>3. CASE (Browser!AnswerChange(c) /\ Browser!Answered(c) /\ ui' = ui) \/ Browser!AnswerSearch(c)
    <2>1. calls' = calls \ {c} BY <1>3 DEF Browser!AnswerSearch, Browser!Answered
    <2>2. /\ DOMAIN ui' = DOMAIN ui /\ ui'.dir = ui.dir /\ ui'.hist = ui.hist /\ ui'.pos = ui.pos
          /\ ui'.rows = ui.rows /\ ui'.hasty = ui.hasty /\ ui'.loading = ui.loading
          /\ ui'.dialog = ui.dialog /\ ui'.clip = ui.clip
      BY <1>3 DEF Browser!AnswerSearch, BrowserFields
    <2>3. BrowserFields' BY <2>1, <2>2 DEF BrowserFields
    <2>4. BrowserFresh' BY <2>1, <2>2 DEF BrowserFresh, Browser!ListsLater
    <2> QED BY <2>3, <2>4
  <1>4. Browser!AnswerChange(c) => Browser!Continue(c, Browser!List(c.dir)) \/ (Browser!Answered(c) /\ ui' = ui)
    BY DEF Browser!AnswerChange
  <1> QED BY <1>1, <1>2, <1>3, <1>4

\* The history: back, up, and the home that answers.
LEMMA BrowserWalks ==
  ASSUME BrowserInv, Browser!GoBack \/ Browser!GoUp \/ \E c \in calls : Browser!AnswerHome(c)
  PROVE  BrowserInv'
  <1>1. CASE Browser!GoBack
    <2> DEFINE pos == ui.pos - 1
               d == ui.hist[pos]
    <2>1. ui.hist \in Seq(Things) /\ ui.pos \in 1 .. Len(ui.hist)
      BY DEF BrowserInv, BrowserFields
    <2>2. pos \in 1 .. Len(ui.hist) /\ Browser!GoTo(d, ui.hist, pos, calls)
      BY <1>1, <2>1 DEF Browser!GoBack
    <2> HIDE DEF pos
    <2>3. d \in Things BY <2>1, <2>2, ElementOfSeq
    <2> QED BY <2>1, <2>2, <2>3, BrowserGoes
  <1>2. CASE Browser!GoUp BY <1>2, BrowserOpens, BrowserConstants DEF Browser!GoUp
  <1>3. ASSUME NEW c \in calls, Browser!AnswerHome(c) PROVE BrowserInv'
    <2>1. CASE Browser!GoTo(Second, <<Second>>, 1, calls \ {c})
      <3>1. <<Second>> \in Seq(Things) /\ 1 \in 1 .. Len(<<Second>>) /\ <<Second>>[1] = Second
        BY BrowserConstants
      <3>2. calls \ {c} \in SUBSET calls OBVIOUS
      <3> QED BY Zenon, <2>1, <3>1, <3>2, BrowserGoes, BrowserConstants
    <2>2. CASE calls' = calls \ {c} /\ ui' = ui
      BY <2>2 DEF BrowserInv, BrowserFields, BrowserFresh, Browser!ListsLater
    <2> QED BY <1>3, <2>1, <2>2 DEF Browser!AnswerHome, Browser!Answered
  <1> QED BY <1>1, <1>2, <1>3

\* No step of the page leaves the invariant.
THEOREM BrowserNext == BrowserInv /\ [Browser!Next]_Browser!vars => BrowserInv'
  <1> SUFFICES ASSUME BrowserInv, [Browser!Next]_Browser!vars PROVE BrowserInv' OBVIOUS
  <1>1. CASE Browser!Refresh \/ Browser!HandlePaste \/ Browser!HandleUpload \/ Browser!HandleSearch
    <2>1. ASSUME NEW op, Browser!Ask(Browser!Work(op, ui.dir, ui.dir)), back' = back,
                 ui' = ui \/ ui' = [ui EXCEPT !.loading = TRUE]
          PROVE  BrowserInv'
      <3> DEFINE n == Browser!Work(op, ui.dir, ui.dir)
      <3>1. n.dir = ui.dir /\ n.rows = ui.dir BY DEF Browser!Work
      <3>2. calls' = calls \cup {n} BY <2>1 DEF Browser!Ask
      <3> HIDE DEF n
      <3> QED BY <2>1, <3>1, <3>2, BrowserAsks
    <2>2. Browser!Refresh => Browser!Ask(Browser!Work("list", ui.dir, ui.dir)) /\ back' = back /\ ui' = [ui EXCEPT !.loading = TRUE]
      BY DEF Browser!Refresh, Browser!List
    <2>3. Browser!HandlePaste => \E op : Browser!Ask(Browser!Work(op, ui.dir, ui.dir)) /\ back' = back /\ ui' = ui
      BY DEF Browser!HandlePaste
    <2> QED BY <1>1, <2>1, <2>2, <2>3 DEF Browser!HandleUpload, Browser!HandleSearch
  <1>2. CASE Browser!CloseDialog
    <2>1. ASSUME NEW w \in ui.dialog, Browser!Ask(w) PROVE BrowserInv'
      <3>1. calls' = calls \cup {w} /\ back' = back /\ ui' = [ui EXCEPT !.dialog = {}]
        BY <1>2, <2>1 DEF Browser!CloseDialog, Browser!Ask
      <3> QED BY <2>1, <3>1, BrowserAsks
    <2>2. CASE calls' = calls BY <1>2, <2>2, BrowserPicks
    <2> QED BY <1>2, <2>1, <2>2 DEF Browser!CloseDialog
  <1>3. CASE \/ Browser!OpenDialog("change") \/ Browser!HandleMakeDir
             \/ \E op \in {"copy", "cut"} : Browser!CopyOrCut(op)
    BY <1>3, BrowserPicks DEF Browser!OpenDialog, Browser!HandleMakeDir, Browser!CopyOrCut
  <1>4. CASE UNCHANGED Browser!vars BY <1>4, BrowserPicks DEF Browser!vars
  <1>5. CASE \E d \in Things : Browser!EnterDirectory(d) \/ Browser!OpenResult(d)
    BY <1>5, BrowserOpens DEF Browser!EnterDirectory, Browser!OpenResult
  <1> QED
    BY <1>1, <1>2, <1>3, <1>4, <1>5, BrowserAnswers, BrowserWalks
       DEF Browser!Next, Browser!Toolbar, Browser!Rows, Browser!RowMenu, Browser!SearchDialog,
          Browser!HandleRename, Browser!HandleChmod,
           Browser!HandleDelete, Browser!Answer

\* What the invariant says of the page.
THEOREM BrowserSays == BrowserInv => Browser!TypeOK /\ Browser!ShownBelongs
  BY DEF BrowserInv, BrowserFields, BrowserFresh, Browser!TypeOK, Browser!ShownBelongs,
     Browser!ListsLater

-----------------------------------------------------------------------------
\* FileViewer.tla
\* Nothing is open.
THEOREM ViewerInit == Viewer!Init => ViewerInv
  BY DEF Viewer!Init, ViewerInv, ViewerFields, ViewerReads, ViewerWrites, Viewer!ShownBelongs,
     Viewer!UntouchedKept, Viewer!CallsOf

\* No step of the dialog leaves the invariant.
THEOREM ViewerNext == ViewerInv /\ [Viewer!Next]_Viewer!vars => ViewerInv'
  <1> SUFFICES ASSUME ViewerInv, [Viewer!Next]_Viewer!vars PROVE ViewerInv' OBVIOUS
  <1> USE DEF ViewerInv
  <1>1. ASSUME NEW f \in Things, Viewer!OpenFile(f) PROVE ViewerInv'
    <2> DEFINE d == [op |-> "read", file |-> f, text |-> f]
               again == ui.reopened \/ Viewer!CallsOf({"read"}) # {}
    <2>1. d.op = "read" /\ d.file = f /\ d.text = f OBVIOUS
    <2>2. calls' = calls \cup {d} /\ back' = back /\ ~ui.open
          /\ ui' = [ui EXCEPT !.open = TRUE, !.file = f, !.loading = TRUE, !.reopened = again]
      BY <1>1 DEF Viewer!OpenFile, Viewer!Ask
    <2>3. again \in BOOLEAN /\ (~again => ~ui.reopened /\ \A c \in calls : c.op # "read")
      BY DEF ViewerFields, Viewer!CallsOf
    <2> HIDE DEF d, again
    <2>4. /\ DOMAIN ui' = DOMAIN ui /\ ui'.open = TRUE /\ ui'.file = f /\ ui'.loading = TRUE
          /\ ui'.reopened = again /\ ui'.text = ui.text /\ ui'.editing = ui.editing
          /\ ui'.modified = ui.modified
      BY <2>2 DEF ViewerFields
    <2>5. ViewerFields' BY <2>1, <2>2, <2>3, <2>4 DEF ViewerFields
    <2>6. ViewerReads' BY <2>1, <2>2, <2>3, <2>4 DEF ViewerReads, Viewer!CallsOf
    <2>7. ViewerWrites' BY <2>1, <2>2, <2>3, <2>4 DEF ViewerWrites, Viewer!CallsOf
    <2>8. Viewer!ShownBelongs' /\ Viewer!UntouchedKept'
      BY <2>2, <2>3, <2>4 DEF Viewer!ShownBelongs, Viewer!UntouchedKept
    <2> QED BY <2>5, <2>6, <2>7, <2>8
  <1>2. ASSUME NEW c \in calls, Viewer!AnswerRead(c) PROVE ViewerInv'
    <2>1. PICK ok \in BOOLEAN : ui' = [ui EXCEPT !.text = IF ok THEN c.file ELSE Nothing,
                                       !.loading = FALSE, !.failed = ~ok]
      BY Zenon, <1>2 DEF Viewer!AnswerRead
    <2>2. calls' = calls \ {c} /\ back' = back /\ c.op = "read"
      BY <1>2 DEF Viewer!AnswerRead, Viewer!Answered
    <2>3. /\ DOMAIN ui' = DOMAIN ui /\ ui'.open = ui.open /\ ui'.file = ui.file
          /\ ui'.loading = FALSE /\ ui'.text \in {c.file, Nothing} /\ ui'.reopened = ui.reopened
          /\ ui'.editing = ui.editing /\ ui'.modified = ui.modified
      BY <2>1 DEF ViewerFields
    <2>4. ~ui.reopened => c.file = ui.file /\ \A d \in calls \ {c} : d.op # "read"
      BY <2>2 DEF ViewerReads, Viewer!CallsOf
    <2>5. ViewerFields' BY <2>2, <2>3 DEF ViewerFields
    <2>6. ViewerReads' BY <2>2, <2>3, <2>4 DEF ViewerReads, Viewer!CallsOf
    <2>7. ViewerWrites' BY <2>2, <2>3 DEF ViewerWrites, Viewer!CallsOf
    <2>8. Viewer!ShownBelongs' BY <2>3, <2>4 DEF Viewer!ShownBelongs
    <2>9. Viewer!UntouchedKept' BY <2>2, <2>3 DEF Viewer!UntouchedKept
    <2> QED BY <2>5, <2>6, <2>7, <2>8, <2>9
  <1>3. CASE Viewer!StartEdit \/ Viewer!CancelEdit \/ Viewer!Type \/ Viewer!HandleClose \/ UNCHANGED Viewer!vars
    <2>1. /\ DOMAIN ui' = DOMAIN ui /\ ui'.file = ui.file /\ ui'.text = ui.text
          /\ ui'.loading = ui.loading /\ ui'.reopened = ui.reopened
          /\ (ui'.open => ui.open) /\ (ui'.modified => ui'.editing /\ ui'.open /\ ~ui'.loading)
          /\ (ui'.editing => ui'.open) /\ ui'.editing \in BOOLEAN
      BY Zenon, <1>3 DEF Viewer!StartEdit, Viewer!CancelEdit, Viewer!Type, Viewer!HandleClose,
         Viewer!vars, ViewerFields
    <2>2. calls' = calls /\ back' = back
      BY <1>3 DEF Viewer!StartEdit, Viewer!CancelEdit, Viewer!Type, Viewer!HandleClose,
         Viewer!vars
    <2>3. ViewerFields' BY <2>1, <2>2 DEF ViewerFields
    <2>4. ViewerReads' /\ ViewerWrites' BY <2>1, <2>2 DEF ViewerReads, ViewerWrites,
                                           Viewer!CallsOf
    <2>5. Viewer!ShownBelongs' /\ Viewer!UntouchedKept'
      BY <2>1, <2>2 DEF Viewer!ShownBelongs, Viewer!UntouchedKept
    <2> QED BY <2>3, <2>4, <2>5
  <1>4. CASE Viewer!HandleSave
    <2> DEFINE d == [op |-> "write", file |-> ui.file, text |-> ui.text]
    <2>1. d.op = "write" /\ d.file = ui.file /\ d.text = ui.text OBVIOUS
    <2>2. calls' = calls \cup {d} /\ ui' = ui /\ back' = back
      BY <1>4 DEF Viewer!HandleSave, Viewer!Ask
    <2>3. ~ui.reopened => ui.text \in {ui.file, Nothing}
      BY <1>4 DEF Viewer!HandleSave, ViewerFields, Viewer!ShownBelongs
    <2> HIDE DEF d
    <2>4. ViewerFields' BY <2>1, <2>2 DEF ViewerFields
    <2>5. ViewerReads' BY <2>1, <2>2 DEF ViewerReads, Viewer!CallsOf
    <2>6. ViewerWrites' BY <2>1, <2>2, <2>3 DEF ViewerWrites, Viewer!CallsOf
    <2>7. Viewer!ShownBelongs' /\ Viewer!UntouchedKept'
      BY <2>2 DEF Viewer!ShownBelongs, Viewer!UntouchedKept
    <2> QED BY <2>4, <2>5, <2>6, <2>7
  <1>5. ASSUME NEW c \in calls, Viewer!AnswerSave(c) PROVE ViewerInv'
    <2>1. calls' = calls \ {c} /\ back' = back \cup {<<c.file, c.text>>} /\ c.op = "write"
      BY <1>5 DEF Viewer!AnswerSave, Viewer!Answered
    <2>2. /\ DOMAIN ui' = DOMAIN ui /\ ui'.file = ui.file /\ ui'.text = ui.text
          /\ ui'.loading = ui.loading /\ ui'.reopened = ui.reopened /\ ui'.open = ui.open
          /\ (ui'.modified => ui'.editing /\ ui'.open /\ ~ui'.loading)
          /\ (ui'.editing => ui'.open) /\ ui'.editing \in BOOLEAN
      BY Zenon, <1>5 DEF Viewer!AnswerSave, ViewerFields
    <2>3. ~ui.reopened => c.text \in {c.file, Nothing} BY <2>1 DEF ViewerWrites, Viewer!CallsOf
    <2>4. ViewerFields' BY <2>1, <2>2 DEF ViewerFields
    <2>5. ViewerReads' /\ ViewerWrites' BY <2>1, <2>2 DEF ViewerReads, ViewerWrites,
                                           Viewer!CallsOf
    <2>6. Viewer!ShownBelongs' BY <2>2 DEF Viewer!ShownBelongs
    <2>7. Viewer!UntouchedKept'
      <3> DEFINE w == <<c.file, c.text>>
      <3>1. w[1] = c.file /\ w[2] = c.text OBVIOUS
      <3>2. back' = back \cup {w} BY <2>1
      <3> HIDE DEF w
      <3> QED BY <2>2, <2>3, <3>1, <3>2 DEF Viewer!UntouchedKept
    <2> QED BY <2>4, <2>5, <2>6, <2>7
  <1> QED BY <1>1, <1>2, <1>3, <1>4, <1>5 DEF Viewer!Next, Viewer!Dialog, Viewer!Answer

\* What the invariant says of the dialog.
THEOREM ViewerSays == ViewerInv => Viewer!TypeOK /\ Viewer!ShownBelongs /\ Viewer!UntouchedKept
  BY DEF ViewerInv, ViewerFields, Viewer!TypeOK

-----------------------------------------------------------------------------
\* TransferQueue.tla
\* The constants of the page.
LEMMA TransConstants == Things # {} /\ Bound \in Nat \ {0}
  BY PagesAssumption

\* A set of the page has the size it has everywhere.
LEMMA TransSize == \A S : Transfers!Cardinality(S) = Cardinality(S)
  BY DEF Transfers!Cardinality, Cardinality

\* Where the items are those of before, an upload that ended keeps its outcome.
LEMMA TransKeeps ==
  ASSUME TransInv, ~ui'.disturbed => ~ui.disturbed /\ Follows(ui'.queue, ui.queue, ui.last)
  PROVE  Transfers!EndsOnce
  <1> SUFFICES ASSUME ~ui'.disturbed, NEW i \in DOMAIN ui.queue, NEW j \in DOMAIN ui'.queue,
                      ui.queue[i].id = ui'.queue[j].id, ui.queue[i].up, ui.queue[i].status \in Transfers!Ended
               PROVE  ui'.queue[j] = ui.queue[i]
    BY DEF Transfers!EndsOnce
  <1>1. Follows(ui'.queue, ui.queue, ui.last) /\ Numbered(ui.queue, ui.last)
    BY DEF TransInv, TransOwned
  <1>2. ui.queue[i].id \in 1 .. ui.last BY <1>1 DEF Numbered
  <1>3. j \in DOMAIN ui.queue BY <1>1, <1>2 DEF Follows, TransInv, TransFields
  <1>4. ui'.queue[j].id = ui.queue[j].id BY <1>1, <1>3 DEF Follows
  <1>5. j = i BY <1>1, <1>3, <1>4 DEF Numbered
  <1> QED BY <1>1, <1>5 DEF Follows

\* The first of some places.
LEMMA TransFirst ==
  ASSUME NEW at \in SUBSET (Nat \ {0})
  PROVE  /\ Transfers!FirstOf(at) \in Nat /\ (Transfers!FirstOf(at) = 0 <=> at = {})
         /\ at # {} => Transfers!FirstOf(at) \in at
  <1> QED BY Zenon, LeastElement DEF Transfers!FirstOf

\* An item gets a status, and the others are left alone.
LEMMA TransSets ==
  ASSUME NEW q \in Seq(TransItems), NEW i \in DOMAIN q, NEW s \in Transfers!Ended \cup {"pending", "uploading"}
  PROVE  LET p == Transfers!WithStatus(q, i, s)
         IN  /\ p \in Seq(TransItems) /\ DOMAIN p = DOMAIN q /\ Len(p) = Len(q)
             /\ p[i] \in TransItems /\ p[i].id = q[i].id /\ p[i].name = q[i].name
             /\ p[i].up = q[i].up /\ p[i].to = q[i].to /\ p[i].status = s
             /\ \A j \in DOMAIN q : j # i => p[j] = q[j]
  <1> DEFINE f == [q[i] EXCEPT !.status = s]
             p == [q EXCEPT ![i] = f]
  <1>1. q[i] \in TransItems OBVIOUS
  <1>2. /\ f \in TransItems /\ f.id = q[i].id /\ f.name = q[i].name /\ f.up = q[i].up
        /\ f.to = q[i].to /\ f.status = s
    BY <1>1 DEF TransItems
  <1> HIDE DEF f
  <1>3. p \in Seq(TransItems) /\ DOMAIN p = DOMAIN q /\ Len(p) = Len(q) BY <1>2
  <1>4. p[i] = f /\ \A j \in DOMAIN q : j # i => p[j] = q[j] OBVIOUS
  <1>5. Transfers!WithStatus(q, i, s) = p
    <2>1. i # 0 OBVIOUS
    <2> QED BY <2>1 DEF Transfers!WithStatus, f
  <1> HIDE DEF p
  <1> QED BY <1>2, <1>3, <1>4, <1>5

\* Nothing is queued at first.
THEOREM TransInit == Transfers!Init => TransInv
  <1> SUFFICES ASSUME Transfers!Init PROVE TransInv OBVIOUS
  <1>1. /\ DOMAIN ui = {"queue", "last", "cancelOne", "broken", "host", "disturbed"}
        /\ ui.queue = <<>> /\ ui.last = 0 /\ ui.cancelOne = FALSE /\ ui.broken = FALSE
        /\ ui.host \in Things /\ ui.disturbed = FALSE /\ calls = {} /\ back = 0
    BY TransConstants DEF Transfers!Init
  <1>2. TransFields
    <2>1. <<>> \in Seq(TransItems) /\ 0 \in Nat /\ FALSE \in BOOLEAN OBVIOUS
    <2> QED BY Zenon, <1>1, <2>1 DEF TransFields, Transfers!Uploads, Transfers!CallsOf
  <1>3. TransOwned BY <1>1 DEF TransOwned, Transfers!WorkOwned, Transfers!Uploads,
                      Transfers!CallsOf, Numbered
  <1> QED BY <1>2, <1>3 DEF TransInv

\* One turn of the loop, on a queue in which nothing is shown as uploading.
LEMMA TransProceeds ==
  ASSUME TransInv, NEW c \in Transfers!Uploads, NEW q \in Seq(TransItems), NEW u, Transfers!Proceed(c, q, u),
         DOMAIN u = DOMAIN ui, u.last = ui.last, u.host = ui.host, u.disturbed = ui.disturbed,
         u.cancelOne \in BOOLEAN, u.broken \in BOOLEAN, back' \in Nat,
         ~ui.disturbed => Idle(q) /\ Numbered(q, ui.last) /\ Follows(q, ui.queue, ui.last)
  PROVE  TransInv' /\ Transfers!EndsOnce
  <1> DEFINE i == Transfers!NextPending(q)
             p == Transfers!WithStatus(q, i, "uploading")
  <1>1. /\ i \in Nat /\ (i # 0 => i \in DOMAIN q /\ q[i].status = "pending")
        /\ i = 0 => \A j \in DOMAIN q : q[j].status # "pending"
    <2> DEFINE at == {j \in DOMAIN q : q[j].status = "pending"}
    <2>1. at \in SUBSET (Nat \ {0}) OBVIOUS
    <2>2. i = Transfers!FirstOf(at) BY DEF Transfers!NextPending
    <2> QED BY <2>1, <2>2, TransFirst
  <1>2. /\ ui' = [u EXCEPT !.queue = p]
        /\ IF i = 0 THEN calls' = calls \ {c}
           ELSE calls' = (calls \ {c}) \cup {[op |-> "upload", at |-> i, name |-> q[i].name, host |-> c.host]}
    BY DEF Transfers!Proceed, Transfers!Answered, Transfers!Continue
  <1> HIDE DEF i
  <1>3. /\ i = 0 => p = q
        /\ i # 0 => /\ p \in Seq(TransItems) /\ DOMAIN p = DOMAIN q
                    /\ p[i].id = q[i].id /\ p[i].name = q[i].name
                    /\ p[i].up = q[i].up /\ p[i].to = q[i].to /\ p[i].status = "uploading"
                    /\ \A j \in DOMAIN q : j # i => p[j] = q[j]
    <2>1. i = 0 => p = q BY DEF Transfers!WithStatus
    <2>2. ASSUME i # 0
          PROVE  /\ p \in Seq(TransItems) /\ DOMAIN p = DOMAIN q
                 /\ p[i].id = q[i].id /\ p[i].name = q[i].name
                 /\ p[i].up = q[i].up /\ p[i].to = q[i].to /\ p[i].status = "uploading"
                 /\ \A j \in DOMAIN q : j # i => p[j] = q[j]
      BY <1>1, <2>2, TransSets
    <2> QED BY <2>1, <2>2
  <1> HIDE DEF p
  <1>4. /\ DOMAIN ui' = DOMAIN ui /\ ui'.queue = p /\ ui'.last = ui.last /\ ui'.host = ui.host
        /\ ui'.disturbed = ui.disturbed /\ ui'.cancelOne \in BOOLEAN /\ ui'.broken \in BOOLEAN
    BY <1>2 DEF TransInv, TransFields
  <1>5. c \in TransCalls /\ c.host \in Things /\ \A d \in Transfers!Uploads : d = c
    BY DEF TransInv, TransFields, TransCalls, Transfers!Uploads, Transfers!CallsOf
  <1>6. CASE i = 0
    <2>1. calls' = calls \ {c} /\ ui'.queue = q BY <1>2, <1>3, <1>4, <1>6
    <2>2. Transfers!Uploads' = {} BY <1>5, <2>1 DEF Transfers!Uploads, Transfers!CallsOf
    <2>3. TransFields' BY <1>4, <2>1, <2>2 DEF TransInv, TransFields
    <2>4. TransOwned'
      BY <1>1, <1>4, <1>6, <2>1, <2>2 DEF TransOwned, Transfers!WorkOwned, Idle,
         Transfers!Uploads, Transfers!CallsOf
    <2>5. Transfers!EndsOnce BY <1>4, <2>1, TransKeeps
    <2> QED BY <2>3, <2>4, <2>5 DEF TransInv
  <1>7. CASE i # 0
    <2> DEFINE d == [op |-> "upload", at |-> i, name |-> q[i].name, host |-> c.host]
    <2>1. calls' = (calls \ {c}) \cup {d} BY <1>2, <1>7
    <2>2. q[i] \in TransItems BY <1>1, <1>7
    <2>3. d \in TransCalls /\ d.op = "upload" /\ d.at = i /\ d.name = q[i].name /\ d.host = c.host
      BY <1>1, <1>5, <1>7, <2>2 DEF TransCalls, TransItems
    <2> HIDE DEF d
    <2>4. Transfers!Uploads' = {d} /\ Transfers!CallsOf({"upload"})' = {d}
      BY <1>5, <2>1, <2>3 DEF Transfers!Uploads, Transfers!CallsOf
    <2>5. TransFields' BY <1>3, <1>4, <1>7, <2>1, <2>3, <2>4 DEF TransInv, TransFields
    <2>6. ASSUME ~ui.disturbed
          PROVE  /\ Numbered(p, ui.last) /\ Follows(p, ui.queue, ui.last)
                 /\ q[i].up /\ q[i].to = ui.host /\ c.host = ui.host
      <3>1. Idle(q) /\ Numbered(q, ui.last) /\ Follows(q, ui.queue, ui.last) BY <2>6
      <3>2. q[i].up /\ q[i].to = ui.host BY <1>1, <1>7, <3>1 DEF Idle
      <3>3. Numbered(p, ui.last) BY <1>3, <1>7, <3>1 DEF Numbered
      <3>4. Follows(p, ui.queue, ui.last)
        <4>1. ASSUME NEW j \in DOMAIN ui.queue
              PROVE  /\ j \in DOMAIN p /\ p[j].id = ui.queue[j].id
                     /\ ui.queue[j].up /\ ui.queue[j].status \in Transfers!Ended => p[j] = ui.queue[j]
          <5>1. /\ j \in DOMAIN q /\ q[j].id = ui.queue[j].id
                /\ ui.queue[j].up /\ ui.queue[j].status \in Transfers!Ended => q[j] = ui.queue[j]
            BY <3>1 DEF Follows
          <5>2. CASE j = i BY <1>1, <1>3, <1>7, <5>1, <5>2 DEF Transfers!Ended
          <5>3. CASE j # i BY <1>3, <1>7, <5>1, <5>3
          <5> QED BY <5>2, <5>3
        <4>2. ASSUME NEW j \in DOMAIN p PROVE j \in DOMAIN ui.queue \/ p[j].id > ui.last
          <5>1. j \in DOMAIN q /\ p[j].id = q[j].id BY <1>3, <1>7
          <5> QED BY <3>1, <5>1 DEF Follows
        <4> QED BY <4>1, <4>2 DEF Follows
      <3>5. c.host = ui.host BY <2>6 DEF TransInv, TransOwned
      <3> QED BY <3>2, <3>3, <3>4, <3>5
    <2>7. TransOwned'
      <3> SUFFICES ASSUME ~ui.disturbed PROVE TransOwned'
        BY <1>4 DEF TransOwned, Transfers!WorkOwned
      <3>1. ASSUME NEW j \in DOMAIN p, p[j].up, p[j].status = "uploading"
            PROVE  d.at = j /\ d.name = p[j].name /\ d.host = p[j].to
        <4>1. j = i BY <1>3, <1>7, <3>1 DEF Idle
        <4> QED BY <1>3, <1>7, <2>3, <2>6, <4>1
      <3>2. Transfers!WorkOwned' BY <1>4, <2>4, <3>1 DEF Transfers!WorkOwned
      <3>3. \A j \in DOMAIN p : p[j].status = "pending" => p[j].up /\ p[j].to = ui.host
        BY <1>3, <1>7 DEF Idle
      <3>4. i \in DOMAIN p /\ p[i].up /\ p[i].status = "uploading" BY <1>1, <1>3, <1>7, <2>6
      <3> QED BY <1>4, <2>3, <2>4, <2>6, <3>2, <3>3, <3>4 DEF TransOwned
    <2>8. Transfers!EndsOnce BY <1>4, <2>6, TransKeeps
    <2> QED BY <2>5, <2>7, <2>8 DEF TransInv
  <1> QED BY <1>6, <1>7

\* A queue that grows by one item, or in which an item is marked that neither waits
\* nor uploads; the calls that upload are those of before, or a loop that starts.
LEMMA TransEdits ==
  ASSUME TransInv, DOMAIN ui' = DOMAIN ui, ui'.queue \in Seq(TransItems), ui'.last \in Nat,
         ui'.last >= ui.last, ui'.host = ui.host, ui'.cancelOne \in BOOLEAN, ui'.broken \in BOOLEAN,
         ui'.disturbed = ui.disturbed, back' \in Nat, calls' \subseteq TransCalls,
         \/ Transfers!Uploads' = Transfers!Uploads
         \/ Transfers!Uploads = {} /\ \E c : Transfers!Uploads' = {c} /\ c.op # "upload" /\ c.host = ui.host,
         ~ui.disturbed =>
            /\ Follows(ui'.queue, ui.queue, ui.last) /\ Numbered(ui'.queue, ui'.last)
            /\ \A i \in DOMAIN ui'.queue :
                  \/ i \in DOMAIN ui.queue /\ ui'.queue[i] = ui.queue[i]
                  \/ ui'.queue[i].status \in Transfers!Ended
                  \/ ~ui'.queue[i].up /\ ui'.queue[i].status # "pending"
                  \/ /\ ui'.queue[i].up /\ ui'.queue[i].status = "pending"
                     /\ ui'.queue[i].to = ui.host /\ Transfers!Uploads' # {}
            /\ \A i \in DOMAIN ui.queue :
                  ui.queue[i].up /\ ui.queue[i].status = "uploading" => ui'.queue[i] = ui.queue[i]
  PROVE  TransInv' /\ Transfers!EndsOnce
  <1> USE DEF TransInv
  <1>1. /\ \A c, d \in Transfers!Uploads' : c = d /\ Transfers!Uploads # {} => Transfers!Uploads' = Transfers!Uploads
        /\ ~ui.disturbed => \A c \in Transfers!Uploads' : c.host = ui.host
    BY DEF TransFields, TransOwned
  <1>2. TransFields' BY <1>1 DEF TransFields
  <1>3. Transfers!CallsOf({"upload"})' = Transfers!CallsOf({"upload"})
    <2>1. Transfers!CallsOf({"upload"}) = {c \in Transfers!Uploads : c.op = "upload"}
      BY DEF Transfers!Uploads, Transfers!CallsOf
    <2>2. Transfers!CallsOf({"upload"})' = {c \in Transfers!Uploads' : c.op = "upload"}
      BY DEF Transfers!Uploads, Transfers!CallsOf
    <2> QED BY Zenon, <2>1, <2>2
  <1>4. Transfers!EndsOnce BY TransKeeps
  <1>5. TransOwned'
    <2> SUFFICES ASSUME ~ui.disturbed PROVE TransOwned' BY DEF TransOwned, Transfers!WorkOwned
    <2>1. Transfers!WorkOwned'
      <3>1. ASSUME NEW i \in DOMAIN ui'.queue
            PROVE  /\ (ui'.queue[i].up /\ ui'.queue[i].status = "uploading") =>
                         \E c \in Transfers!CallsOf({"upload"}) :
                             c.at = i /\ c.name = ui'.queue[i].name /\ c.host = ui'.queue[i].to
                   /\ ui'.queue[i].status = "pending" => Transfers!Uploads' # {}
        <4>1. CASE i \in DOMAIN ui.queue /\ ui'.queue[i] = ui.queue[i]
          BY <1>1, <4>1 DEF TransOwned, Transfers!WorkOwned
        <4>2. CASE ~(i \in DOMAIN ui.queue /\ ui'.queue[i] = ui.queue[i])
          BY <4>2 DEF Transfers!Ended
        <4> QED BY <4>1, <4>2
      <3> QED BY <1>3, <3>1 DEF Transfers!WorkOwned
    <2>2. \A c \in Transfers!CallsOf({"upload"}) :
             c.at \in DOMAIN ui'.queue /\ ui'.queue[c.at].up /\ ui'.queue[c.at].status = "uploading"
      BY DEF TransOwned, Follows
    <2>3. \A i \in DOMAIN ui'.queue :
             ui'.queue[i].status = "pending" => ui'.queue[i].up /\ ui'.queue[i].to = ui.host
      BY DEF TransOwned, Transfers!Ended
    <2> QED BY <1>1, <1>3, <2>1, <2>2, <2>3 DEF TransOwned
  <1> QED BY <1>2, <1>4, <1>5

\* The queue and the calls that work at it are left alone.
LEMMA TransIdles ==
  ASSUME TransInv, DOMAIN ui' = DOMAIN ui, ui'.queue = ui.queue, ui'.last = ui.last,
         ui'.host = ui.host, ui'.cancelOne \in BOOLEAN, ui'.broken \in BOOLEAN,
         ui'.disturbed \in BOOLEAN, ui.disturbed => ui'.disturbed,
         back' \in Nat, calls' \subseteq TransCalls, Transfers!Uploads' = Transfers!Uploads
  PROVE  TransInv' /\ Transfers!EndsOnce
  <1> USE DEF TransInv
  <1>1. TransFields' BY DEF TransFields
  <1>2. Transfers!CallsOf({"upload"})' = Transfers!CallsOf({"upload"})
    <2>1. Transfers!CallsOf({"upload"}) = {c \in Transfers!Uploads : c.op = "upload"}
      BY DEF Transfers!Uploads, Transfers!CallsOf
    <2>2. Transfers!CallsOf({"upload"})' = {c \in Transfers!Uploads' : c.op = "upload"}
      BY DEF Transfers!Uploads, Transfers!CallsOf
    <2> QED BY <2>1, <2>2
  <1>3. TransOwned' BY <1>2 DEF TransOwned, Transfers!WorkOwned
  <1>4. Follows(ui.queue, ui.queue, ui.last) BY DEF Follows
  <1>5. Transfers!EndsOnce BY <1>4, TransKeeps
  <1> QED BY <1>1, <1>3, <1>5

\* An item is put behind the others.
LEMMA TransAppends ==
  ASSUME TransInv, NEW f \in TransItems, f.id = ui.last + 1, NEW p, p = Append(ui.queue, f)
  PROVE  /\ p \in Seq(TransItems) /\ Len(p) = Len(ui.queue) + 1 /\ p[Len(p)] = f
         /\ DOMAIN p = DOMAIN ui.queue \cup {Len(p)}
         /\ \A i \in DOMAIN ui.queue : p[i] = ui.queue[i]
         /\ ~ui.disturbed => Follows(p, ui.queue, ui.last) /\ Numbered(p, ui.last + 1)
  <1>1. ui.queue \in Seq(TransItems) /\ ui.last \in Nat BY DEF TransInv, TransFields
  <1>2. /\ p \in Seq(TransItems) /\ Len(p) = Len(ui.queue) + 1 /\ p[Len(p)] = f
        /\ \A i \in DOMAIN ui.queue : p[i] = ui.queue[i]
    BY <1>1
  <1>3. DOMAIN p = DOMAIN ui.queue \cup {Len(p)} BY <1>1, <1>2
  <1>4. ASSUME ~ui.disturbed PROVE Follows(p, ui.queue, ui.last) /\ Numbered(p, ui.last + 1)
    <2>1. Numbered(ui.queue, ui.last) BY <1>4 DEF TransInv, TransOwned
    <2>2. Follows(p, ui.queue, ui.last) BY <1>1, <1>2, <1>3 DEF Follows
    <2>3. \A i \in DOMAIN ui.queue : p[i].id \in 1 .. ui.last BY <1>2, <2>1 DEF Numbered
    <2>4. Numbered(p, ui.last + 1)
      <3> SUFFICES ASSUME NEW i \in DOMAIN p, NEW j \in DOMAIN p
                   PROVE  p[i].id \in 1 .. ui.last + 1 /\ (p[i].id = p[j].id => i = j)
        BY DEF Numbered
      <3>1. CASE i \in DOMAIN ui.queue /\ j \in DOMAIN ui.queue
        BY <1>1, <1>2, <2>1, <3>1 DEF Numbered
      <3>2. CASE i = Len(p) \/ j = Len(p)
        BY <1>1, <1>2, <1>3, <2>3, <3>2
      <3> QED BY <1>3, <3>1, <3>2
    <2> QED BY <2>2, <2>4
  <1> QED BY <1>2, <1>3, <1>4

\* A file is dropped.
LEMMA TransDrops ==
  ASSUME TransInv, NEW n \in Things, Transfers!HandleFileDrop(n) PROVE TransInv' /\ Transfers!EndsOnce
  <1> DEFINE f == Transfers!Item(ui.last + 1, n, TRUE, ui.host)
             p == Append(ui.queue, f)
             c == Transfers!Start(ui.host)
  <1>1. /\ f \in TransItems /\ f.id = ui.last + 1 /\ f.up /\ f.status = "pending" /\ f.to = ui.host
    BY DEF Transfers!Item, TransItems, Transfers!Ended, TransInv, TransFields
  <1>2. /\ p \in Seq(TransItems) /\ Len(p) = Len(ui.queue) + 1 /\ p[Len(p)] = f
        /\ DOMAIN p = DOMAIN ui.queue \cup {Len(p)}
        /\ \A i \in DOMAIN ui.queue : p[i] = ui.queue[i]
        /\ ~ui.disturbed => Follows(p, ui.queue, ui.last) /\ Numbered(p, ui.last + 1)
    BY Zenon, <1>1, TransAppends
  <1>3. c \in TransCalls /\ c.op = "start" /\ c.host = ui.host
    BY DEF Transfers!Start, TransCalls, TransInv, TransFields
  <1>4. /\ ui' = [ui EXCEPT !.queue = p, !.last = ui.last + 1] /\ back' = back
        /\ IF Transfers!Uploads # {} THEN calls' = calls ELSE calls' = calls \cup {c}
    BY DEF Transfers!HandleFileDrop, Transfers!Ask
  <1> HIDE DEF f, p, c
  <1>5. /\ DOMAIN ui' = DOMAIN ui /\ ui'.queue = p /\ ui'.last = ui.last + 1 /\ ui'.last \in Nat
        /\ ui'.last >= ui.last
        /\ ui'.host = ui.host /\ ui'.cancelOne \in BOOLEAN /\ ui'.broken \in BOOLEAN
        /\ ui'.disturbed = ui.disturbed
    BY <1>4 DEF TransInv, TransFields
  <1>6. Transfers!Uploads' # {} /\ (Transfers!Uploads' = Transfers!Uploads \/ (Transfers!Uploads = {} /\ Transfers!Uploads' = {c}))
    <2>1. CASE Transfers!Uploads # {}
      <3>1. calls' = calls BY <1>4, <2>1
      <3>2. Transfers!Uploads' = Transfers!Uploads
        BY <3>1 DEF Transfers!Uploads, Transfers!CallsOf
      <3> QED BY <2>1, <3>2
    <2>2. CASE Transfers!Uploads = {} BY <1>3, <1>4, <2>2 DEF Transfers!Uploads,
                                         Transfers!CallsOf
    <2> QED BY <2>1, <2>2
  <1>7. calls' \subseteq TransCalls /\ back' \in Nat BY <1>3, <1>4 DEF TransInv, TransFields
  <1>8. \/ Transfers!Uploads' = Transfers!Uploads
        \/ Transfers!Uploads = {} /\ \E d : Transfers!Uploads' = {d} /\ d.op # "upload" /\ d.host = ui.host
    BY <1>3, <1>6
  <1>9. \A i \in DOMAIN p : \/ i \in DOMAIN ui.queue /\ p[i] = ui.queue[i]
                            \/ p[i].up /\ p[i].status = "pending" /\ p[i].to = ui.host
    BY <1>1, <1>2
  <1> QED BY <1>2, <1>5, <1>6, <1>7, <1>8, <1>9, TransEdits

\* An item that does not upload is marked as ended.
LEMMA TransMarks ==
  ASSUME TransInv, NEW i \in Nat, NEW s \in Transfers!Ended,
         i # 0 => /\ i \in DOMAIN ui.queue
                  /\ \/ ~ui.queue[i].up
                     \/ ui.queue[i].status = "pending",
         ui' = [ui EXCEPT !.queue = Transfers!WithStatus(@, i, s)],
         back' = back, calls' \subseteq calls, Transfers!Uploads' = Transfers!Uploads
  PROVE  TransInv' /\ Transfers!EndsOnce
  <1> DEFINE p == Transfers!WithStatus(ui.queue, i, s)
  <1>1. ui.queue \in Seq(TransItems) BY DEF TransInv, TransFields
  <1>2. /\ p \in Seq(TransItems) /\ DOMAIN p = DOMAIN ui.queue
        /\ i # 0 => /\ p[i].id = ui.queue[i].id /\ p[i].up = ui.queue[i].up /\ p[i].status = s
        /\ \A j \in DOMAIN ui.queue : j # i => p[j] = ui.queue[j]
    <2>1. CASE i = 0 BY <1>1, <2>1 DEF Transfers!WithStatus
    <2>2. CASE i # 0 BY <1>1, <2>2, TransSets
    <2> QED BY <2>1, <2>2
  <1>3. ui' = [ui EXCEPT !.queue = p] OBVIOUS
  <1> HIDE DEF p
  <1>4. /\ DOMAIN ui' = DOMAIN ui /\ ui'.queue = p /\ ui'.last = ui.last /\ ui'.last \in Nat
        /\ ui'.last >= ui.last
        /\ ui'.host = ui.host /\ ui'.cancelOne \in BOOLEAN /\ ui'.broken \in BOOLEAN
        /\ ui'.disturbed = ui.disturbed
    BY <1>3 DEF TransInv, TransFields
  <1>5. calls' \subseteq TransCalls /\ back' \in Nat BY DEF TransInv, TransFields
  <1>6. Follows(p, ui.queue, ui.last)
    <2>1. i # 0 => ~(ui.queue[i].up /\ ui.queue[i].status \in Transfers!Ended)
      BY DEF Transfers!Ended
    <2> QED BY <1>2, <2>1 DEF Follows
  <1>7. ~ui.disturbed => Numbered(p, ui.last)
    <2>1. \A j \in DOMAIN p : j \in DOMAIN ui.queue /\ p[j].id = ui.queue[j].id BY <1>2
    <2>2. ~ui.disturbed => Numbered(ui.queue, ui.last) BY DEF TransInv, TransOwned
    <2> QED BY <2>1, <2>2 DEF Numbered
  <1>8. \A j \in DOMAIN p : \/ j \in DOMAIN ui.queue /\ p[j] = ui.queue[j]
                            \/ p[j].status \in Transfers!Ended
    BY <1>2
  <1>9. \A j \in DOMAIN ui.queue :
           ui.queue[j].up /\ ui.queue[j].status = "uploading" => p[j] = ui.queue[j]
    BY <1>2
  <1>10. ~ui.disturbed => Numbered(ui'.queue, ui'.last) BY <1>4, <1>7
  <1>11. Follows(ui'.queue, ui.queue, ui.last) BY <1>4, <1>6
  <1>12. \A j \in DOMAIN ui'.queue : \/ j \in DOMAIN ui.queue /\ ui'.queue[j] = ui.queue[j]
                                     \/ ui'.queue[j].status \in Transfers!Ended
    BY <1>4, <1>8
  <1>13. \A j \in DOMAIN ui.queue :
            ui.queue[j].up /\ ui.queue[j].status = "uploading" => ui'.queue[j] = ui.queue[j]
    BY <1>4, <1>9
  <1>14. ui'.queue \in Seq(TransItems) BY <1>2, <1>4
  <1> QED BY <1>4, <1>5, <1>10, <1>11, <1>12, <1>13, <1>14, TransEdits

\* A download is asked for, shows itself, or ends.
LEMMA TransDownloads ==
  ASSUME TransInv,
         \/ \E n \in Things : Transfers!HandleDownload(n)
         \/ \E c \in calls : Transfers!HandleDownloadProgress(c) \/ Transfers!DownloadEnds(c)
  PROVE  TransInv' /\ Transfers!EndsOnce
  <1>0. \A n : LET i == Transfers!DownloadOf(n)
               IN  i \in Nat /\ (i # 0 => i \in DOMAIN ui.queue /\ ~ui.queue[i].up)
    <2> SUFFICES ASSUME NEW n
                 PROVE  LET i == Transfers!DownloadOf(n)
                        IN  i \in Nat /\ (i # 0 => i \in DOMAIN ui.queue /\ ~ui.queue[i].up)
      OBVIOUS
    <2> DEFINE at == {i \in DOMAIN ui.queue : ~ui.queue[i].up /\ ui.queue[i].name = n}
    <2>1. at \in SUBSET (Nat \ {0}) BY DEF TransInv, TransFields
    <2>2. Transfers!DownloadOf(n) = Transfers!FirstOf(at) BY DEF Transfers!DownloadOf
    <2> HIDE DEF at
    <2>3. Transfers!FirstOf(at) \in Nat /\ (Transfers!FirstOf(at) # 0 => Transfers!FirstOf(at) \in at)
      BY <2>1, TransFirst
    <2> QED BY <2>2, <2>3 DEF at
  <1>1. ASSUME NEW n \in Things, Transfers!HandleDownload(n) PROVE TransInv' /\ Transfers!EndsOnce
    <2> DEFINE c == [op |-> "download", at |-> 0, name |-> n, host |-> ui.host]
    <2>1. c \in TransCalls /\ c.op = "download" BY DEF TransCalls, TransInv, TransFields
    <2>2. calls' = calls \cup {c} /\ ui' = ui /\ back' = back
      BY <1>1 DEF Transfers!HandleDownload, Transfers!Ask
    <2> HIDE DEF c
    <2>3. Transfers!Uploads' = Transfers!Uploads
      BY <2>1, <2>2 DEF Transfers!Uploads, Transfers!CallsOf
    <2>4. calls' \subseteq TransCalls BY <2>1, <2>2 DEF TransInv, TransFields
    <2>5. ui'.cancelOne \in BOOLEAN /\ ui'.broken \in BOOLEAN /\ ui'.disturbed \in BOOLEAN /\ back' \in Nat
      BY <2>2 DEF TransInv, TransFields
    <2> QED BY <2>2, <2>3, <2>4, <2>5, TransIdles
  <1>2. ASSUME NEW c \in calls, Transfers!HandleDownloadProgress(c) PROVE TransInv' /\ Transfers!EndsOnce
    <2>1. calls' = calls /\ back' = back /\ c.name \in Things \cup {Nothing}
      BY Zenon, <1>2 DEF Transfers!HandleDownloadProgress, TransInv, TransFields, TransCalls
    <2>2. Transfers!Uploads' = Transfers!Uploads
      BY <2>1 DEF Transfers!Uploads, Transfers!CallsOf
    <2>3. CASE Transfers!DownloadOf(c.name) # 0
      <3>1. ui' = [ui EXCEPT !.queue = Transfers!WithStatus(@, Transfers!DownloadOf(c.name), "done")]
        BY Zenon, <1>2, <2>3 DEF Transfers!HandleDownloadProgress
      <3> QED BY Zenon, <1>0, <2>1, <2>2, <3>1, TransMarks DEF Transfers!Ended
    <2>4. CASE Transfers!DownloadOf(c.name) = 0
      <3> DEFINE f == Transfers!Item(ui.last + 1, c.name, FALSE, ui.host)
                 p == Append(ui.queue, f)
      <3>1. f \in TransItems /\ f.id = ui.last + 1 /\ ~f.up /\ f.status = "uploading"
        BY <2>1 DEF Transfers!Item, TransItems, Transfers!Ended, TransInv, TransFields
      <3>2. /\ p \in Seq(TransItems) /\ Len(p) = Len(ui.queue) + 1 /\ p[Len(p)] = f
            /\ DOMAIN p = DOMAIN ui.queue \cup {Len(p)}
            /\ \A i \in DOMAIN ui.queue : p[i] = ui.queue[i]
            /\ ~ui.disturbed => Follows(p, ui.queue, ui.last) /\ Numbered(p, ui.last + 1)
        BY Zenon, <3>1, TransAppends
      <3>3. ui' = [ui EXCEPT !.queue = p, !.last = ui.last + 1]
        BY Zenon, <1>2, <2>4 DEF Transfers!HandleDownloadProgress
      <3> HIDE DEF f, p
      <3>4. /\ DOMAIN ui' = DOMAIN ui /\ ui'.queue = p /\ ui'.last = ui.last + 1 /\ ui'.last \in Nat
            /\ ui'.last >= ui.last
            /\ ui'.host = ui.host /\ ui'.cancelOne \in BOOLEAN /\ ui'.broken \in BOOLEAN
            /\ ui'.disturbed = ui.disturbed
        BY <3>3 DEF TransInv, TransFields
      <3>5. calls' \subseteq TransCalls /\ back' \in Nat BY <2>1 DEF TransInv, TransFields
      <3>6. \A i \in DOMAIN p : \/ i \in DOMAIN ui.queue /\ p[i] = ui.queue[i]
                                \/ ~p[i].up /\ p[i].status # "pending"
        BY <3>1, <3>2
      <3> QED BY <2>2, <3>2, <3>4, <3>5, <3>6, TransEdits
    <2> QED BY <2>3, <2>4
  <1>3. ASSUME NEW c \in calls, Transfers!DownloadEnds(c) PROVE TransInv' /\ Transfers!EndsOnce
    <2>1. calls' = calls \ {c} /\ c.op = "download" /\ back' = back
      BY <1>3 DEF Transfers!DownloadEnds, Transfers!Answered, Transfers!Downloads,
         Transfers!CallsOf
    <2>2. Transfers!Uploads' = Transfers!Uploads
      BY <2>1 DEF Transfers!Uploads, Transfers!CallsOf
    <2>3. PICK s \in Transfers!Ended : ui' = [ui EXCEPT !.queue = Transfers!WithStatus(@, Transfers!DownloadOf(c.name), s)]
      BY <1>3 DEF Transfers!DownloadEnds
    <2> QED BY <1>0, <2>1, <2>2, <2>3, TransMarks
  <1> QED BY <1>1, <1>2, <1>3

\* The cross of an item.
LEMMA TransCancels ==
  ASSUME TransInv, NEW i \in 1 .. Bound, Transfers!HandleCancelFile(i) PROVE TransInv' /\ Transfers!EndsOnce
  <1>1. /\ i \in DOMAIN ui.queue /\ ui.queue[i].status \notin Transfers!Ended /\ back' = back
        /\ ui.queue[i] \in TransItems
    BY DEF Transfers!HandleCancelFile, TransInv, TransFields
  <1>2. CASE ui.queue[i].up /\ ui.queue[i].status = "uploading"
    <2> DEFINE c == [op |-> "cancel", at |-> ui.queue[i].id, name |-> Nothing, host |-> ui.host]
    <2>1. c \in TransCalls /\ c.op = "cancel"
      BY <1>1 DEF TransCalls, TransItems, TransInv, TransFields
    <2>2. calls' = calls \cup {c} /\ ui' = [ui EXCEPT !.cancelOne = TRUE]
      BY <1>2 DEF Transfers!HandleCancelFile, Transfers!Ask
    <2> HIDE DEF c
    <2>3. /\ DOMAIN ui' = DOMAIN ui /\ ui'.queue = ui.queue /\ ui'.last = ui.last
          /\ ui'.host = ui.host /\ ui'.cancelOne \in BOOLEAN /\ ui'.broken \in BOOLEAN
          /\ ui'.disturbed = ui.disturbed /\ ui'.disturbed \in BOOLEAN
      BY <2>2 DEF TransInv, TransFields
    <2>4. Transfers!Uploads' = Transfers!Uploads
      BY <2>1, <2>2 DEF Transfers!Uploads, Transfers!CallsOf
    <2>5. calls' \subseteq TransCalls /\ back' \in Nat
      BY <1>1, <2>1, <2>2 DEF TransInv, TransFields
    <2> QED BY <2>3, <2>4, <2>5, TransIdles
  <1>3. CASE ~(ui.queue[i].up /\ ui.queue[i].status = "uploading")
    <2>1. ui' = [ui EXCEPT !.queue = Transfers!WithStatus(@, i, "cancelled")] /\ calls' = calls
      BY <1>3 DEF Transfers!HandleCancelFile
    <2>2. Transfers!Uploads' = Transfers!Uploads
      BY <2>1 DEF Transfers!Uploads, Transfers!CallsOf
    <2>3. ~ui.queue[i].up \/ ui.queue[i].status = "pending" BY <1>1, <1>3 DEF TransItems
    <2>4. "cancelled" \in Transfers!Ended BY DEF Transfers!Ended
    <2>5. i \in Nat /\ i # 0 BY TransConstants
    <2> QED BY <1>1, <2>1, <2>2, <2>3, <2>4, <2>5, TransMarks
  <1> QED BY <1>2, <1>3

\* The call to cancel arrives in Go.
LEMMA TransArrives ==
  ASSUME TransInv, NEW c \in calls, Transfers!CancelArrives(c) PROVE TransInv' /\ Transfers!EndsOnce
  <1> DEFINE now == {ui.queue[u.at].id : u \in {k \in Transfers!CallsOf({"upload"}) : k.at <= Len(ui.queue)}}
  <1>1. c.op = "cancel" /\ calls' = calls \ {c} /\ back' = (IF now = {} THEN 0 ELSE CHOOSE i \in now : TRUE)
        /\ ui' = [ui EXCEPT !.disturbed = @ \/ now # {c.at}]
    BY DEF Transfers!CancelArrives, Transfers!Answered
  <1>2. now \subseteq Nat
    <2> SUFFICES ASSUME NEW u \in Transfers!CallsOf({"upload"}), u.at <= Len(ui.queue)
                 PROVE  ui.queue[u.at].id \in Nat
      OBVIOUS
    <2>1. u.at \in Nat \ {0} BY DEF Transfers!CallsOf, TransInv, TransFields, TransCalls
    <2>2. ui.queue[u.at] \in TransItems BY <2>1 DEF TransInv, TransFields
    <2> QED BY <2>2 DEF TransItems
  <1> HIDE DEF now
  <1>3. back' \in Nat BY <1>1, <1>2
  <1>4. Transfers!Uploads' = Transfers!Uploads BY <1>1 DEF Transfers!Uploads, Transfers!CallsOf
  <1>5. /\ DOMAIN ui' = DOMAIN ui /\ ui'.queue = ui.queue /\ ui'.last = ui.last
        /\ ui'.host = ui.host /\ ui'.cancelOne \in BOOLEAN /\ ui'.broken \in BOOLEAN
        /\ ui'.disturbed \in BOOLEAN /\ (ui.disturbed => ui'.disturbed)
    BY <1>1 DEF TransInv, TransFields
  <1>6. calls' \subseteq TransCalls BY <1>1 DEF TransInv, TransFields
  <1> QED BY <1>3, <1>4, <1>5, <1>6, TransIdles

\* An item is taken out, after which no upload is followed by its place.
LEMMA TransRemoves ==
  ASSUME TransInv, NEW i \in 1 .. Bound, Transfers!HandleRemoveFile(i) PROVE TransInv' /\ Transfers!EndsOnce
  <1> DEFINE q == ui.queue
             p == SubSeq(q, 1, i - 1) \o SubSeq(q, i + 1, Len(q))
             n == Len(q)
  <1>1. /\ i \in DOMAIN q /\ q[i].status \in Transfers!Ended /\ back' = back /\ calls' = calls
        /\ ui' = [ui EXCEPT !.queue = p, !.disturbed = @ \/ Transfers!CallsOf({"upload"}) # {}]
    BY DEF Transfers!HandleRemoveFile
  <1>2. q \in Seq(TransItems) /\ n \in Nat /\ i \in 1 .. n BY <1>1 DEF TransInv, TransFields
  <1> HIDE DEF q
  <1>3. /\ p \in Seq(TransItems) /\ Len(p) = n - 1
        /\ \A j \in 1 .. n - 1 : p[j] = q[IF j < i THEN j ELSE j + 1]
    <2> DEFINE a == SubSeq(q, 1, i - 1)
               b == SubSeq(q, i + 1, n)
    <2>1. /\ a \in Seq(TransItems) /\ Len(a) = i - 1 /\ \A j \in 1 .. i - 1 : a[j] = q[j]
      <3>1. \A j \in 1 .. i - 1 : q[j] \in TransItems BY <1>2
      <3>2. i - 1 \in Int /\ 1 \in Int BY <1>2
      <3> HIDE DEF a
      <3>3. /\ a \in Seq(TransItems) /\ Len(a) = (IF 1 <= i - 1 THEN i - 1 - 1 + 1 ELSE 0)
            /\ \A j \in 1 .. i - 1 - 1 + 1 : a[j] = q[1 + j - 1]
        BY <3>1, <3>2, SubSeqProperties DEF a
      <3>4. /\ i - 1 - 1 + 1 = i - 1 /\ \A j \in 1 .. i - 1 : 1 + j - 1 = j
            /\ ~(1 <= i - 1) => i - 1 = 0
        BY <1>2
      <3>5. Len(a) = i - 1
        <4>1. CASE 1 <= i - 1 BY <3>3, <3>4, <4>1
        <4>2. CASE ~(1 <= i - 1) BY <3>3, <3>4, <4>2
        <4> QED BY <4>1, <4>2
      <3> QED BY <3>3, <3>4, <3>5
    <2>2. /\ b \in Seq(TransItems) /\ Len(b) = n - i /\ \A j \in 1 .. n - i : b[j] = q[i + j]
      <3>1. \A j \in i + 1 .. n : q[j] \in TransItems BY <1>2
      <3>2. i + 1 \in Int /\ n \in Int BY <1>2
      <3> HIDE DEF b
      <3>3. /\ b \in Seq(TransItems) /\ Len(b) = (IF i + 1 <= n THEN n - (i + 1) + 1 ELSE 0)
            /\ \A j \in 1 .. n - (i + 1) + 1 : b[j] = q[i + 1 + j - 1]
        BY <3>1, <3>2, SubSeqProperties DEF b
      <3>4. /\ n - (i + 1) + 1 = n - i /\ (i + 1 <= n <=> n - i > 0) /\ n - i \in Nat
            /\ \A j \in 1 .. n - i : i + 1 + j - 1 = i + j
        BY <1>2
      <3>5. Len(b) = n - i
        <4>1. CASE i + 1 <= n BY <3>3, <3>4, <4>1
        <4>2. CASE ~(i + 1 <= n)
          <5>1. n - i = 0 BY <1>2, <4>2
          <5> QED BY <3>3, <4>2, <5>1
        <4> QED BY <4>1, <4>2
      <3> QED BY <3>3, <3>4, <3>5
    <2>3. p = a \o b OBVIOUS
    <2> HIDE DEF a, b
    <2>4. /\ a \o b \in Seq(TransItems) /\ Len(a \o b) = Len(a) + Len(b)
          /\ \A j \in 1 .. Len(a) + Len(b) : (a \o b)[j] = IF j <= Len(a) THEN a[j] ELSE b[j - Len(a)]
      BY Zenon, <2>1, <2>2, ConcatProperties
    <2> HIDE DEF p
    <2>5. Len(p) = n - 1 /\ Len(a) + Len(b) = n - 1 BY <1>2, <2>1, <2>2, <2>3, <2>4
    <2>6. ASSUME NEW j \in 1 .. n - 1 PROVE p[j] = q[IF j < i THEN j ELSE j + 1]
      <3>1. p[j] = IF j <= i - 1 THEN a[j] ELSE b[j - (i - 1)] BY Zenon, <2>1, <2>3, <2>4, <2>5
      <3>2. CASE j < i BY <1>2, <2>1, <3>1, <3>2
      <3>3. CASE ~(j < i)
        <4>1. j - (i - 1) \in 1 .. n - i /\ i + (j - (i - 1)) = j + 1 BY <1>2, <3>3
        <4> QED BY <1>2, <2>2, <3>1, <3>3, <4>1
      <3> QED BY <3>2, <3>3
    <2> QED BY <2>3, <2>4, <2>5, <2>6
  <1> HIDE DEF p
  <1>4. /\ DOMAIN ui' = DOMAIN ui /\ ui'.queue = p /\ ui'.last = ui.last /\ ui'.host = ui.host
        /\ ui'.cancelOne = ui.cancelOne /\ ui'.broken = ui.broken /\ ui'.disturbed \in BOOLEAN
        /\ ~ui'.disturbed => ~ui.disturbed /\ Transfers!CallsOf({"upload"}) = {}
    BY Zenon, <1>1 DEF TransInv, TransFields
  <1>5. Transfers!Uploads' = Transfers!Uploads /\ Transfers!CallsOf({"upload"})' = Transfers!CallsOf({"upload"})
    BY <1>1 DEF Transfers!Uploads, Transfers!CallsOf
  <1>6. TransFields' BY <1>1, <1>3, <1>4, <1>5 DEF TransInv, TransFields
  <1> DEFINE k(j) == IF j < i THEN j ELSE j + 1
  <1>7. /\ DOMAIN p = 1 .. n - 1 /\ DOMAIN q = 1 .. n
        /\ \A j \in DOMAIN p : k(j) \in DOMAIN q /\ p[j] = q[k(j)]
        /\ \A j, l \in DOMAIN p : k(j) = k(l) => j = l
    BY <1>2, <1>3
  <1> HIDE DEF k
  <1>8. ASSUME ~ui'.disturbed
        PROVE  /\ Numbered(q, ui.last) /\ Numbered(p, ui.last)
               /\ \A j \in DOMAIN q : /\ q[j].status = "pending" => q[j].up /\ q[j].to = ui.host
                                      /\ q[j].status = "pending" => Transfers!Uploads # {}
                                      /\ q[j].up => q[j].status # "uploading"
    <2>1. Numbered(q, ui.last) BY <1>4, <1>8 DEF TransInv, TransOwned, q
    <2>2. Numbered(p, ui.last) BY <1>7, <2>1 DEF Numbered
    <2> QED BY <1>4, <1>8, <2>1, <2>2 DEF TransInv, TransOwned, Transfers!WorkOwned, q
  <1>9. TransOwned'
    <2> SUFFICES ASSUME ~ui'.disturbed PROVE TransOwned' BY DEF TransOwned, Transfers!WorkOwned
    <2>1. Transfers!WorkOwned' BY <1>4, <1>5, <1>7, <1>8 DEF Transfers!WorkOwned
    <2>2. \A c \in Transfers!Uploads : c.host = ui.host BY <1>4 DEF TransInv, TransOwned
    <2>3. \A j \in DOMAIN p : p[j].status = "pending" => p[j].up /\ p[j].to = ui.host
      BY <1>7, <1>8
    <2> QED BY <1>4, <1>5, <1>8, <2>1, <2>2, <2>3 DEF TransOwned
  <1>10. Transfers!EndsOnce
    <2> SUFFICES ASSUME ~ui'.disturbed, NEW j \in DOMAIN q, NEW l \in DOMAIN p, q[j].id = p[l].id
                 PROVE  p[l] = q[j]
      BY <1>4 DEF Transfers!EndsOnce, q
    <2>1. k(l) \in DOMAIN q /\ p[l] = q[k(l)] BY <1>7
    <2>2. k(l) = j BY <1>8, <2>1 DEF Numbered
    <2> QED BY <2>1, <2>2
  <1> QED BY <1>6, <1>9, <1>10 DEF TransInv

\* The queue is emptied, of items that all ended.
LEMMA TransClears == ASSUME TransInv, Transfers!HandleClearUploadList PROVE TransInv' /\ Transfers!EndsOnce
  <1>1. /\ DOMAIN ui' = DOMAIN ui /\ ui'.queue = <<>> /\ ui'.last = ui.last /\ ui'.host = ui.host
        /\ ui'.cancelOne = ui.cancelOne /\ ui'.broken = ui.broken /\ ui'.disturbed = ui.disturbed
        /\ calls' = calls /\ back' = back
        /\ \A i \in DOMAIN ui.queue : ui.queue[i].status \in Transfers!Ended
    BY DEF Transfers!HandleClearUploadList, TransInv, TransFields
  <1>2. Transfers!Uploads' = Transfers!Uploads /\ Transfers!CallsOf({"upload"})' = Transfers!CallsOf({"upload"})
    BY <1>1 DEF Transfers!Uploads, Transfers!CallsOf
  <1>3. DOMAIN <<>> = {} OBVIOUS
  <1>4. <<>> \in Seq(TransItems) OBVIOUS
  <1>5. TransFields' BY <1>1, <1>2, <1>4 DEF TransInv, TransFields
  <1>6. TransOwned'
    <2> SUFFICES ASSUME ~ui.disturbed PROVE TransOwned'
      BY <1>1 DEF TransOwned, Transfers!WorkOwned
    <2>1. Transfers!CallsOf({"upload"}) = {} BY <1>1 DEF TransInv, TransOwned, Transfers!Ended
    <2>2. \A c \in Transfers!Uploads : c.host = ui.host BY DEF TransInv, TransOwned
    <2>3. Transfers!WorkOwned' BY <1>1, <1>3 DEF Transfers!WorkOwned
    <2> QED BY <1>1, <1>2, <1>3, <2>1, <2>2, <2>3 DEF TransOwned, Numbered
  <1>7. Transfers!EndsOnce BY <1>1, <1>3 DEF Transfers!EndsOnce
  <1> QED BY <1>5, <1>6, <1>7 DEF TransInv

\* Another session comes on, between two loops or nothing is claimed any more.
LEMMA TransChanges ==
  ASSUME TransInv, NEW h \in Things, Transfers!SessionChanges(h) PROVE TransInv' /\ Transfers!EndsOnce
  <1>1. /\ DOMAIN ui' = DOMAIN ui /\ ui'.queue = ui.queue /\ ui'.last = ui.last /\ ui'.host = h
        /\ ui'.cancelOne = ui.cancelOne /\ ui'.broken = ui.broken /\ ui'.disturbed \in BOOLEAN
        /\ ~ui'.disturbed => ~ui.disturbed /\ Transfers!Uploads = {}
        /\ calls' = calls /\ back' = back
    BY Zenon DEF Transfers!SessionChanges, TransInv, TransFields
  <1>2. Transfers!Uploads' = Transfers!Uploads /\ Transfers!CallsOf({"upload"})' = Transfers!CallsOf({"upload"})
    BY <1>1 DEF Transfers!Uploads, Transfers!CallsOf
  <1>3. TransFields' BY <1>1, <1>2 DEF TransInv, TransFields
  <1>4. TransOwned'
    <2> SUFFICES ASSUME ~ui'.disturbed PROVE TransOwned' BY DEF TransOwned, Transfers!WorkOwned
    <2>1. Transfers!Uploads = {} /\ Transfers!CallsOf({"upload"}) = {}
      BY <1>1 DEF Transfers!Uploads, Transfers!CallsOf
    <2>2. Transfers!WorkOwned /\ ~ui.disturbed /\ Numbered(ui.queue, ui.last)
      BY <1>1 DEF TransInv, TransOwned
    <2>3. \A i \in DOMAIN ui.queue : ui.queue[i].status # "pending"
      BY <2>1, <2>2 DEF Transfers!WorkOwned
    <2>4. Transfers!WorkOwned' BY <1>1, <1>2, <2>2 DEF Transfers!WorkOwned
    <2> QED BY <1>1, <1>2, <2>1, <2>2, <2>3, <2>4 DEF TransOwned
  <1>5. Follows(ui.queue, ui.queue, ui.last) BY DEF Follows
  <1>6. Transfers!EndsOnce BY <1>1, <1>5, TransKeeps
  <1> QED BY <1>3, <1>4, <1>6 DEF TransInv

\* The loop starts, on a queue in which nothing uploads.
LEMMA TransStarts ==
  ASSUME TransInv, NEW c \in Transfers!Uploads, Transfers!UploadStarts(c) PROVE TransInv' /\ Transfers!EndsOnce
  <1>1. c.op = "start" /\ Transfers!Proceed(c, ui.queue, ui) /\ back' = back
    BY DEF Transfers!UploadStarts
  <1>2. Transfers!CallsOf({"upload"}) = {}
    <2>1. \A d \in Transfers!CallsOf({"upload"}) : d \in Transfers!Uploads /\ d.op = "upload"
      BY DEF Transfers!Uploads, Transfers!CallsOf
    <2> QED BY <1>1, <2>1 DEF TransInv, TransFields
  <1>3. ~ui.disturbed => /\ Idle(ui.queue) /\ Numbered(ui.queue, ui.last)
                         /\ Follows(ui.queue, ui.queue, ui.last)
    BY <1>2 DEF TransInv, TransOwned, Transfers!WorkOwned, Idle, Follows
  <1>4. /\ ui.queue \in Seq(TransItems) /\ back' \in Nat /\ ui.cancelOne \in BOOLEAN
        /\ ui.broken \in BOOLEAN
    BY <1>1 DEF TransInv, TransFields
  <1> QED BY <1>1, <1>3, <1>4, TransProceeds

\* The outcome of an upload is written where its item was.
LEMMA TransWrites ==
  ASSUME TransInv, NEW c \in Transfers!Uploads, c.op = "upload", NEW s \in Transfers!Ended
  PROVE  LET q == Transfers!Write(ui.queue, c.at, s)
         IN  /\ q \in Seq(TransItems)
             /\ ~ui.disturbed => Idle(q) /\ Numbered(q, ui.last) /\ Follows(q, ui.queue, ui.last)
  <1> DEFINE q == Transfers!Write(ui.queue, c.at, s)
  <1>1. c.at \in Nat \ {0} /\ c \in Transfers!CallsOf({"upload"}) /\ \A d \in Transfers!CallsOf({"upload"}) : d = c
    BY DEF TransInv, TransFields, TransCalls, Transfers!Uploads, Transfers!CallsOf
  <1>2. ui.queue \in Seq(TransItems) /\ ui.host \in Things BY DEF TransInv, TransFields
  <1>3. CASE c.at > Len(ui.queue)
    <2> DEFINE f == [Transfers!Item(0, Nothing, TRUE, ui.host) EXCEPT !.status = s]
    <2>1. f \in TransItems BY Zenon, <1>2 DEF Transfers!Item, TransItems
    <2>2. q = Append(ui.queue, f) BY <1>1, <1>2, <1>3 DEF Transfers!Write
    <2> HIDE DEF f, q
    <2>3. q \in Seq(TransItems) BY <1>2, <2>1, <2>2
    <2>4. ui.disturbed BY <1>1, <1>2, <1>3 DEF TransInv, TransFields, TransOwned
    <2> QED BY <2>3, <2>4 DEF q
  <1>4. CASE ~(c.at > Len(ui.queue))
    <2>1. c.at \in DOMAIN ui.queue BY <1>1, <1>2, <1>4
    <2>2. q = Transfers!WithStatus(ui.queue, c.at, s) BY <1>1, <1>2, <1>4 DEF Transfers!Write
    <2> HIDE DEF q
    <2>3. /\ q \in Seq(TransItems) /\ DOMAIN q = DOMAIN ui.queue
          /\ q[c.at].id = ui.queue[c.at].id /\ q[c.at].up = ui.queue[c.at].up /\ q[c.at].status = s
          /\ \A j \in DOMAIN ui.queue : j # c.at => q[j] = ui.queue[j]
      BY <1>2, <2>1, <2>2, TransSets
    <2>4. ASSUME ~ui.disturbed
          PROVE  Idle(q) /\ Numbered(q, ui.last) /\ Follows(q, ui.queue, ui.last)
      <3>1. ui.queue[c.at].status = "uploading" BY <1>1, <2>4 DEF TransInv, TransOwned
      <3>2. \A j \in DOMAIN ui.queue : ui.queue[j].up /\ ui.queue[j].status = "uploading" => j = c.at
        BY <1>1, <2>4 DEF TransInv, TransOwned, Transfers!WorkOwned
      <3>3. Idle(q)
        <4>1. s # "uploading" /\ s # "pending" BY DEF Transfers!Ended
        <4>2. \A j \in DOMAIN ui.queue :
                 ui.queue[j].status = "pending" => ui.queue[j].up /\ ui.queue[j].to = ui.host
          BY <2>4 DEF TransInv, TransOwned
        <4> QED BY <2>3, <3>2, <4>1, <4>2 DEF Idle
      <3>4. Follows(q, ui.queue, ui.last) BY <2>3, <3>1 DEF Follows, Transfers!Ended
      <3>5. \A j \in DOMAIN q : j \in DOMAIN ui.queue /\ q[j].id = ui.queue[j].id BY <2>3
      <3>6. Numbered(ui.queue, ui.last) BY <2>4 DEF TransInv, TransOwned
      <3> QED BY <3>3, <3>4, <3>5, <3>6 DEF Numbered
    <2> QED BY <2>3, <2>4 DEF q
  <1> QED BY <1>3, <1>4

\* After a cancel that has hit nothing uploads, and what waits does so as before.
LEMMA TransHits ==
  ASSUME TransInv, NEW c \in Transfers!Uploads, DOMAIN ui' = DOMAIN ui, ui'.queue \in Seq(TransItems),
         ui'.last = ui.last, ui'.host = ui.host, ui'.disturbed = ui.disturbed,
         ui'.cancelOne \in BOOLEAN, ui'.broken \in BOOLEAN, back' \in Nat,
         ~ui.disturbed => /\ Idle(ui'.queue) /\ Numbered(ui'.queue, ui.last)
                          /\ Follows(ui'.queue, ui.queue, ui.last),
         \/ calls' = (calls \ {c}) \cup {Transfers!Start(c.host)}
         \/ /\ calls' = calls \ {c}
            /\ ~ui.disturbed => \A i \in DOMAIN ui'.queue : ui'.queue[i].status # "pending"
  PROVE  TransInv' /\ Transfers!EndsOnce
  <1> DEFINE d == Transfers!Start(c.host)
  <1>1. c \in TransCalls /\ c.host \in Things /\ \A e \in Transfers!Uploads : e = c
    BY DEF TransInv, TransFields, TransCalls, Transfers!Uploads, Transfers!CallsOf
  <1>2. d \in TransCalls /\ d.op = "start" /\ d.host = c.host
    BY <1>1 DEF Transfers!Start, TransCalls
  <1> HIDE DEF d
  <1>3. Transfers!EndsOnce BY TransKeeps
  <1>4. CASE calls' = (calls \ {c}) \cup {d}
    <2>1. Transfers!Uploads' = {d} /\ Transfers!CallsOf({"upload"})' = {}
      BY <1>1, <1>2, <1>4 DEF Transfers!Uploads, Transfers!CallsOf
    <2>2. TransFields' BY <1>2, <1>4, <2>1 DEF TransInv, TransFields
    <2>3. TransOwned'
      <3> SUFFICES ASSUME ~ui.disturbed PROVE TransOwned' BY DEF TransOwned, Transfers!WorkOwned
      <3>1. Transfers!WorkOwned' BY <2>1 DEF Transfers!WorkOwned, Idle
      <3>2. c.host = ui.host BY DEF TransInv, TransOwned
      <3> QED BY <1>2, <2>1, <3>1, <3>2 DEF TransOwned, Idle
    <2> QED BY <1>3, <2>2, <2>3 DEF TransInv
  <1>5. CASE /\ calls' = calls \ {c}
             /\ ~ui.disturbed => \A i \in DOMAIN ui'.queue : ui'.queue[i].status # "pending"
    <2>1. Transfers!Uploads' = {} /\ Transfers!CallsOf({"upload"})' = {}
      BY <1>1, <1>5 DEF Transfers!Uploads, Transfers!CallsOf
    <2>2. TransFields' BY <1>5, <2>1 DEF TransInv, TransFields
    <2>3. TransOwned'
      <3> SUFFICES ASSUME ~ui.disturbed PROVE TransOwned' BY DEF TransOwned, Transfers!WorkOwned
      <3>1. Transfers!WorkOwned' BY <1>5, <2>1 DEF Transfers!WorkOwned, Idle
      <3> QED BY <2>1, <3>1 DEF TransOwned, Idle
    <2> QED BY <1>3, <2>2, <2>3 DEF TransInv
  <1> QED BY <1>4, <1>5 DEF d

\* An upload ends: the loop goes on, starts anew after a single cancel, or gives up.
LEMMA TransEnds ==
  ASSUME TransInv, NEW c \in Transfers!Uploads, Transfers!UploadEnds(c) PROVE TransInv' /\ Transfers!EndsOnce
  <1> DEFINE u == [ui EXCEPT !.broken = c.at > Len(ui.queue) + 1]
             hit == c.at <= Len(ui.queue) /\ ui.queue[c.at].id = back
  <1>1. c.op = "upload" /\ back' = 0 /\ back' \in Nat BY DEF Transfers!UploadEnds
  <1>2. /\ DOMAIN u = DOMAIN ui /\ u.queue = ui.queue /\ u.last = ui.last /\ u.host = ui.host
        /\ u.disturbed = ui.disturbed /\ u.cancelOne = ui.cancelOne
        /\ u.cancelOne \in BOOLEAN /\ u.broken \in BOOLEAN
    BY DEF TransInv, TransFields
  <1>3. \/ \E s \in Transfers!Ended : Transfers!Proceed(c, Transfers!Write(ui.queue, c.at, s), u)
        \/ /\ hit /\ Transfers!Continue(c, Transfers!Start(c.host))
           /\ ui' = [u EXCEPT !.queue = Transfers!Write(@, c.at, "cancelled"), !.cancelOne = FALSE]
        \/ /\ hit /\ Transfers!Answered(c)
           /\ ui' = [u EXCEPT !.queue = [i \in DOMAIN @ |->
                     IF i = c.at \/ @[i].status = "pending"
                     THEN [@[i] EXCEPT !.status = "cancelled"] ELSE @[i]]]
    BY DEF Transfers!UploadEnds, Transfers!Ended
  <1> HIDE DEF u, hit
  <1>4. ASSUME NEW s \in Transfers!Ended, Transfers!Proceed(c, Transfers!Write(ui.queue, c.at, s), u) PROVE TransInv' /\ Transfers!EndsOnce
    BY <1>1, <1>2, <1>4, TransWrites, TransProceeds
  <1>5. CASE /\ hit /\ Transfers!Continue(c, Transfers!Start(c.host))
             /\ ui' = [u EXCEPT !.queue = Transfers!Write(@, c.at, "cancelled"), !.cancelOne = FALSE]
    <2> DEFINE q == Transfers!Write(ui.queue, c.at, "cancelled")
    <2>1. "cancelled" \in Transfers!Ended BY DEF Transfers!Ended
    <2>2. /\ q \in Seq(TransItems)
          /\ ~ui.disturbed => Idle(q) /\ Numbered(q, ui.last) /\ Follows(q, ui.queue, ui.last)
      BY <1>1, <2>1, TransWrites
    <2>3. ui' = [u EXCEPT !.queue = q, !.cancelOne = FALSE] BY <1>2, <1>5
    <2> HIDE DEF q
    <2>4. /\ DOMAIN ui' = DOMAIN ui /\ ui'.queue = q /\ ui'.last = ui.last /\ ui'.host = ui.host
          /\ ui'.disturbed = ui.disturbed /\ ui'.cancelOne \in BOOLEAN /\ ui'.broken \in BOOLEAN
      BY <1>2, <2>3 DEF TransInv, TransFields
    <2>5. calls' = (calls \ {c}) \cup {Transfers!Start(c.host)} BY <1>5 DEF Transfers!Continue
    <2> QED BY <1>1, <2>2, <2>4, <2>5, TransHits
  <1>6. CASE /\ hit /\ Transfers!Answered(c)
             /\ ui' = [u EXCEPT !.queue = [i \in DOMAIN @ |->
                       IF i = c.at \/ @[i].status = "pending"
                       THEN [@[i] EXCEPT !.status = "cancelled"] ELSE @[i]]]
    <2> DEFINE g(i) == IF i = c.at \/ ui.queue[i].status = "pending"
                       THEN [ui.queue[i] EXCEPT !.status = "cancelled"] ELSE ui.queue[i]
               q == [i \in DOMAIN ui.queue |-> g(i)]
    <2>1. ui' = [u EXCEPT !.queue = q] BY <1>2, <1>6
    <2>2. /\ ui.queue \in Seq(TransItems) /\ c.at \in Nat
          /\ c \in Transfers!CallsOf({"upload"}) /\ \A d \in Transfers!CallsOf({"upload"}) : d = c
      BY <1>1 DEF TransInv, TransFields, TransCalls, Transfers!Uploads, Transfers!CallsOf
    <2>3. ASSUME NEW i \in DOMAIN ui.queue
          PROVE  /\ g(i) \in TransItems /\ g(i).id = ui.queue[i].id
                 /\ i = c.at \/ ui.queue[i].status = "pending" => g(i).status = "cancelled"
                 /\ ~(i = c.at \/ ui.queue[i].status = "pending") => g(i) = ui.queue[i]
      <3>1. ui.queue[i] \in TransItems BY <2>2
      <3> QED BY <3>1 DEF TransItems, Transfers!Ended
    <2> HIDE DEF g
    <2>4. q \in Seq(TransItems) /\ DOMAIN q = DOMAIN ui.queue
      <3>1. DOMAIN ui.queue = 1 .. Len(ui.queue) /\ Len(ui.queue) \in Nat BY <2>2
      <3>2. q \in [1 .. Len(ui.queue) -> TransItems] BY <2>3, <3>1
      <3> QED BY <3>1, <3>2
    <2>5. \A i \in DOMAIN q : q[i] = g(i) OBVIOUS
    <2> HIDE DEF q
    <2>6. /\ DOMAIN ui' = DOMAIN ui /\ ui'.queue = q /\ ui'.last = ui.last /\ ui'.host = ui.host
          /\ ui'.disturbed = ui.disturbed /\ ui'.cancelOne \in BOOLEAN /\ ui'.broken \in BOOLEAN
      BY <1>2, <2>1 DEF TransInv, TransFields
    <2>7. calls' = calls \ {c} BY <1>6 DEF Transfers!Answered
    <2>8. \A i \in DOMAIN q : q[i].status # "pending" BY <2>3, <2>4, <2>5
    <2>9. ASSUME ~ui.disturbed
          PROVE  Idle(q) /\ Numbered(q, ui.last) /\ Follows(q, ui.queue, ui.last)
      <3>1. ui.queue[c.at].status = "uploading" BY <2>2, <2>9 DEF TransInv, TransOwned
      <3>2. \A i \in DOMAIN ui.queue : ui.queue[i].up /\ ui.queue[i].status = "uploading" => i = c.at
        BY <2>2, <2>9 DEF TransInv, TransOwned, Transfers!WorkOwned
      <3>3. Idle(q) BY <2>3, <2>4, <2>5, <2>8, <3>2 DEF Idle
      <3>4. Follows(q, ui.queue, ui.last) BY <2>3, <2>4, <2>5, <3>1 DEF Follows, Transfers!Ended
      <3>5. Numbered(ui.queue, ui.last) BY <2>9 DEF TransInv, TransOwned
      <3>6. Numbered(q, ui.last) BY <2>3, <2>4, <2>5, <3>5 DEF Numbered
      <3> QED BY <3>3, <3>4, <3>6
    <2> QED BY <1>1, <2>4, <2>6, <2>7, <2>8, <2>9, TransHits
  <1> QED BY <1>3, <1>4, <1>5, <1>6

\* No step of the queue leaves the invariant, and none changes how an upload ended.
THEOREM TransNext == TransInv /\ [Transfers!Next]_Transfers!vars => TransInv' /\ Transfers!EndsOnce
  <1> SUFFICES ASSUME TransInv, [Transfers!Next]_Transfers!vars PROVE TransInv' /\ Transfers!EndsOnce OBVIOUS
  <1>1. CASE UNCHANGED Transfers!vars
    <2>1. ui' = ui /\ calls' = calls /\ back' = back BY <1>1 DEF Transfers!vars
    <2>2. Transfers!Uploads' = Transfers!Uploads
      BY <2>1 DEF Transfers!Uploads, Transfers!CallsOf
    <2>3. /\ calls' \subseteq TransCalls /\ back' \in Nat
          /\ ui'.cancelOne \in BOOLEAN /\ ui'.broken \in BOOLEAN /\ ui'.disturbed \in BOOLEAN
      BY <2>1 DEF TransInv, TransFields
    <2> QED BY <2>1, <2>2, <2>3, TransIdles
  <1>2. CASE Transfers!Panel BY <1>2, TransClears, TransCancels, TransRemoves
                                DEF Transfers!Panel
  <1>3. CASE \E n \in Things : Transfers!HandleFileDrop(n) \/ Transfers!HandleDownload(n)
    BY <1>3, TransDrops, TransDownloads
  <1>4. CASE \E c \in calls : Transfers!HandleDownloadProgress(c) \/ Transfers!DownloadEnds(c) \/ Transfers!CancelArrives(c)
    BY <1>4, TransDownloads, TransArrives
  <1>5. CASE \E h \in Things : Transfers!SessionChanges(h) BY <1>5, TransChanges
  <1>6. CASE Transfers!Answer BY <1>6, TransStarts, TransEnds DEF Transfers!Answer
  <1> QED BY <1>1, <1>2, <1>3, <1>4, <1>5, <1>6 DEF Transfers!Next

\* What the invariant says of the queue.
THEOREM TransSays == TransInv => Transfers!TypeOK /\ Transfers!WorkOwned
  <1> SUFFICES ASSUME TransInv PROVE Transfers!TypeOK /\ Transfers!WorkOwned OBVIOUS
  <1>1. Cardinality(Transfers!Uploads) <= 1
    <2>1. CASE Transfers!Uploads = {} BY <2>1, FS_EmptySet
    <2>2. CASE Transfers!Uploads # {}
      <3>1. PICK c \in Transfers!Uploads : Transfers!Uploads = {c}
        BY <2>2 DEF TransInv, TransFields
      <3>2. Cardinality({c}) = 1 BY FS_Singleton
      <3> QED BY <3>1, <3>2
    <2> QED BY <2>1, <2>2
  <1>2. \A i \in DOMAIN ui.queue : ui.queue[i].status \in Transfers!Ended \cup {"pending", "uploading"}
    <2>1. \A i \in DOMAIN ui.queue : ui.queue[i] \in TransItems BY DEF TransInv, TransFields
    <2> QED BY <2>1 DEF TransItems
  <1> QED BY <1>1, <1>2, TransSize DEF Transfers!TypeOK, TransInv, TransOwned

-----------------------------------------------------------------------------
\* PGTree.tla
\* The constants of the page.
LEMMA TreeConstants == Nothing \notin Things /\ First \in Things
  BY PagesAssumption, TwoThings

\* The server is not connected at first.
THEOREM TreeInit == Tree!Init => TreeInv
  <1> SUFFICES ASSUME Tree!Init PROVE TreeInv OBVIOUS
  <1>1. /\ DOMAIN ui = {"sid", "dbs", "cur", "shown", "loading", "sure", "left"}
        /\ ui.sid = Nothing /\ ui.dbs = {} /\ ui.cur = Nothing /\ ui.shown = [d \in Things |-> Nothing]
        /\ ui.sure = TRUE /\ ui.left = {} /\ calls = {}
    BY DEF Tree!Init
  <1>2. /\ DOMAIN back = {"open", "cur", "dbs", "wrong"} /\ back.open = {} /\ back.dbs = Things
        /\ back.cur = [s \in Things |-> First] /\ back.wrong = {}
    BY DEF Tree!Init
  <1>3. ui.shown \in [Things -> Things \cup {Nothing}] /\ back.cur \in [Things -> Things]
    BY <1>1, <1>2, TreeConstants
  <1>4. TreeFields BY Zenon, <1>1, <1>2, <1>3 DEF TreeFields
  <1> QED BY <1>1, <1>2, <1>4 DEF TreeInv, TreeOpened, TreeOwned, TreeKnows, Tree!SessionsOwned,
             Tree!ShownBelongs, Tree!UntouchedKept, Tree!Loads, Tree!CallsOf

\* A call is asked for, or the step of one that changes nothing but the calls: what the
\* new call carries is in order, and it loads nothing.
LEMMA TreeAsks ==
  ASSUME TreeInv, NEW d \in TreeWorks, calls' \subseteq calls \cup {d}, d \in calls',
         \A c \in calls \ calls' : c.sid \in {d.sid, Nothing},
         d.op = "create" => d.db \in Things,
         d.sid \in back.open \cup {Nothing},
         ui.sure /\ d.op # "connect" => d.sid \in {ui.sid} \cup ui.left,
         DOMAIN ui' = DOMAIN ui, DOMAIN back' = DOMAIN back,
         ui'.sid = ui.sid, ui'.dbs = ui.dbs, ui'.cur = ui.cur, ui'.shown = ui.shown,
         ui'.sure = ui.sure, ui'.left = ui.left,
         back'.open = back.open, back'.cur = back.cur, back'.dbs \subseteq Things,
         back'.wrong = back.wrong
  PROVE  TreeInv'
  <1> USE DEF TreeInv
  <1>1. d \notin TreeLoads /\ d.op \notin {"list", "export", "import"}
    BY DEF TreeWorks, TreeLoads
  <1>2. TreeFields' BY DEF TreeFields
  <1>3. TreeOpened' BY DEF TreeOpened
  <1>4. TreeOwned'
    <2>1. ASSUME ui.sure PROVE Tree!SessionsOwned'
      <3>1. Nothing \notin back.open BY TreeConstants DEF TreeFields
      <3> QED BY <2>1, <3>1 DEF TreeOwned, Tree!SessionsOwned
    <2> QED BY <2>1 DEF TreeOwned
  <1>5. Tree!Loads' \subseteq Tree!Loads BY <1>1 DEF Tree!Loads, Tree!CallsOf
  <1>6. TreeKnows' BY <1>5 DEF TreeKnows
  <1>7. Tree!ShownBelongs' /\ Tree!UntouchedKept' BY DEF Tree!ShownBelongs, Tree!UntouchedKept
  <1> QED BY <1>2, <1>3, <1>4, <1>6, <1>7

\* A call ends that is not a load, and its session is still had by the page.
LEMMA TreeEnds ==
  ASSUME TreeInv, NEW c \in calls, calls' = calls \ {c},
         c.op # "connect" \/ c.sid = Nothing,
         back' = back, DOMAIN ui' = DOMAIN ui,
         ui'.sid = ui.sid, ui'.cur = ui.cur, ui'.sure = ui.sure, ui'.left = ui.left,
         ui'.dbs \subseteq Things, ui'.shown \in [Things -> Things \cup {Nothing}],
         ui.sure => \A e \in Things : ui'.shown[e] \in {e, Nothing}
  PROVE  TreeInv'
  <1> USE DEF TreeInv
  <1>1. TreeFields' BY DEF TreeFields
  <1>2. TreeOpened' BY DEF TreeOpened
  <1>3. TreeOwned'
    <2>1. ASSUME ui.sure PROVE Tree!SessionsOwned'
      <3>1. Nothing \notin back.open BY TreeConstants DEF TreeFields
      <3> QED BY <2>1, <3>1 DEF TreeOwned, Tree!SessionsOwned
    <2> QED BY <2>1 DEF TreeOwned
  <1>4. TreeKnows' BY DEF TreeKnows, Tree!Loads, Tree!CallsOf
  <1>5. Tree!ShownBelongs' /\ Tree!UntouchedKept' BY DEF Tree!ShownBelongs, Tree!UntouchedKept
  <1> QED BY <1>1, <1>2, <1>3, <1>4, <1>5

\* A load is started: by itself, or nothing is claimed any more.
LEMMA TreeStarts ==
  ASSUME TreeInv, NEW c \in TreeLoads, ui.sure, ui.sid # Nothing, c.sid = ui.sid,
         c.step = "read" => ui.cur = c.db, calls' = calls \cup {c}, back' = back,
         ui' = [ui EXCEPT !.sure = @ /\ Tree!Alone]
  PROVE  TreeInv'
  <1> USE DEF TreeInv
  <1>1. /\ DOMAIN ui' = DOMAIN ui /\ ui'.sid = ui.sid /\ ui'.dbs = ui.dbs /\ ui'.cur = ui.cur
        /\ ui'.shown = ui.shown /\ ui'.left = ui.left /\ ui'.sure \in BOOLEAN
        /\ ui'.sure => calls = {}
    BY Zenon DEF TreeFields, Tree!Alone
  <1>2. c.op \in {"list", "export", "import"} /\ c.db \in Things BY DEF TreeLoads
  <1>3. TreeFields' BY <1>1, <1>2 DEF TreeFields
  <1>4. TreeOpened' BY <1>1 DEF TreeOpened
  <1>5. TreeOwned' BY <1>1 DEF TreeOwned, Tree!SessionsOwned
  <1>6. TreeKnows'
    <2> SUFFICES ASSUME ui'.sure PROVE TreeKnows' BY DEF TreeKnows
    <2>1. Tree!Loads' \subseteq {c} BY <1>1 DEF Tree!Loads, Tree!CallsOf
    <2>2. Nothing \notin Things BY TreeConstants
    <2> QED BY <1>1, <1>2, <2>1, <2>2 DEF TreeKnows
  <1>7. Tree!ShownBelongs' /\ Tree!UntouchedKept'
    BY <1>1 DEF Tree!ShownBelongs, Tree!UntouchedKept
  <1> QED BY <1>3, <1>4, <1>5, <1>6, <1>7

\* Go switches the session of a load.
LEMMA TreeSwitches == ASSUME TreeInv, NEW c \in calls, Tree!Switched(c) PROVE TreeInv'
  <1> USE DEF TreeInv
  <1>1. c \in TreeLoads /\ c.op \in {"list", "export", "import"} /\ c.step = "switch"
        /\ c.op # "connect" /\ c.sid \in Things /\ c.db \in Things
    BY DEF Tree!Switched, Tree!Loads, Tree!CallsOf, TreeFields, TreeWorks, TreeLoads
  <1>2. CASE c.db \notin back.dbs
    <2>1. calls' = calls \ {c} /\ ui' = ui /\ back' = back
      BY <1>2 DEF Tree!Switched, Tree!Answered
    <2> QED BY <1>1, <2>1, TreeEnds DEF TreeFields, Tree!ShownBelongs
  <1>3. CASE c.db \in back.dbs
    <2> DEFINE d == [c EXCEPT !.step = "read"]
    <2>1. d \in TreeLoads /\ d.sid = c.sid /\ d.db = c.db /\ d.op = c.op /\ d.step = "read"
      BY <1>1 DEF TreeLoads
    <2>2. calls' = (calls \ {c}) \cup {d} BY <1>3 DEF Tree!Switched, Tree!Continue
    <2> HIDE DEF d
    <2>3. /\ DOMAIN ui' = DOMAIN ui /\ ui'.sid = ui.sid /\ ui'.dbs = ui.dbs /\ ui'.cur = c.db
          /\ ui'.shown = ui.shown /\ ui'.left = ui.left /\ ui'.sure = ui.sure
      BY <1>3 DEF Tree!Switched, TreeFields
    <2>4. /\ DOMAIN back' = DOMAIN back /\ back'.open = back.open /\ back'.dbs = back.dbs
          /\ back'.wrong = back.wrong /\ back'.cur \in [Things -> Things]
          /\ back'.cur[c.sid] = c.db
      BY <1>1, <1>3 DEF Tree!Switched, TreeFields
    <2>5. TreeFields' BY <1>1, <2>1, <2>2, <2>3, <2>4 DEF TreeFields
    <2>6. TreeOpened' BY <2>1, <2>2, <2>3, <2>4 DEF TreeOpened
    <2>7. TreeOwned'
      <3>1. ASSUME ui.sure PROVE Tree!SessionsOwned'
        BY <2>1, <2>2, <2>3, <2>4, <3>1 DEF TreeOwned, Tree!SessionsOwned
      <3> QED BY <1>1, <2>1, <2>2, <2>3, <3>1 DEF TreeOwned
    <2>8. TreeKnows'
      <3> SUFFICES ASSUME ui.sure PROVE TreeKnows' BY <2>3 DEF TreeKnows
      <3>1. c.sid \in {ui.sid} \cup ui.left BY <1>1 DEF TreeOwned
      <3>2. ui.sid # Nothing => c.sid = ui.sid BY <3>1 DEF TreeOwned
      <3>3. ~(ui.sid = Nothing /\ ui.left = {}) BY <1>1, <3>1, TreeConstants
      <3>4. c \in Tree!Loads BY <1>1 DEF Tree!Loads, Tree!CallsOf
      <3>5. Tree!Loads = {c} BY <3>4 DEF TreeKnows
      <3>6. Tree!Loads' \subseteq {d} BY <2>2, <3>5 DEF Tree!Loads, Tree!CallsOf
      <3> QED BY <2>1, <2>3, <2>4, <3>2, <3>3, <3>6 DEF TreeKnows
    <2>9. Tree!ShownBelongs' /\ Tree!UntouchedKept'
      BY <2>3, <2>4 DEF Tree!ShownBelongs, Tree!UntouchedKept
    <2> QED BY <2>5, <2>6, <2>7, <2>8, <2>9
  <1> QED BY <1>2, <1>3

\* A load ends on the database its session is on.
LEMMA TreeReads == ASSUME TreeInv, NEW c \in calls, Tree!Loaded(c) PROVE TreeInv'
  <1> USE DEF TreeInv
  <1>1. c \in Tree!Loads /\ c \in TreeLoads /\ c.op \in {"list", "export", "import"} /\ c.step = "read"
        /\ c.sid \in Things /\ c.db \in Things /\ calls' = calls \ {c}
    BY DEF Tree!Loaded, Tree!Answered, Tree!Loads, Tree!CallsOf, TreeFields, TreeWorks,
       TreeLoads
  <1> DEFINE of == back.cur[c.sid]
  <1>2. of \in Things BY <1>1 DEF TreeFields
  <1>3. ui.sure => of = c.db BY <1>1 DEF TreeKnows
  <1>4. \/ ui' = ui /\ back' = back
        \/ ui' = [ui EXCEPT !.shown[c.db] = of] /\ back' = back
        \/ ui' = ui /\ back' = [back EXCEPT !.wrong = IF of = c.db THEN @ ELSE @ \cup {c.op}]
    BY Zenon DEF Tree!Loaded
  <1> HIDE DEF of
  <1>5. CASE ui' = ui /\ back' = back
    BY <1>1, <1>5, TreeEnds DEF TreeFields, Tree!ShownBelongs
  <1>6. CASE ui' = [ui EXCEPT !.shown[c.db] = of] /\ back' = back
    <2>1. /\ DOMAIN ui' = DOMAIN ui /\ ui'.sid = ui.sid /\ ui'.dbs = ui.dbs /\ ui'.cur = ui.cur
          /\ ui'.left = ui.left /\ ui'.sure = ui.sure
          /\ ui'.shown = [ui.shown EXCEPT ![c.db] = of]
      BY <1>6 DEF TreeFields
    <2>2. ui'.shown \in [Things -> Things \cup {Nothing}] BY <1>1, <1>2, <2>1 DEF TreeFields
    <2>3. ui.sure => \A e \in Things : ui'.shown[e] \in {e, Nothing}
      BY <1>1, <1>3, <2>1 DEF TreeFields, Tree!ShownBelongs
    <2>4. ui'.dbs \subseteq Things BY <2>1 DEF TreeFields
    <2> QED BY <1>1, <1>6, <2>1, <2>2, <2>3, <2>4, TreeEnds
  <1>7. CASE ui' = ui /\ back' = [back EXCEPT !.wrong = IF of = c.db THEN @ ELSE @ \cup {c.op}]
    <2>1. /\ DOMAIN back' = DOMAIN back /\ back'.open = back.open /\ back'.dbs = back.dbs
          /\ back'.cur = back.cur /\ (of = c.db => back'.wrong = back.wrong)
      BY <1>7 DEF TreeFields
    <2>2. TreeFields' BY <1>1, <1>7, <2>1 DEF TreeFields
    <2>3. TreeOpened' BY <1>1, <1>7, <2>1 DEF TreeOpened
    <2>4. TreeOwned' BY <1>1, <1>7, <2>1 DEF TreeOwned, Tree!SessionsOwned
    <2>5. TreeKnows' BY <1>1, <1>7, <2>1 DEF TreeKnows, Tree!Loads, Tree!CallsOf
    <2>6. Tree!ShownBelongs' /\ Tree!UntouchedKept'
      BY <1>3, <1>7, <2>1 DEF Tree!ShownBelongs, Tree!UntouchedKept
    <2> QED BY <2>2, <2>3, <2>4, <2>5, <2>6
  <1> QED BY <1>4, <1>5, <1>6, <1>7

\* The server is connected: Go opens a session, then the page keeps it.
LEMMA TreeConnects ==
  ASSUME TreeInv, NEW c \in calls,
         Tree!AnswerConnect(c) \/ \E s \in Things : Tree!Connected(c, s)
  PROVE  TreeInv'
  <1> USE DEF TreeInv
  <1>1. c.op = "connect" BY Zenon DEF Tree!AnswerConnect, Tree!Connected
  <1>2. ASSUME NEW s \in Things, Tree!Connected(c, s) PROVE TreeInv'
    <2> DEFINE d == Tree!Work("connect", s, Nothing)
    <2>1. d \in TreeWorks /\ d.op = "connect" /\ d.sid = s BY DEF Tree!Work, TreeWorks
    <2>2. calls' = (calls \ {c}) \cup {d} /\ ui' = ui /\ s \notin back.open /\ c.sid = Nothing
      BY Zenon, <1>2 DEF Tree!Connected, Tree!Continue
    <2> HIDE DEF d
    <2>3. /\ DOMAIN back' = DOMAIN back /\ back'.open = back.open \cup {s}
          /\ back'.cur = [back.cur EXCEPT ![s] = First]
          /\ back'.dbs = back.dbs /\ back'.wrong = back.wrong
      BY Zenon, <1>2 DEF Tree!Connected, TreeFields
    <2>4. /\ back'.cur \in [Things -> Things]
          /\ \A r \in Things \ {s} : back'.cur[r] = back.cur[r]
      BY <2>3, TreeConstants DEF TreeFields
    <2>5. TreeFields' BY <2>1, <2>2, <2>3, <2>4 DEF TreeFields
    <2>6. TreeOpened' BY <2>1, <2>2, <2>3 DEF TreeOpened
    <2>7. TreeOwned'
      <3>1. Nothing \notin back.open BY TreeConstants DEF TreeFields
      <3> QED BY <2>1, <2>2, <2>3, <3>1 DEF TreeOwned, Tree!SessionsOwned
    <2>8. TreeKnows'
      <3>1. Tree!Loads' \subseteq Tree!Loads BY <2>1, <2>2 DEF Tree!Loads, Tree!CallsOf
      <3>2. \A e \in Tree!Loads : e.sid \in Things \ {s}
        BY <2>2, TreeConstants DEF Tree!Loads, Tree!CallsOf, TreeFields, TreeOpened, TreeLoads,
           TreeWorks
      <3>3. ui.sid # Nothing => ui.sid \in Things \ {s} BY <2>2 DEF TreeFields, TreeOpened
      <3> QED BY <2>2, <2>4, <3>1, <3>2, <3>3 DEF TreeKnows
    <2>9. Tree!ShownBelongs' /\ Tree!UntouchedKept'
      BY <2>2, <2>3 DEF Tree!ShownBelongs, Tree!UntouchedKept
    <2> QED BY <2>5, <2>6, <2>7, <2>8, <2>9
  <1>3. CASE Tree!AnswerConnect(c) /\ c.sid = Nothing
    <2>1. /\ calls' = calls \ {c} /\ back' = back /\ DOMAIN ui' = DOMAIN ui /\ ui'.sid = ui.sid
          /\ ui'.dbs = ui.dbs /\ ui'.cur = ui.cur /\ ui'.left = ui.left /\ ui'.sure = ui.sure
          /\ ui'.shown = ui.shown
      BY <1>3 DEF Tree!AnswerConnect, Tree!Answered, TreeFields
    <2>2. ui'.dbs \subseteq Things /\ ui'.shown \in [Things -> Things \cup {Nothing}]
      BY <2>1 DEF TreeFields
    <2>3. ui.sure => \A e \in Things : ui'.shown[e] \in {e, Nothing}
      BY <2>1 DEF Tree!ShownBelongs
    <2> QED BY <1>3, <2>1, <2>2, <2>3, TreeEnds
  <1>4. CASE Tree!AnswerConnect(c) /\ c.sid # Nothing
    <2> DEFINE d == Tree!Work("databases", c.sid, Nothing)
    <2>1. c.sid \in Things BY <1>1, <1>4 DEF TreeFields, TreeLoads, TreeWorks
    <2>2. d \in TreeWorks /\ d.op = "databases" /\ d.sid = c.sid
      BY <2>1 DEF Tree!Work, TreeWorks
    <2>3. calls' = (calls \ {c}) \cup {d} /\ back' = back
      BY <1>4 DEF Tree!AnswerConnect, Tree!Continue
    <2> HIDE DEF d
    <2>4. /\ DOMAIN ui' = DOMAIN ui /\ ui'.sid = c.sid /\ ui'.dbs = ui.dbs /\ ui'.cur = ui.cur
          /\ ui'.left = ui.left /\ ui'.shown = ui.shown /\ ui'.sure \in BOOLEAN
          /\ ui'.sure => ui.sure /\ ui.sid = Nothing /\ ui.left = {}
      BY Zenon, <1>4 DEF Tree!AnswerConnect, TreeFields
    <2>5. TreeFields' BY <2>1, <2>2, <2>3, <2>4 DEF TreeFields
    <2>6. TreeOpened' BY <2>2, <2>3, <2>4 DEF TreeOpened
    <2>7. ui'.sure => \A e \in calls : e.op = "connect"
      BY <2>4, TreeConstants DEF TreeFields, TreeOwned, TreeLoads, TreeWorks
    <2>8. TreeOwned'
      <3> SUFFICES ASSUME ui'.sure PROVE TreeOwned' BY DEF TreeOwned
      <3>1. Tree!SessionsOwned'
        <4>1. Nothing \notin back.open BY TreeConstants DEF TreeFields
        <4> QED BY <2>2, <2>3, <2>4, <4>1 DEF TreeOwned, Tree!SessionsOwned
      <3> QED BY <2>2, <2>3, <2>4, <2>7, <3>1 DEF TreeOwned
    <2>9. TreeKnows'
      <3> SUFFICES ASSUME ui'.sure PROVE TreeKnows' BY DEF TreeKnows
      <3>1. Tree!Loads' = {} BY <2>2, <2>3, <2>7 DEF Tree!Loads, Tree!CallsOf
      <3>2. ui'.cur = Nothing BY <2>4 DEF TreeKnows
      <3>3. ui'.sid # Nothing BY <1>4, <2>4
      <3> QED BY <3>1, <3>2, <3>3 DEF TreeKnows
    <2>10. Tree!ShownBelongs' /\ Tree!UntouchedKept'
      BY <2>3, <2>4 DEF Tree!ShownBelongs, Tree!UntouchedKept
    <2> QED BY <2>5, <2>6, <2>8, <2>9, <2>10
  <1> QED BY <1>2, <1>3, <1>4

\* What is asked for but no load, and the steps between.
LEMMA TreeWorksOn ==
  ASSUME TreeInv,
         \/ Tree!HandlePgConnect
         \/ \E d \in Things : Tree!HandlePgCreateDB(d) \/ Tree!HandlePgDropDB(d)
         \/ \E c \in calls : Tree!CreateDatabase(c) \/ Tree!DropDatabase(c)
  PROVE  TreeInv'
  <1> USE DEF TreeInv
  <1>1. CASE Tree!HandlePgConnect
    <2> DEFINE d == Tree!Work("connect", Nothing, Nothing)
    <2>1. d \in TreeWorks /\ d.op = "connect" /\ d.sid = Nothing BY DEF Tree!Work, TreeWorks
    <2>2. calls' = calls \cup {d} /\ back' = back BY <1>1 DEF Tree!HandlePgConnect, Tree!Ask
    <2>3. /\ DOMAIN ui' = DOMAIN ui /\ ui'.sid = ui.sid /\ ui'.dbs = ui.dbs /\ ui'.cur = ui.cur
          /\ ui'.left = ui.left /\ ui'.shown = ui.shown /\ ui'.sure = ui.sure
      BY Zenon, <1>1 DEF Tree!HandlePgConnect, TreeFields
    <2>4. back'.dbs \subseteq Things BY <2>2 DEF TreeFields
    <2> HIDE DEF d
    <2> QED BY <2>1, <2>2, <2>3, <2>4, TreeAsks
  <1>2. ASSUME NEW e \in Things, Tree!HandlePgCreateDB(e) \/ Tree!HandlePgDropDB(e) PROVE TreeInv'
    <2>1. PICK op \in {"create", "drop"} : calls' = calls \cup {Tree!Work(op, ui.sid, e)}
      BY <1>2 DEF Tree!HandlePgCreateDB, Tree!HandlePgDropDB, Tree!Ask
    <2> DEFINE d == Tree!Work(op, ui.sid, e)
    <2>2. ui.sid \in Things /\ ui' = ui /\ back' = back
      BY <1>2 DEF Tree!HandlePgCreateDB, Tree!HandlePgDropDB, TreeFields
    <2>3. d \in TreeWorks /\ d.op # "connect" /\ d.sid = ui.sid /\ d.db \in Things
      BY <2>2 DEF Tree!Work, TreeWorks
    <2>4. calls' = calls \cup {d} BY <2>1
    <2> HIDE DEF d
    <2>5. back'.dbs \subseteq Things /\ ui.sid \in back.open
      BY <2>2, TreeConstants DEF TreeFields, TreeOpened
    <2> QED BY <2>2, <2>3, <2>4, <2>5, TreeAsks
  <1>3. ASSUME NEW c \in calls, Tree!CreateDatabase(c) \/ Tree!DropDatabase(c) PROVE TreeInv'
    <2>1. c.op \in {"create", "drop"} /\ c.sid \in Things /\ ui' = ui
      BY <1>3 DEF Tree!CreateDatabase, Tree!DropDatabase, TreeFields, TreeLoads, TreeWorks
    <2>2. CASE Tree!Answered(c) /\ back' = back
      BY <2>1, <2>2, TreeEnds DEF Tree!Answered, TreeFields, Tree!ShownBelongs
    <2>3. CASE ~(Tree!Answered(c) /\ back' = back)
      <3>1. PICK e \in Things \cup {Nothing} : Tree!Continue(c, Tree!Work("refresh", c.sid, e))
        BY <1>3, <2>1, <2>3 DEF Tree!CreateDatabase, Tree!DropDatabase, TreeFields, TreeLoads,
           TreeWorks
      <3> DEFINE d == Tree!Work("refresh", c.sid, e)
      <3>2. d \in TreeWorks /\ d.op = "refresh" /\ d.sid = c.sid
        BY <2>1 DEF Tree!Work, TreeWorks
      <3>3. calls' = (calls \ {c}) \cup {d} BY <3>1 DEF Tree!Continue
      <3> HIDE DEF d
      <3>4. /\ DOMAIN back' = DOMAIN back /\ back'.open = back.open /\ back'.cur = back.cur
            /\ back'.wrong = back.wrong /\ back'.dbs \subseteq Things
        BY <1>3, <2>3 DEF Tree!CreateDatabase, Tree!DropDatabase, TreeFields
      <3>5. c.sid \in back.open \cup {Nothing} BY DEF TreeOpened
      <3>6. ui.sure => c.sid \in {ui.sid} \cup ui.left BY <2>1 DEF TreeOwned
      <3> QED BY <2>1, <3>2, <3>3, <3>4, <3>5, <3>6, TreeAsks
    <2> QED BY <2>2, <2>3
  <1> QED BY <1>1, <1>2, <1>3

\* No step of the tree or of Go leaves the invariant.
THEOREM TreeNext == TreeInv /\ [Tree!Next]_Tree!vars => TreeInv'
  <1> SUFFICES ASSUME TreeInv, [Tree!Next]_Tree!vars PROVE TreeInv' OBVIOUS
  <1>1. CASE UNCHANGED Tree!vars
    BY <1>1 DEF Tree!vars, TreeInv, TreeFields, TreeOpened, TreeOwned, TreeKnows,
       Tree!SessionsOwned,
       Tree!ShownBelongs, Tree!UntouchedKept, Tree!Loads, Tree!CallsOf
  <1>2. CASE Tree!DoubleClickDisconnects
    <2>1. /\ DOMAIN ui' = DOMAIN ui /\ ui'.sid = Nothing /\ ui'.dbs = {} /\ ui'.cur = ui.cur
          /\ ui'.shown = ui.shown /\ ui'.left = ui.left \cup {ui.sid} /\ ui'.sure = ui.sure
          /\ ui.sid # Nothing /\ back' = back /\ calls' = calls
      BY Zenon, <1>2 DEF Tree!DoubleClickDisconnects, TreeInv, TreeFields
    <2>2. TreeFields' BY <2>1 DEF TreeInv, TreeFields
    <2>3. TreeOpened' BY <2>1 DEF TreeInv, TreeOpened
    <2>4. TreeOwned' BY <2>1 DEF TreeInv, TreeOwned, Tree!SessionsOwned
    <2>5. TreeKnows' BY <2>1 DEF TreeInv, TreeKnows, Tree!Loads, Tree!CallsOf
    <2>6. Tree!ShownBelongs' /\ Tree!UntouchedKept'
      BY <2>1 DEF TreeInv, Tree!ShownBelongs, Tree!UntouchedKept
    <2> QED BY <2>2, <2>3, <2>4, <2>5, <2>6 DEF TreeInv
  <1>3. ASSUME NEW d \in Things, NEW op \in {"list", "export"}, Tree!SwitchFirst(op, d) PROVE TreeInv'
    <2> DEFINE c == [op |-> op, sid |-> ui.sid, db |-> d,
                     step |-> IF ui.cur = d THEN "read" ELSE "switch"]
    <2>1. /\ ui.sure /\ ui.sid # Nothing /\ calls' = calls \cup {c} /\ back' = back
          /\ ui' = [ui EXCEPT !.sure = @ /\ Tree!Alone]
      BY <1>3 DEF Tree!SwitchFirst, Tree!Ask
    <2>2. c \in TreeLoads /\ c.sid = ui.sid /\ (c.step = "read" => ui.cur = c.db)
      BY <2>1 DEF TreeInv, TreeFields, TreeLoads
    <2> HIDE DEF c
    <2> QED BY <2>1, <2>2, TreeStarts
  <1>4. ASSUME NEW d \in Things, Tree!ImportSQL(d) PROVE TreeInv'
    <2> DEFINE c == [op |-> "import", sid |-> ui.sid, db |-> d, step |-> "switch"]
    <2>1. /\ ui.sure /\ ui.sid # Nothing /\ calls' = calls \cup {c} /\ back' = back
          /\ ui' = [ui EXCEPT !.sure = @ /\ Tree!Alone]
      BY <1>4 DEF Tree!ImportSQL, Tree!Ask
    <2>2. c \in TreeLoads /\ c.sid = ui.sid /\ c.step # "read"
      BY <2>1 DEF TreeInv, TreeFields, TreeLoads
    <2> HIDE DEF c
    <2> QED BY <2>1, <2>2, TreeStarts
  <1>5. ASSUME NEW d \in Things, Tree!HandleExpand(d) \/ Tree!ContextMenu(d) PROVE TreeInv'
    BY <1>3, <1>4, <1>5, TreeWorksOn
       DEF Tree!HandleExpand, Tree!ContextMenu, Tree!HandlePgLoadSchemas,
          Tree!HandlePgLoadObjects, Tree!HandlePgExportSQL
  <1>6. ASSUME NEW c \in calls, Tree!AnswerDatabases(c) \/ Tree!AnswerRefresh(c) PROVE TreeInv'
    <2>1. c.op # "connect" /\ calls' = calls \ {c} /\ back' = back
      BY <1>6 DEF Tree!AnswerDatabases, Tree!AnswerRefresh, Tree!Answered
    <2>2. /\ DOMAIN ui' = DOMAIN ui /\ ui'.sid = ui.sid /\ ui'.cur = ui.cur
          /\ ui'.sure = ui.sure /\ ui'.left = ui.left /\ ui'.dbs \in {ui.dbs, back.dbs}
          /\ ui'.shown \in {ui.shown, [d \in Things |-> IF d = c.db THEN Nothing ELSE ui.shown[d]]}
      BY Zenon, <1>6 DEF Tree!AnswerDatabases, Tree!AnswerRefresh, TreeInv, TreeFields
    <2>3. ui'.dbs \subseteq Things /\ ui'.shown \in [Things -> Things \cup {Nothing}]
      BY <2>2 DEF TreeInv, TreeFields
    <2>4. ui.sure => \A e \in Things : ui'.shown[e] \in {e, Nothing}
      BY <2>2 DEF TreeInv, TreeFields, Tree!ShownBelongs
    <2> QED BY <2>1, <2>2, <2>3, <2>4, TreeEnds
  <1> QED
    BY <1>1, <1>2, <1>5, <1>6, TreeWorksOn, TreeConnects, TreeSwitches, TreeReads DEF Tree!Next,
       Tree!Answer

\* What the invariant says of the tree.
THEOREM TreeSays == TreeInv => Tree!TypeOK /\ Tree!SessionsOwned /\ Tree!ShownBelongs /\ Tree!UntouchedKept
  BY DEF TreeInv, TreeFields, TreeOwned, Tree!SessionsOwned, Tree!TypeOK

-----------------------------------------------------------------------------
\* ConnectionEditor.tla
\* The constants of the page.
LEMMA EditorConstants == \A a \in Things : TypeOf[a] \in {"ssh", "rdp", "local"}
  BY DEF TypeOf

\* The dialog is closed, and its form empty.
THEOREM EditorInit == Editor!Init => EditorInv
  BY DEF Editor!Init, Editor!Closed, EditorInv, EditorFields, EditorStored, EditorShows,
     Editor!Fields, Editor!Stored

\* Opening fills the form, from a connection or with nothing.
LEMMA EditorOpens ==
  ASSUME EditorInv,
         (\E a \in Things : Editor!OpenToEdit(a)) \/ (\E kind \in {"ssh", "rdp", "local"} : Editor!OpenToCreate(kind))
  PROVE  EditorInv'
  <1> USE DEF EditorInv
  <1>1. ASSUME NEW a \in Things, Editor!OpenToEdit(a) PROVE EditorInv'
    <2> DEFINE form == [f \in Editor!Fields |-> IF f \in Editor!Stored THEN back[a][f] ELSE ui.form[f]]
    <2>1. DOMAIN form = Editor!Fields /\ form["shell"] = ui.form["shell"]
          /\ \A f \in Editor!Stored : form[f] = back[a][f]
      BY DEF Editor!Fields, Editor!Stored
    <2>2. ui' = [ui EXCEPT !.open = TRUE, !.kind = TypeOf[a], !.editing = a, !.form = form,
                     !.tab = "basic", !.auth = "password", !.typed = {}] /\ back' = back
      BY Zenon, <1>1 DEF Editor!OpenToEdit, Editor!Opened
    <2> HIDE DEF form
    <2>3. /\ DOMAIN ui' = DOMAIN ui /\ ui'.open = TRUE /\ ui'.kind = TypeOf[a] /\ ui'.editing = a
          /\ ui'.form = form /\ ui'.typed = {} /\ ui'.auth = "password"
      BY <2>2 DEF EditorFields
    <2>4. EditorFields' BY <2>1, <2>3, EditorConstants DEF EditorFields
    <2>5. EditorStored' BY <2>2 DEF EditorStored
    <2>6. EditorShows' BY <2>1, <2>2, <2>3 DEF EditorShows
    <2> QED BY <2>4, <2>5, <2>6
  <1>2. ASSUME NEW kind \in {"ssh", "rdp", "local"}, Editor!OpenToCreate(kind) PROVE EditorInv'
    <2> DEFINE form == [f \in Editor!Fields |-> "blank"]
    <2>1. DOMAIN form = Editor!Fields /\ form["shell"] = "blank" BY DEF Editor!Fields
    <2>2. ui' = [ui EXCEPT !.open = TRUE, !.kind = kind, !.editing = Nothing, !.form = form,
                     !.tab = "basic", !.auth = "password", !.typed = {}] /\ back' = back
      BY <1>2 DEF Editor!OpenToCreate, Editor!Opened
    <2> HIDE DEF form
    <2>3. /\ DOMAIN ui' = DOMAIN ui /\ ui'.editing = Nothing /\ ui'.form = form /\ ui'.typed = {}
          /\ ui'.kind = kind /\ ui'.auth = "password"
      BY <2>2 DEF EditorFields
    <2>4. EditorFields' BY <2>1, <2>3 DEF EditorFields
    <2>5. EditorStored' BY <2>2 DEF EditorStored
    <2>6. EditorShows' BY <2>3 DEF EditorShows
    <2> QED BY <2>4, <2>5, <2>6
  <1> QED BY <1>1, <1>2

\* What a save gives a field that it has not left alone.
LEMMA EditorValues ==
  ASSUME EditorInv, ui.editing # Nothing, NEW f \in Editor!Given
  PROVE  /\ f \in Editor!Stored /\ Editor!ValueOf(f) \in {ui.editing, "typed", "blank"}
         /\ \/ Editor!ValueOf(f) = back[ui.editing][f]
            \/ f \in ui.typed
            \/ f \in {"env", "password", "privateKey"} \ Editor!Mounted
            \/ f = "host" /\ TypeOf[ui.editing] = "local"
  <1> USE DEF EditorInv
  <1>1. f \in Editor!Stored BY DEF Editor!Given, Editor!Stored, Editor!Fields
  <1>2. ui.form[f] \in {ui.editing, "typed", "blank"} /\ (f \notin ui.typed => ui.form[f] = back[ui.editing][f])
    BY <1>1 DEF EditorFields, EditorStored, EditorShows
  <1>3. CASE f = "host" /\ ui.kind = "local"
    <2>1. Editor!ValueOf(f) = ui.form["shell"] BY <1>3 DEF Editor!ValueOf
    <2> QED BY <1>1, <1>3, <2>1 DEF EditorFields, EditorShows
  <1>4. CASE ~(f = "host" /\ ui.kind = "local") /\ f \in Editor!Mounted
    <2>2. f = "privateKey" => ui.auth = "key"
      BY <1>4 DEF Editor!Mounted, Editor!OfKind, EditorFields
    <2>3. f = "password" => ui.auth = "password"
      BY <1>4 DEF Editor!Mounted, Editor!OfKind, EditorFields
    <2>4. Editor!ValueOf(f) = ui.form[f] BY <1>4, <2>2, <2>3 DEF Editor!ValueOf
    <2> QED BY <1>1, <1>2, <2>4
  <1>5. CASE ~(f = "host" /\ ui.kind = "local") /\ f \notin Editor!Mounted
    <2>1. Editor!ValueOf(f) = "blank" BY <1>5 DEF Editor!ValueOf
    <2>2. f \in {"env", "password", "privateKey"} BY <1>5 DEF Editor!Given
    <2> QED BY <1>1, <1>5, <2>1, <2>2
  <1> QED BY <1>3, <1>4, <1>5

\* A save: the form is closed, and every field given gets its value.
LEMMA EditorSaves == ASSUME EditorInv, Editor!HandleSave PROVE EditorInv' /\ Editor!SavesOnlyTyped
  <1> USE DEF EditorInv
  <1>1. ui' = Editor!Closed(ui.form) BY DEF Editor!HandleSave
  <1>2. /\ DOMAIN ui' = DOMAIN ui /\ ui'.open = FALSE /\ ui'.editing = Nothing /\ ui'.kind = "ssh"
        /\ ui'.form = ui.form /\ ui'.typed = {}
    BY <1>1 DEF Editor!Closed, EditorFields
  <1>3. EditorFields' /\ EditorShows' BY <1>2 DEF EditorFields, EditorShows
  <1>4. CASE ui.editing = Nothing
    <2>1. back' = back BY <1>4 DEF Editor!HandleSave
    <2> QED BY <1>3, <2>1 DEF EditorStored, Editor!SavesOnlyTyped
  <1>5. CASE ui.editing # Nothing
    <2> DEFINE e == ui.editing
               saved == [f \in Editor!Stored |-> IF f \in Editor!Given THEN Editor!ValueOf(f) ELSE back[e][f]]
    <2>1. e \in Things /\ back' = [back EXCEPT ![e] = saved]
      BY <1>5 DEF Editor!HandleSave, EditorShows
    <2>2. DOMAIN saved = Editor!Stored /\ \A f \in Editor!Stored :
            saved[f] = IF f \in Editor!Given THEN Editor!ValueOf(f) ELSE back[e][f]
      OBVIOUS
    <2> HIDE DEF saved
    <2>3. \A f \in Editor!Stored : saved[f] \in {e, "typed", "blank"}
      BY <1>5, <2>1, <2>2, EditorValues DEF EditorStored
    <2>4. /\ DOMAIN back' = Things /\ back'[e] = saved
          /\ \A a \in Things \ {e} : back'[a] = back[a]
      BY <2>1 DEF EditorStored
    <2>5. EditorStored' BY <2>2, <2>3, <2>4 DEF EditorStored
    <2>6. \A f \in Editor!Stored : saved[f] # back[e][f] =>
            \/ f \in ui.typed
            \/ f \in {"env", "password", "privateKey"} \ Editor!Mounted
            \/ f = "host" /\ TypeOf[e] = "local"
      BY <1>5, <2>2, EditorValues
    <2>7. Editor!SavesOnlyTyped BY <2>4, <2>6 DEF Editor!SavesOnlyTyped
    <2> QED BY <1>3, <2>5, <2>7
  <1> QED BY <1>4, <1>5

\* No step of the form leaves the invariant or changes what was not typed.
THEOREM EditorNext == EditorInv /\ [Editor!Next]_Editor!vars => EditorInv' /\ Editor!SavesOnlyTyped
  <1> SUFFICES ASSUME EditorInv, [Editor!Next]_Editor!vars PROVE EditorInv' /\ Editor!SavesOnlyTyped OBVIOUS
  <1> USE DEF EditorInv
  <1>1. CASE Editor!HandleSave BY <1>1, EditorSaves
  <1>2. CASE back' = back
    <2>1. Editor!SavesOnlyTyped BY <1>2 DEF Editor!SavesOnlyTyped
    <2>2. CASE Editor!OnCancel
      <3>1. /\ DOMAIN ui' = DOMAIN ui /\ ui'.open = FALSE /\ ui'.editing = Nothing /\ ui'.kind = "ssh"
            /\ ui'.form = ui.form /\ ui'.typed = {}
        BY <2>2 DEF Editor!OnCancel, Editor!Closed, EditorFields
      <3> QED BY <1>2, <2>1, <3>1 DEF EditorFields, EditorStored, EditorShows
    <2>3. ASSUME NEW tab, Editor!SelectTab(tab) PROVE EditorInv'
      BY <1>2, <2>3 DEF Editor!SelectTab, EditorFields, EditorStored, EditorShows
    <2>4. ASSUME NEW auth, Editor!SelectAuth(auth) PROVE EditorInv'
      BY <1>2, <2>4 DEF Editor!SelectAuth, EditorFields, EditorStored, EditorShows
    <2>5. ASSUME NEW f \in Editor!Fields, Editor!TypeField(f) PROVE EditorInv'
      <3>1. /\ DOMAIN ui' = DOMAIN ui /\ ui'.open = ui.open /\ ui'.editing = ui.editing
            /\ ui'.kind = ui.kind /\ ui'.auth = ui.auth /\ ui'.typed = ui.typed \cup {f}
            /\ ui'.form = [ui.form EXCEPT ![f] = "typed"]
        BY Zenon, <2>5 DEF Editor!TypeField, EditorFields
      <3>2. DOMAIN ui'.form = Editor!Fields /\ ui'.form[f] = "typed"
            /\ \A g \in Editor!Fields \ {f} : ui'.form[g] = ui.form[g]
        BY <3>1 DEF EditorFields
      <3>3. EditorFields' BY <3>1, <3>2 DEF EditorFields, Editor!Fields
      <3>4. EditorStored' BY <1>2 DEF EditorStored
      <3>5. EditorShows' BY <1>2, <3>1, <3>2 DEF EditorShows, Editor!Stored
      <3> QED BY <3>3, <3>4, <3>5
    <2>6. CASE UNCHANGED Editor!vars
      <3>1. ui' = ui BY <2>6 DEF Editor!vars
      <3>2. EditorFields' BY <3>1 DEF EditorFields
      <3>3. EditorStored' BY <1>2 DEF EditorStored
      <3>4. EditorShows' BY <1>2, <3>1 DEF EditorShows
      <3> QED BY <2>1, <3>2, <3>3, <3>4
    <2> QED
      BY <1>1, <2>1, <2>2, <2>3, <2>4, <2>5, <2>6, EditorOpens DEF Editor!Next, Editor!Dialog
  <1>3. Editor!HandleSave \/ back' = back
    BY Zenon DEF Editor!Next, Editor!Dialog, Editor!OnCancel, Editor!SelectTab, Editor!SelectAuth,
       Editor!TypeField, Editor!OpenToEdit, Editor!OpenToCreate, Editor!vars
  <1> QED BY <1>1, <1>2, <1>3

\* What the invariant says of the form.
THEOREM EditorSays == EditorInv => Editor!TypeOK /\ Editor!ShownBelongs
  BY DEF EditorInv, EditorFields, EditorStored, Editor!TypeOK, Editor!ShownBelongs

-----------------------------------------------------------------------------
\* MusicPlayer.tla
\* The constants of the page.
LEMMA PlayerConstants == Bound \in Nat \ {0} /\ Nothing \notin Things /\ IsFiniteSet(Things)
  BY PagesAssumption

\* The lists of the page are the lists ListsProofs is about.
LEMMA PlayerLists ==
  /\ \A s, out : Player!Without(s, out) = Without(s, out)
  /\ \A s : Player!Range(s) = Range(s)
  <1>1. \A s, out : Player!Without(s, out) = Without(s, out) BY DEF Player!Without, Without
  <1>2. \A s : Player!Range(s) = Range(s) BY DEF Player!Range, Range
  <1> QED BY <1>1, <1>2

\* A set of the page has the size it has everywhere.
LEMMA PlayerSize == \A S : Player!Cardinality(S) = Cardinality(S)
  BY DEF Player!Cardinality, Cardinality

\* Nothing plays at first.
THEOREM PlayerInit == Player!Init => PlayerInv
  <1> SUFFICES ASSUME Player!Init PROVE PlayerInv OBVIOUS
  <1>1. /\ ui = [track |-> Nothing, playing |-> FALSE, lyrics |-> Nothing, playlist |-> <<>>,
                 mode |-> 1, history |-> <<>>, volume |-> 1, muted |-> FALSE, hasty |-> FALSE]
        /\ calls = {} /\ back = FALSE
    BY DEF Player!Init
  <1>2. /\ DOMAIN ui = {"track", "playing", "lyrics", "playlist", "mode", "history", "volume",
                        "muted", "hasty"}
        /\ ui.track = Nothing /\ ui.lyrics = Nothing /\ ui.history = <<>> /\ ui.playlist = <<>>
        /\ ui.mode = 1 /\ ui.playing = FALSE /\ ui.hasty = FALSE
    BY <1>1
  <1>3. /\ <<>> \in Seq(Things) /\ Len(<<>>) <= Bound
        /\ FALSE \in BOOLEAN /\ 1 \in 1 .. 3
    BY PlayerConstants
  <1>4. PlayerFields BY Zenon, <1>1, <1>2, <1>3 DEF PlayerFields
  <1> QED BY <1>1, <1>2, <1>4 DEF PlayerInv, PlayerHistory, PlayerLyrics, Player!SoundIsShown,
             Distinct

\* A track is asked for, from the lists, the buttons or the end of another.
LEMMA PlayerAsks ==
  ASSUME PlayerInv, NEW t \in Things, Player!Ask(Player!Play("url", t)), back' \in {FALSE, back},
         ui' = [ui EXCEPT !.hasty = @ \/ calls # {}]
  PROVE  PlayerInv'
  <1> DEFINE c == Player!Play("url", t)
  <1>1. calls' = calls \cup {c} BY DEF Player!Ask
  <1>2. c.track = t /\ c.step = "url" BY DEF Player!Play
  <1> HIDE DEF c
  <1>3. /\ DOMAIN ui' = DOMAIN ui /\ ui'.track = ui.track /\ ui'.mode = ui.mode
        /\ ui'.playing = ui.playing /\ ui'.playlist = ui.playlist /\ ui'.history = ui.history
        /\ ui'.lyrics = ui.lyrics /\ ui'.hasty \in BOOLEAN
        /\ ~ui'.hasty => ~ui.hasty /\ calls = {}
    BY Zenon DEF PlayerInv, PlayerFields
  <1>4. PlayerFields' BY Zenon, <1>1, <1>2, <1>3 DEF PlayerInv, PlayerFields
  <1>5. PlayerHistory' BY <1>3 DEF PlayerInv, PlayerHistory
  <1>6. PlayerLyrics' BY <1>1, <1>2, <1>3 DEF PlayerInv, PlayerLyrics
  <1>7. Player!SoundIsShown' BY Zenon, <1>3 DEF PlayerInv, PlayerFields, Player!SoundIsShown
  <1> QED BY <1>4, <1>5, <1>6, <1>7 DEF PlayerInv

\* What Rejected leaves of the calls.
LEMMA PlayerRejects ==
  ASSUME PlayerInv, NEW c \in Player!Rejected
  PROVE  /\ c.track \in Things /\ c.step \in {"url", "lyrics"}
         /\ \E d \in calls : d.track = c.track /\ (c.step = "url" => c = d) /\ (c.step # "url" => d.step # "url")
  <1>1. PICK d \in calls : c = IF d.step = "sound" THEN Player!Play("lyrics", d.track) ELSE d
    BY DEF Player!Rejected
  <1>2. d.track \in Things /\ d.step \in {"url", "sound", "lyrics"}
    BY DEF PlayerInv, PlayerFields
  <1>3. CASE d.step = "sound" BY <1>1, <1>2, <1>3 DEF Player!Play
  <1>4. CASE d.step # "sound" BY <1>1, <1>2, <1>4
  <1> QED BY <1>3, <1>4

\* The track that has an address is put in front of the history.
LEMMA PlayerHeads ==
  ASSUME PlayerInv, NEW t \in Things
  PROVE  LET l == <<t>> \o Player!Without(ui.history, {t})
             h == SubSeq(l, 1, IF Len(l) < Bound THEN Len(l) ELSE Bound)
         IN  h \in Seq(Things) /\ h # <<>> /\ Head(h) = t /\ Distinct(h) /\ Len(h) <= Bound
  <1> DEFINE w == Player!Without(ui.history, {t})
             l == <<t>> \o w
             n == IF Len(l) < Bound THEN Len(l) ELSE Bound
  <1>1. w \in Seq(Things) BY WithoutRange, PlayerLists DEF PlayerInv, PlayerFields
  <1> HIDE DEF w
  <1>2. Len(l) \in Nat \ {0}
    <2>1. <<t>> \in Seq(Things) /\ Len(<<t>>) = 1 OBVIOUS
    <2> QED BY <1>1, <2>1, ConcatProperties
  <1> HIDE DEF l
  <1>3. n \in {Len(l), Bound} /\ n <= Len(l) /\ n <= Bound
    BY <1>2, PlayerConstants
  <1> HIDE DEF n
  <1>4. n \in 1 .. Len(l)
    <2>1. Bound \in Nat \ {0} BY PlayerConstants
    <2> QED BY <1>2, <1>3, <2>1
  <1>5. ui.history \in Seq(Things) /\ Distinct(ui.history)
    BY DEF PlayerInv, PlayerFields, PlayerHistory
  <1> DEFINE h == SubSeq(l, 1, n)
  <1>6. h \in Seq(Things) /\ h # <<>> /\ Len(h) = n /\ Head(h) = t /\ Distinct(h)
    BY <1>4, <1>5, FrontOfDistinct, PlayerLists DEF l, w
  <1>7. h \in Seq(Things) /\ h # <<>> /\ Head(h) = t /\ Distinct(h) /\ Len(h) <= Bound
    BY <1>3, <1>6
  <1> QED BY Zenon, <1>7 DEF n, l, w

\* A track that has its address comes on.
LEMMA PlayerComesOn == ASSUME PlayerInv, NEW c \in calls, Player!HaveURL(c) PROVE PlayerInv'
  <1> DEFINE l == <<c.track>> \o Player!Without(ui.history, {c.track})
             h == SubSeq(l, 1, IF Len(l) < Bound THEN Len(l) ELSE Bound)
             d == Player!Play("sound", c.track)
  <1>1. c.track \in Things BY DEF PlayerInv, PlayerFields
  <1>2. /\ h \in Seq(Things) /\ h # <<>> /\ Head(h) = c.track /\ Distinct(h)
        /\ Len(h) <= Bound
    BY Zenon, <1>1, PlayerHeads
  <1>3. /\ c.step = "url" /\ back' = FALSE /\ calls' = (Player!Rejected \ {c}) \cup {d}
        /\ ui' = [ui EXCEPT !.track = c.track, !.lyrics = Nothing,
                            !.playing = @ /\ ~Player!Awaiting, !.history = h]
    BY DEF Player!HaveURL
  <1>4. d.track = c.track /\ d.step = "sound" BY DEF Player!Play
  <1> HIDE DEF d, h
  <1>5. /\ DOMAIN ui' = DOMAIN ui /\ ui'.track = c.track /\ ui'.mode = ui.mode
        /\ ui'.playing \in BOOLEAN /\ ui'.playlist = ui.playlist /\ ui'.history = h
        /\ ui'.lyrics = Nothing /\ ui'.hasty = ui.hasty
    BY <1>3 DEF PlayerInv, PlayerFields
  <1>6. \A e \in calls' : e = d \/ (e \in Player!Rejected /\ e # c) BY <1>3
  <1>7. PlayerFields'
    BY Zenon, <1>1, <1>2, <1>3, <1>4, <1>5, <1>6, PlayerRejects DEF PlayerInv, PlayerFields
  <1>8. PlayerHistory' BY <1>2, <1>5 DEF PlayerHistory
  <1>9. PlayerLyrics'
    <2> SUFFICES ASSUME ~ui.hasty PROVE \A e \in calls' : e = d
      BY <1>4, <1>5 DEF PlayerLyrics
    <2>1. calls = {c} BY DEF PlayerInv, PlayerLyrics
    <2>2. \A e \in Player!Rejected : e = c BY <1>3, <2>1 DEF Player!Rejected
    <2> QED BY <1>6, <2>2
  <1>10. Player!SoundIsShown' BY <1>3 DEF Player!SoundIsShown
  <1> QED BY <1>7, <1>8, <1>9, <1>10 DEF PlayerInv

\* The other answers, and the end of what they answer.
LEMMA PlayerAnswers ==
  ASSUME PlayerInv, NEW c \in calls, Player!NoURL(c) \/ Player!SoundStarts(c) \/ Player!HaveLyrics(c)
  PROVE  PlayerInv'
  <1> USE DEF PlayerInv
  <1>1. /\ DOMAIN ui' = DOMAIN ui /\ ui'.track = ui.track /\ ui'.mode = ui.mode
        /\ ui'.playlist = ui.playlist /\ ui'.history = ui.history
        /\ ui'.hasty = ui.hasty
    BY DEF Player!NoURL, Player!SoundStarts, Player!HaveLyrics, PlayerFields
  <1>2. PlayerHistory' BY <1>1 DEF PlayerHistory
  <1>3. CASE Player!NoURL(c)
    <2>1. ui' = ui /\ back' = back /\ calls' = calls \ {c}
      BY <1>3 DEF Player!NoURL, Player!Answered
    <2> QED BY <1>2, <2>1 DEF PlayerFields, PlayerLyrics, Player!SoundIsShown
  <1>4. CASE Player!SoundStarts(c)
    <2> DEFINE d == Player!Play("lyrics", c.track)
    <2>1. d.track = c.track /\ d.step = "lyrics" BY DEF Player!Play
    <2>2. /\ c.step = "sound" /\ calls' = (calls \ {c}) \cup {d} /\ ui'.lyrics = ui.lyrics
          /\ ui'.playing \in BOOLEAN /\ back' = ui'.playing
      BY <1>4 DEF Player!SoundStarts, Player!Continue, PlayerFields
    <2> HIDE DEF d
    <2>3. PlayerFields' BY <1>1, <2>1, <2>2 DEF PlayerFields
    <2>4. PlayerLyrics' BY <1>1, <2>1, <2>2 DEF PlayerLyrics
    <2>5. Player!SoundIsShown' BY <2>2 DEF Player!SoundIsShown
    <2> QED BY <1>2, <2>3, <2>4, <2>5
  <1>5. CASE Player!HaveLyrics(c)
    <2>1. /\ c.step = "lyrics" /\ calls' = calls \ {c} /\ ui'.lyrics \in {c.track, ui.lyrics}
          /\ ui'.playing = ui.playing /\ back' = back
      BY <1>5 DEF Player!HaveLyrics, Player!Answered, PlayerFields
    <2>2. PlayerFields' BY <1>1, <2>1 DEF PlayerFields
    <2>3. PlayerLyrics' BY <1>1, <2>1 DEF PlayerLyrics
    <2>4. Player!SoundIsShown' BY <2>1 DEF Player!SoundIsShown
    <2> QED BY <1>2, <2>2, <2>3, <2>4
  <1> QED BY <1>3, <1>4, <1>5

\* Stop and go on.
LEMMA PlayerToggles == ASSUME PlayerInv, Player!TogglePlay PROVE PlayerInv'
  <1> USE DEF PlayerInv
  <1>1. /\ DOMAIN ui' = DOMAIN ui /\ ui'.track = ui.track /\ ui'.mode = ui.mode
        /\ ui'.playlist = ui.playlist /\ ui'.history = ui.history
        /\ ui'.hasty = ui.hasty /\ ui'.lyrics = ui.lyrics
        /\ ui'.playing \in BOOLEAN /\ back' = ui'.playing
        /\ calls' = Player!Rejected \/ calls' = calls
    BY Zenon DEF Player!TogglePlay, PlayerFields
  <1>2. PlayerFields'
    <2>1. \A c \in calls' : c.track \in Things /\ c.step \in {"url", "sound", "lyrics"}
      BY <1>1, PlayerRejects DEF PlayerFields
    <2> QED BY <1>1, <2>1 DEF PlayerFields
  <1>3. PlayerHistory' /\ Player!SoundIsShown' BY <1>1 DEF PlayerHistory, Player!SoundIsShown
  <1>4. PlayerLyrics'
    <2>1. CASE calls' = calls BY <1>1, <2>1 DEF PlayerLyrics
    <2>2. CASE calls' = Player!Rejected
      <3> SUFFICES ASSUME ~ui.hasty PROVE PlayerLyrics' BY <1>1 DEF PlayerLyrics
      <3>1. \A c, d \in Player!Rejected : c = d BY DEF Player!Rejected, PlayerLyrics
      <3>2. \A c \in Player!Rejected : c.step # "url" => c.track = ui.track
        BY PlayerRejects DEF PlayerLyrics
      <3> QED BY <1>1, <2>2, <3>1, <3>2 DEF PlayerLyrics
    <2> QED BY <1>1, <2>1, <2>2
  <1> QED BY <1>2, <1>3, <1>4

\* The button goes round the three modes.
LEMMA PlayerModes == ASSUME PlayerInv PROVE (ui.mode % Len(Player!Modes)) + 1 \in 1 .. 3
  <1> DEFINE m == ui.mode
  <1>1. m \in 1 .. 3 BY DEF PlayerInv, PlayerFields
  <1>2. Len(Player!Modes) = 3 BY DEF Player!Modes
  <1> HIDE DEF m
  <1>3. m % 3 \in 0 .. 2 BY <1>1
  <1>4. (m % 3) + 1 \in 1 .. 3 BY <1>3
  <1> QED BY <1>2, <1>4 DEF m

\* What moves neither the track nor a call: playlist, mode, volume and mute.
LEMMA PlayerTunes ==
  ASSUME PlayerInv, calls' = calls,
         \/ back' = back /\ \/ \E l \in Seq(Things) : ui' = [ui EXCEPT !.playlist = l]
                            \/ ui' = [ui EXCEPT !.mode = (@ % Len(Player!Modes)) + 1]
                            \/ \E v, m : ui' = [ui EXCEPT !.volume = v, !.muted = m]
                            \/ ui' = [ui EXCEPT !.muted = ~@]
                            \/ ui' = ui
         \/ back' = FALSE /\ ui' \in {ui, [ui EXCEPT !.playing = FALSE]}
  PROVE  PlayerInv'
  <1> USE DEF PlayerInv
  <1>1. (ui.mode % Len(Player!Modes)) + 1 \in 1 .. 3 BY Zenon, PlayerModes
  <1>2. /\ DOMAIN ui' = DOMAIN ui /\ ui'.track = ui.track /\ ui'.mode \in 1 .. 3
        /\ ui'.playlist \in Seq(Things) /\ ui'.history = ui.history
        /\ ui'.hasty = ui.hasty /\ ui'.lyrics = ui.lyrics
        /\ \/ ui'.playing = ui.playing /\ back' \in {back, FALSE}
           \/ ui'.playing = FALSE /\ back' = FALSE
    BY Zenon, <1>1 DEF PlayerFields
  <1>3. PlayerFields' BY Zenon, <1>2 DEF PlayerFields
  <1>4. PlayerHistory' BY Zenon, <1>2 DEF PlayerHistory
  <1>5. PlayerLyrics' BY Zenon, <1>2 DEF PlayerLyrics
  <1>6. Player!SoundIsShown' BY Zenon, <1>2 DEF Player!SoundIsShown
  <1> QED BY Zenon, <1>3, <1>4, <1>5, <1>6

\* A list of the tracks is one of tracks.
LEMMA PlayerListed ==
  ASSUME NEW l \in Player!Bijection(1 .. Cardinality(Things), Things) PROVE l \in Seq(Things)
  <1>1. Cardinality(Things) \in Nat BY PlayerConstants, FS_CardinalityType
  <1>2. l \in [1 .. Cardinality(Things) -> Things] BY DEF Player!Bijection, Player!Injection
  <1> QED BY <1>1, <1>2

\* A track of the playlist, if there are any.
LEMMA PlayerIndex ==
  ASSUME PlayerInv, ui.playlist # <<>>
  PROVE  /\ Player!Index \in 0 .. Len(ui.playlist)
         /\ ui.playlist[IF Player!Index >= Len(ui.playlist) THEN 1 ELSE Player!Index + 1] \in Things
         /\ ui.playlist[IF Player!Index <= 1 THEN Len(ui.playlist) ELSE Player!Index - 1] \in Things
  <1> DEFINE at == {i \in DOMAIN ui.playlist : ui.playlist[i] = ui.track}
  <1>1. at \subseteq Nat BY DEF PlayerInv, PlayerFields
  <1>2. Player!Index = Player!FirstOf(at) BY DEF Player!Index
  <1>3. Player!FirstOf(at) = 0 \/ Player!FirstOf(at) \in at
    BY <1>1, LeastElement DEF Player!FirstOf
  <1>4. Player!Index \in 0 .. Len(ui.playlist) BY <1>2, <1>3 DEF PlayerInv, PlayerFields
  <1> QED BY <1>4 DEF PlayerInv, PlayerFields

\* No step of the player leaves the invariant.
THEOREM PlayerNext == PlayerInv /\ [Player!Next]_Player!vars => PlayerInv'
  <1> SUFFICES ASSUME PlayerInv, [Player!Next]_Player!vars PROVE PlayerInv' OBVIOUS
  <1>1. ASSUME NEW t \in Things, Player!PlayTrack(t) PROVE PlayerInv'
    BY <1>1, PlayerAsks DEF Player!PlayTrack
  <1>2. ASSUME NEW i, ui.playlist[i] \in Things, Player!Step(i) PROVE PlayerInv'
    BY <1>1, <1>2 DEF Player!Step, PlayerInv, PlayerFields
  <1>3. CASE Player!PlayNext \/ Player!PlayPrev
    <2>1. ui.playlist # <<>> BY <1>3 DEF Player!PlayNext, Player!PlayPrev, Player!Step
    <2> QED BY <1>2, <1>3, <2>1, PlayerIndex DEF Player!PlayNext, Player!PlayPrev
  <1>4. CASE \/ Player!CyclePlayMode \/ Player!ToggleMute \/ Player!AudioError \/ UNCHANGED Player!vars
             \/ \E v \in {0, 1} : Player!SetVolume(v)
    <2>1. CASE Player!CyclePlayMode BY <2>1, PlayerTunes DEF Player!CyclePlayMode
    <2>2. CASE Player!ToggleMute BY <2>2, PlayerTunes DEF Player!ToggleMute
    <2>3. CASE Player!AudioError BY Zenon, <2>3, PlayerTunes DEF Player!AudioError
    <2>4. CASE UNCHANGED Player!vars BY <2>4, PlayerTunes DEF Player!vars
    <2>5. ASSUME NEW v \in {0, 1}, Player!SetVolume(v) PROVE PlayerInv'
      BY Zenon, <2>5, PlayerTunes DEF Player!SetVolume
    <2> QED BY <1>4, <2>1, <2>2, <2>3, <2>4, <2>5
  <1>5. CASE Player!TogglePlay BY <1>5, PlayerToggles
  <1>6. CASE Player!Lists
    <2>1. ASSUME NEW l \in Seq(Things), Player!SetPlaylist(l) PROVE PlayerInv'
      BY Zenon, <2>1, PlayerTunes DEF Player!SetPlaylist
    <2>2. \A t \in Things : <<t>> \in Seq(Things) OBVIOUS
    <2> QED BY Zenon, <1>1, <1>6, <2>1, <2>2, PlayerListed, PlayerSize DEF Player!Lists
  <1>7. CASE Player!AudioEnded
    <2>1. CASE UNCHANGED Player!vars BY <1>4, <2>1
    <2>2. CASE back' = FALSE /\ UNCHANGED <<ui, calls>> BY Zenon, <2>2, PlayerTunes
    <2>3. ASSUME NEW j \in DOMAIN ui.playlist, Player!Ask(Player!Play("url", ui.playlist[j])),
                 ui' = [ui EXCEPT !.hasty = @ \/ calls # {}], back' = FALSE
          PROVE  PlayerInv'
      <3>1. ui.playlist[j] \in Things BY DEF PlayerInv, PlayerFields
      <3> QED BY Zenon, <2>3, <3>1, PlayerAsks
    <2> QED BY Zenon, <1>7, <2>1, <2>2, <2>3 DEF Player!AudioEnded
  <1>8. CASE Player!Answer BY <1>8, PlayerComesOn, PlayerAnswers DEF Player!Answer
  <1> QED BY <1>3, <1>4, <1>5, <1>6, <1>7, <1>8 DEF Player!Next, Player!Buttons, Player!Keys

\* What the invariant says of the player.
THEOREM PlayerSays == PlayerInv => Player!TypeOK /\ Player!ShownBelongs /\ Player!SoundIsShown
  BY DEF PlayerInv, PlayerFields, PlayerHistory, PlayerLyrics, Player!TypeOK,
     Player!ShownBelongs, Distinct, Player!Modes

-----------------------------------------------------------------------------
\* TabBar.tla
\* The constants of the page.
LEMMA ToolsConstants == Bound \in Nat \ {0}
  BY PagesAssumption

\* Nothing runs at first.
THEOREM ToolsInit == Tools!Init => ToolsInv
  <1>1. Tools!Init => calls = {} /\ back = {} /\ ui = Tools!Fresh BY DEF Tools!Init
  <1>0. 0 \in 0 .. Bound BY ToolsConstants
  <1>4. Tools!Init => \A c \in calls : DOMAIN c = {"op", "word", "here"} BY <1>1
  <1>5. /\ DOMAIN Tools!Fresh = {"open", "remain", "running", "finished", "tick", "queued", "capturing",
                           "searching", "results", "twice", "left"}
        /\ Tools!Fresh.tick = 0 /\ Tools!Fresh.remain = 0 /\ Tools!Fresh.running = FALSE /\ Tools!Fresh.finished = FALSE
        /\ Tools!Fresh.left = FALSE /\ Tools!Fresh.capturing = FALSE /\ Tools!Fresh.searching = FALSE
        /\ Tools!Fresh.twice = FALSE
    BY DEF Tools!Fresh
  <1>2. Tools!Init => ToolsFields BY Zenon, <1>0, <1>1, <1>4, <1>5 DEF ToolsFields
  <1>3. Tools!Init => ToolsTicks /\ ToolsSpin
    BY <1>1 DEF ToolsTicks, ToolsSpin, ToolsOwn, Tools!Fresh
  <1> QED BY <1>2, <1>3 DEF ToolsInv

\* A call under way is one of this bar's.
LEMMA ToolsUnder == \A op : Tools!UnderWay(op) <=> ToolsOwn(op) # {}
  BY DEF Tools!UnderWay, Tools!CallsOf, ToolsOwn

\* The end of the last second.
LEMMA ToolsLast ==
  ASSUME ToolsInv, NEW r \in 0 .. Bound, Tools!LastSecond(r), UNCHANGED calls
  PROVE  ToolsInv'
  <1> USE DEF ToolsInv
  <1>1. /\ calls' = calls /\ DOMAIN ui' = DOMAIN ui /\ ui'.capturing = ui.capturing
        /\ ui'.searching = ui.searching /\ ui'.twice = ui.twice /\ ui'.left = ui.left
        /\ back' = back \ {ui.tick} /\ ui'.tick = ui.tick /\ ui'.remain = r
        /\ ui'.running = FALSE /\ ui'.finished = TRUE
    BY DEF Tools!LastSecond, ToolsFields
  <1>2. ToolsSpin' BY <1>1 DEF ToolsSpin, ToolsOwn
  <1>3. ToolsFields' BY Zenon, <1>1 DEF ToolsFields
  <1>4. ToolsTicks' BY <1>1 DEF ToolsTicks
  <1> QED BY <1>2, <1>3, <1>4

\* A tick is counted.
LEMMA ToolsTick ==
  ASSUME ToolsInv, Tools!Count, UNCHANGED calls
  PROVE  ToolsInv'
  <1> USE DEF ToolsInv
  <1>1. CASE ui.remain <= 1
    <2>1. 0 \in 0 .. Bound BY ToolsConstants
    <2>2. Tools!LastSecond(0) BY <1>1 DEF Tools!Count
    <2> QED BY <2>1, <2>2, ToolsLast
  <1>2. CASE ~(ui.remain <= 1)
    <2>1. /\ calls' = calls /\ DOMAIN ui' = DOMAIN ui /\ ui'.capturing = ui.capturing
          /\ ui'.searching = ui.searching /\ ui'.twice = ui.twice /\ ui'.left = ui.left
          /\ back' = back /\ ui'.tick = ui.tick /\ ui'.remain = ui.remain - 1
          /\ ui'.running = ui.running /\ ui'.finished = ui.finished
      BY Zenon, <1>2 DEF Tools!Count, ToolsFields
    <2>2. ui'.remain \in 1 .. Bound BY <1>2, <2>1, ToolsConstants DEF ToolsFields
    <2>3. ToolsSpin' BY <2>1 DEF ToolsSpin, ToolsOwn
    <2>4. ToolsFields' BY <2>1, <2>2, ToolsConstants DEF ToolsFields
    <2>5. ui.remain # 0 BY <1>2 DEF ToolsFields
    <2>6. ToolsTicks' BY <2>1, <2>2, <2>5 DEF ToolsTicks
    <2> QED BY <2>3, <2>4, <2>6
  <1> QED BY <1>1, <1>2

\* The buttons and ticks of the countdown.
LEMMA ToolsCount ==
  ASSUME ToolsInv,
         Tools!OpenCountdown \/ Tools!CdReset \/ Tools!CdTick \/ Tools!Render \/ \E s \in 1 .. Bound : Tools!CdStart(s)
  PROVE  ToolsInv'
  <1> USE DEF ToolsInv
  <1>1. ASSUME /\ calls' = calls /\ DOMAIN ui' = DOMAIN ui /\ ui'.capturing = ui.capturing
               /\ ui'.searching = ui.searching /\ ui'.twice = ui.twice /\ ui'.left = ui.left
        PROVE  ToolsSpin'
    BY <1>1 DEF ToolsSpin, ToolsOwn
  <1>2. CASE Tools!OpenCountdown \/ (Tools!CdTick /\ ui' = [ui EXCEPT !.queued = "tick"] /\ UNCHANGED back)
    <2>1. /\ calls' = calls /\ DOMAIN ui' = DOMAIN ui /\ ui'.capturing = ui.capturing
          /\ ui'.searching = ui.searching /\ ui'.twice = ui.twice /\ ui'.left = ui.left
          /\ back' = back /\ ui'.tick = ui.tick /\ ui'.remain = ui.remain
          /\ ui'.running = ui.running /\ ui'.finished = ui.finished
      BY <1>2 DEF Tools!OpenCountdown, Tools!CdTick, ToolsFields
    <2>2. ToolsFields' BY <2>1, ToolsConstants DEF ToolsFields
    <2>3. ToolsTicks' BY <2>1 DEF ToolsFields, ToolsTicks
    <2> QED BY <1>1, <2>1, <2>2, <2>3
  <1>3. CASE Tools!CdReset
    <2>1. /\ calls' = calls /\ DOMAIN ui' = DOMAIN ui /\ ui'.capturing = ui.capturing
          /\ ui'.searching = ui.searching /\ ui'.twice = ui.twice /\ ui'.left = ui.left
          /\ back' = back \ {ui.tick} /\ ui'.tick = ui.tick /\ ui'.remain = 0
          /\ ui'.running = FALSE /\ ui'.finished = FALSE
      BY <1>3 DEF Tools!CdReset, ToolsFields
    <2>4. 0 \in 0 .. Bound BY ToolsConstants
    <2>2. ToolsFields' BY Zenon, <2>1, <2>4 DEF ToolsFields
    <2>3. ToolsTicks' BY <2>1 DEF ToolsFields, ToolsTicks
    <2> QED BY <1>1, <2>1, <2>2, <2>3
  <1>4. CASE Tools!CdTick /\ Tools!Count BY <1>4, ToolsTick DEF Tools!CdTick
  <1>5. CASE Tools!Render
    <2>1. ui.remain \in 0 .. Bound BY DEF ToolsFields
    <2> QED BY <1>5, <2>1, ToolsTick, ToolsLast DEF Tools!Render
  <1>6. ASSUME NEW s \in 1 .. Bound, Tools!CdStart(s) PROVE ToolsInv'
    <2>1. /\ calls' = calls /\ DOMAIN ui' = DOMAIN ui /\ ui'.capturing = ui.capturing
          /\ ui'.searching = ui.searching /\ ui'.twice = ui.twice /\ ui'.left = ui.left
          /\ back' = (back \ {ui.tick}) \cup {1 - ui.tick} /\ ui'.tick = 1 - ui.tick
          /\ ui'.remain = s /\ ui'.running = TRUE /\ ui'.finished = FALSE
      BY Zenon, <1>6 DEF Tools!CdStart, ToolsFields
    <2>2. 1 - ui.tick \in {0, 1} BY DEF ToolsFields
    <2>3. (back \ {ui.tick}) \ {Tools!Gone} = {} BY DEF ToolsTicks
    <2>4. Tools!Gone \notin {0, 1} BY DEF Tools!Gone
    <2>5. ToolsFields'
      <3>1. back' \subseteq {0, 1, Tools!Gone} BY Zenon, <2>1, <2>2 DEF ToolsFields
      <3>2. ui'.remain \in 0 .. Bound BY <2>1, ToolsConstants
      <3> QED BY Zenon, <2>1, <2>2, <3>1, <3>2 DEF ToolsFields
    <2>6. back' \ {Tools!Gone} = {ui'.tick} BY <2>1, <2>2, <2>3, <2>4
    <2>7. Tools!Gone \in back' => Tools!Gone \in back BY <2>1, <2>2, <2>4
    <2>8. ToolsTicks' BY <2>1, <2>6, <2>7, ToolsConstants DEF ToolsTicks
    <2> QED BY <1>1, <2>1, <2>5, <2>8
  <1> QED BY <1>2, <1>3, <1>4, <1>5, <1>6 DEF Tools!CdTick

\* The next bar starts anew.
LEMMA ToolsReopen == ToolsInv /\ Tools!Reopen => ToolsInv'
  <1> SUFFICES ASSUME ToolsInv, Tools!Reopen PROVE ToolsInv' OBVIOUS
  <1> USE DEF ToolsInv
  <1>1. calls' = {[c EXCEPT !.here = FALSE] : c \in calls} BY DEF Tools!Reopen
  <1>2. \A d \in calls' : DOMAIN d = {"op", "word", "here"} /\ d.here = FALSE
    BY <1>1 DEF ToolsFields
  <1>3. /\ DOMAIN ui' = DOMAIN Tools!Fresh /\ ui'.running = FALSE /\ ui'.remain = 0
        /\ ui'.finished = FALSE /\ ui'.left = TRUE /\ ui'.tick = 0 /\ ui'.capturing = FALSE
        /\ ui'.searching = FALSE /\ ui'.twice = FALSE
    BY DEF Tools!Reopen, Tools!Fresh
  <1>4. (back \ {ui.tick}) \ {Tools!Gone} = {} BY DEF ToolsTicks
  <1>5. back' \subseteq {Tools!Gone} BY <1>4 DEF Tools!Reopen
  <1>0. 0 \in 0 .. Bound BY ToolsConstants
  <1>6. ToolsFields' BY Zenon, <1>0, <1>2, <1>3, <1>5 DEF ToolsFields, Tools!Fresh
  <1>7. ToolsTicks' BY <1>3, <1>5 DEF ToolsTicks
  <1>8. \A op : ToolsOwn(op)' = {} BY <1>2 DEF ToolsOwn
  <1>9. ToolsSpin' BY <1>3, <1>8 DEF ToolsSpin
  <1> QED BY <1>6, <1>7, <1>9

\* A call that no bar waits for ends.
LEMMA ToolsLeft ==
  ASSUME ToolsInv, NEW c \in calls, Tools!LeftEnds(c)
  PROVE  ToolsInv'
  <1>1. ui' = ui /\ back' = back /\ calls' = calls \ {c} /\ ~c.here
    BY DEF Tools!LeftEnds, Tools!Answered
  <1>2. \A op : ToolsOwn(op)' = ToolsOwn(op) BY <1>1 DEF ToolsOwn
  <1>3. ToolsFields' BY <1>1 DEF ToolsInv, ToolsFields
  <1>4. ToolsTicks' BY <1>1 DEF ToolsInv, ToolsTicks
  <1>5. ToolsSpin' BY <1>1, <1>2 DEF ToolsInv, ToolsSpin
  <1> QED BY <1>3, <1>4, <1>5 DEF ToolsInv

\* A screenshot is asked for or ends.
LEMMA ToolsCaptures ==
  ASSUME ToolsInv,
         \/ \E mode \in {"region", "window"}, byKey \in BOOLEAN : Tools!HandleCapture(mode, byKey)
         \/ \E c \in calls : Tools!CaptureEnds(c)
  PROVE  ToolsInv'
  <1> USE DEF ToolsInv
  <1>1. /\ back' = back /\ DOMAIN ui' = DOMAIN ui /\ ui'.tick = ui.tick /\ ui'.remain = ui.remain
        /\ ui'.running = ui.running /\ ui'.finished = ui.finished /\ ui'.searching = ui.searching
        /\ ui'.left = ui.left
    BY Zenon DEF Tools!HandleCapture, Tools!CaptureEnds, ToolsFields
  <1>2. ToolsTicks' BY <1>1 DEF ToolsTicks
  <1>3. ASSUME NEW mode \in {"region", "window"}, NEW byKey \in BOOLEAN, Tools!HandleCapture(mode, byKey)
        PROVE  ToolsInv'
    <2> DEFINE c == [op |-> "capture", word |-> mode, here |-> TRUE]
    <2>1. c.op = "capture" /\ c.here /\ DOMAIN c = {"op", "word", "here"} OBVIOUS
    <2>2. /\ calls' = calls \cup {c} /\ ui'.capturing = TRUE /\ ui'.twice \in BOOLEAN
          /\ ~ui'.twice => ~ui.twice /\ ToolsOwn("capture") = {}
      BY Zenon, <1>3, ToolsUnder DEF Tools!HandleCapture, Tools!Ask, ToolsFields
    <2> HIDE DEF c
    <2>3. ToolsFields' BY Zenon, <1>1, <2>1, <2>2 DEF ToolsFields
    <2>4. ToolsOwn("search")' = ToolsOwn("search") BY <2>1, <2>2 DEF ToolsOwn
    <2>5. ToolsOwn("capture")' = ToolsOwn("capture") \cup {c} BY <2>1, <2>2 DEF ToolsOwn
    <2>6. ToolsSpin' BY <1>1, <2>2, <2>4, <2>5 DEF ToolsSpin
    <2> QED BY <1>2, <2>3, <2>6
  <1>4. ASSUME NEW c \in calls, Tools!CaptureEnds(c) PROVE ToolsInv'
    <2>1. calls' = calls \ {c} /\ c.op = "capture" /\ c.here /\ ui'.capturing = FALSE /\ ui'.twice = ui.twice
      BY <1>4 DEF Tools!CaptureEnds, Tools!Answered, ToolsFields
    <2>2. ToolsFields' BY Zenon, <1>1, <2>1 DEF ToolsFields
    <2>3. ToolsOwn("search")' = ToolsOwn("search") BY <2>1 DEF ToolsOwn
    <2>4. ToolsOwn("capture")' = ToolsOwn("capture") \ {c} /\ c \in ToolsOwn("capture")
      BY <2>1 DEF ToolsOwn
    <2>5. ToolsSpin' BY <1>1, <2>1, <2>3, <2>4 DEF ToolsSpin
    <2> QED BY <1>2, <2>2, <2>5
  <1> QED BY <1>3, <1>4

\* A search is asked for or ends.
LEMMA ToolsSearches ==
  ASSUME ToolsInv,
         \/ \E w \in Things, byKey \in BOOLEAN : Tools!HandleSearch(w, byKey)
         \/ \E c \in calls : Tools!SearchEnds(c)
  PROVE  ToolsInv'
  <1> USE DEF ToolsInv
  <1>1. /\ back' = back /\ DOMAIN ui' = DOMAIN ui /\ ui'.tick = ui.tick /\ ui'.remain = ui.remain
        /\ ui'.running = ui.running /\ ui'.finished = ui.finished /\ ui'.capturing = ui.capturing
        /\ ui'.left = ui.left
    BY Zenon DEF Tools!HandleSearch, Tools!SearchEnds, ToolsFields
  <1>2. ToolsTicks' BY <1>1 DEF ToolsTicks
  <1>3. ASSUME NEW w \in Things, NEW byKey \in BOOLEAN, Tools!HandleSearch(w, byKey) PROVE ToolsInv'
    <2> DEFINE c == [op |-> "search", word |-> w, here |-> TRUE]
    <2>1. c.op = "search" /\ c.here /\ DOMAIN c = {"op", "word", "here"} OBVIOUS
    <2>2. /\ calls' = calls \cup {c} /\ ui'.searching = TRUE /\ ui'.twice \in BOOLEAN
          /\ ~ui'.twice => ~ui.twice /\ ToolsOwn("search") = {}
      BY Zenon, <1>3, ToolsUnder DEF Tools!HandleSearch, Tools!Ask, ToolsFields
    <2> HIDE DEF c
    <2>3. ToolsFields' BY Zenon, <1>1, <2>1, <2>2 DEF ToolsFields
    <2>4. ToolsOwn("capture")' = ToolsOwn("capture") BY <2>1, <2>2 DEF ToolsOwn
    <2>5. ToolsOwn("search")' = ToolsOwn("search") \cup {c} BY <2>1, <2>2 DEF ToolsOwn
    <2>6. ToolsSpin' BY <1>1, <2>2, <2>4, <2>5 DEF ToolsSpin
    <2> QED BY <1>2, <2>3, <2>6
  <1>4. ASSUME NEW c \in calls, Tools!SearchEnds(c) PROVE ToolsInv'
    <2>1. calls' = calls \ {c} /\ c.op = "search" /\ c.here /\ ui'.searching = FALSE /\ ui'.twice = ui.twice
      BY Zenon, <1>4 DEF Tools!SearchEnds, Tools!Answered, ToolsFields
    <2>2. ToolsFields' BY Zenon, <1>1, <2>1 DEF ToolsFields
    <2>3. ToolsOwn("capture")' = ToolsOwn("capture") BY <2>1 DEF ToolsOwn
    <2>4. ToolsOwn("search")' = ToolsOwn("search") \ {c} /\ c \in ToolsOwn("search")
      BY <2>1 DEF ToolsOwn
    <2>5. ToolsSpin' BY <1>1, <2>1, <2>3, <2>4 DEF ToolsSpin
    <2> QED BY <1>2, <2>2, <2>5
  <1> QED BY <1>3, <1>4

\* No step of the bar leaves the invariant.
THEOREM ToolsNext == ToolsInv /\ [Tools!Next]_Tools!vars => ToolsInv'
  <1> SUFFICES ASSUME ToolsInv, [Tools!Next]_Tools!vars PROVE ToolsInv' OBVIOUS
  <1>1. CASE UNCHANGED Tools!vars
    BY <1>1 DEF Tools!vars, ToolsInv, ToolsFields, ToolsTicks, ToolsSpin, ToolsOwn
  <1>2. CASE Tools!Countdown \/ Tools!CdTick \/ Tools!Render
    BY <1>2, ToolsCount DEF Tools!Countdown
  <1>3. CASE Tools!Screenshot \/ Tools!Shortcut \/ \E c \in calls : Tools!CaptureEnds(c)
    BY Zenon, <1>3, ToolsCaptures DEF Tools!Screenshot, Tools!Shortcut
  <1>4. CASE Tools!Search \/ Tools!Answer BY <1>4, ToolsSearches DEF Tools!Search, Tools!Answer
  <1>5. CASE Tools!Reopen \/ \E c \in calls : Tools!LeftEnds(c) BY <1>5, ToolsReopen, ToolsLeft
  <1> QED BY <1>1, <1>2, <1>3, <1>4, <1>5 DEF Tools!Next

\* What the invariant says of the bar.
THEOREM ToolsSays == ToolsInv => Tools!TypeOK /\ Tools!WorkOwned
  BY Zenon, ToolsUnder DEF ToolsInv, ToolsFields, ToolsTicks, ToolsSpin, Tools!TypeOK, Tools!WorkOwned

-----------------------------------------------------------------------------
\* MusicPanel.tla
\* The constants of the page.
LEMMA MusicConstants == Bound \in Nat \ {0}
  BY PagesAssumption

\* What a call is made of.
LEMMA MusicWork ==
  \A op, of, nth, held : /\ Music!Work(op, of, nth, held).op = op /\ Music!Work(op, of, nth, held).of = of
                          /\ Music!Work(op, of, nth, held).page = nth
                          /\ Music!Work(op, of, nth, held).held = held
  BY DEF Music!Work

\* The search tab, empty.
THEOREM MusicInit == Music!Init => MusicInv
  <1> SUFFICES ASSUME Music!Init PROVE MusicInv OBVIOUS
  <1>1. 1 \in 1 .. Bound BY MusicConstants
  <1>2. MusicFields BY <1>1 DEF Music!Init, MusicFields
  <1>3. MusicTracks BY DEF Music!Init, MusicTracks, Music!CallsOf
  <1>4. MusicLists BY DEF Music!Init, MusicLists, Music!CallsOf
  <1> QED BY <1>2, <1>3, <1>4 DEF MusicInv

\* The next page makes the run longer.
LEMMA MusicLonger ==
  ASSUME NEW w, NEW nth \in Nat PROVE MusicRun(w, nth) \cup {<<w, nth + 1>>} = MusicRun(w, nth + 1)
  <1>1. 1 .. (nth + 1) = (1 .. nth) \cup {nth + 1} OBVIOUS
  <1> QED BY <1>1 DEF MusicRun

\* A search, and the page behind it.
LEMMA MusicSearches ==
  ASSUME MusicInv, (\E w \in Things : Music!HandleSearch(w)) \/ Music!HandleLoadMore
  PROVE  MusicInv'
  <1> USE DEF MusicInv
  <1>1. ASSUME NEW w \in Things, Music!HandleSearch(w) PROVE MusicInv'
    <2> DEFINE n == Music!Work("search", w, 1, {})
               quick == Music!CallsOf({"search", "more"}) # {}
    <2>1. /\ ~ui.hasty /\ calls' = calls \cup {n} /\ back' = back
          /\ ui' = [ui EXCEPT !.tab = "search", !.word = w, !.searching = TRUE, !.hasty = quick]
      BY Zenon, <1>1 DEF Music!HandleSearch, Music!Ask
    <2>2. n.op = "search" /\ n.of = w BY MusicWork
    <2>3. quick \in BOOLEAN /\ (~quick => \A c \in calls : c.op \notin {"search", "more"})
      BY DEF Music!CallsOf
    <2> HIDE DEF n, quick
    <2>4. /\ DOMAIN ui' = DOMAIN ui /\ ui'.word = w /\ ui'.tracks = ui.tracks /\ ui'.page = ui.page
          /\ ui'.more = ui.more /\ ui'.loadingMore = ui.loadingMore /\ ui'.lists = ui.lists
          /\ ui'.selected = ui.selected /\ ui'.shown = ui.shown /\ ui'.hasty = quick
      BY <2>1 DEF MusicFields
    <2>5. MusicFields' BY <2>1, <2>2, <2>3, <2>4 DEF MusicFields
    <2>6. MusicTracks' BY <2>1, <2>2, <2>3, <2>4 DEF MusicTracks, Music!CallsOf
    <2>7. MusicLists' BY <2>1, <2>2, <2>4 DEF MusicLists, Music!CallsOf
    <2> QED BY <2>5, <2>6, <2>7
  <1>2. CASE Music!HandleLoadMore
    <2> DEFINE n == Music!Work("more", ui.word, ui.page + 1, ui.tracks)
               quick == Music!CallsOf({"search"}) # {}
    <2>1. /\ ~ui.hasty /\ ui.more /\ ~ui.loadingMore /\ ui.page < Bound
          /\ calls' = calls \cup {n} /\ back' = back
          /\ ui' = [ui EXCEPT !.loadingMore = TRUE, !.hasty = quick]
      BY <1>2 DEF Music!HandleLoadMore, Music!Ask
    <2>2. n.op = "more" /\ n.of = ui.word /\ n.page = ui.page + 1 /\ n.held = ui.tracks
      BY MusicWork
    <2>3. quick \in BOOLEAN /\ (~quick => \A c \in calls : c.op # "search") BY DEF Music!CallsOf
    <2>4. ui.page + 1 \in 1 .. Bound BY <2>1, MusicConstants DEF MusicFields
    <2> HIDE DEF n, quick
    <2>5. /\ DOMAIN ui' = DOMAIN ui /\ ui'.word = ui.word /\ ui'.tracks = ui.tracks
          /\ ui'.page = ui.page /\ ui'.more = ui.more /\ ui'.loadingMore = TRUE
          /\ ui'.lists = ui.lists /\ ui'.selected = ui.selected /\ ui'.shown = ui.shown
          /\ ui'.hasty = quick
      BY Zenon, <2>1 DEF MusicFields
    <2>6. \A c \in calls : c.op # "more" BY <2>1 DEF MusicTracks, Music!CallsOf
    <2>7. MusicFields' BY <2>1, <2>2, <2>3, <2>4, <2>5 DEF MusicFields
    <2>8. MusicTracks' BY <2>1, <2>2, <2>3, <2>5, <2>6 DEF MusicTracks, Music!CallsOf
    <2>9. MusicLists' BY <2>1, <2>2, <2>5 DEF MusicLists, Music!CallsOf
    <2> QED BY <2>7, <2>8, <2>9
  <1> QED BY <1>1, <1>2

\* Their answers.
LEMMA MusicFound ==
  ASSUME MusicInv, NEW c \in calls, Music!AnswerSearch(c) \/ Music!AnswerMore(c)
  PROVE  MusicInv'
  <1> USE DEF MusicInv
  <1>1. calls' = calls \ {c} /\ back' = back /\ c.op \in {"search", "more"}
    BY Zenon DEF Music!AnswerSearch, Music!AnswerMore, Music!Answered
  <1>2. ~ui.hasty => \A d \in calls' : d.op \notin {"search", "more"}
    BY <1>1 DEF MusicTracks, Music!CallsOf
  <1>3. CASE Music!AnswerSearch(c) /\ \E more \in BOOLEAN :
             ui' = [ui EXCEPT !.tracks = {<<c.of, 1>>}, !.page = 1, !.more = more, !.searching = FALSE]
    <2> DEFINE t == {<<c.of, 1>>}
    <2>1. PICK more \in BOOLEAN :
             ui' = [ui EXCEPT !.tracks = t, !.page = 1, !.more = more, !.searching = FALSE]
      BY Zenon, <1>3
    <2>2. t = MusicRun(c.of, 1) /\ t # {}
      <3>1. 1 .. 1 = {1} OBVIOUS
      <3> QED BY <3>1 DEF MusicRun
    <2> HIDE DEF t
    <2>3. c.op = "search" BY Zenon, <1>3 DEF Music!AnswerSearch
    <2>4. /\ DOMAIN ui' = DOMAIN ui /\ ui'.word = ui.word /\ ui'.tracks = t /\ ui'.page = 1
          /\ ui'.more = more /\ ui'.loadingMore = ui.loadingMore /\ ui'.lists = ui.lists
          /\ ui'.selected = ui.selected /\ ui'.shown = ui.shown /\ ui'.hasty = ui.hasty
      BY <2>1 DEF MusicFields
    <2>5. 1 \in 1 .. Bound BY MusicConstants
    <2>6. MusicFields' BY <1>1, <2>4, <2>5 DEF MusicFields
    <2>7. MusicTracks'
      <3> SUFFICES ASSUME ~ui.hasty PROVE MusicTracks' BY <2>4 DEF MusicTracks
      <3>1. c.of = ui.word /\ ui.word \in Things \cup {Nothing}
        BY <2>3 DEF MusicTracks, MusicFields, Music!CallsOf
      <3> QED BY <1>2, <2>2, <2>4, <3>1 DEF MusicTracks, Music!CallsOf
    <2>8. MusicLists' BY <1>1, <2>4 DEF MusicLists, Music!CallsOf
    <2> QED BY <2>6, <2>7, <2>8
  <1>4. CASE ui' = [ui EXCEPT !.searching = FALSE, !.hasty = TRUE]
    <2>1. /\ DOMAIN ui' = DOMAIN ui /\ ui'.word = ui.word /\ ui'.page = ui.page
          /\ ui'.lists = ui.lists /\ ui'.hasty = TRUE
      BY <1>4 DEF MusicFields
    <2>2. TRUE \in BOOLEAN OBVIOUS
    <2>3. MusicFields' BY Zenon, <1>1, <2>1, <2>2 DEF MusicFields
    <2> QED BY <2>1, <2>3 DEF MusicTracks, MusicLists
  <1>5. CASE Music!AnswerMore(c) /\ \E more \in BOOLEAN :
             ui' = [ui EXCEPT !.tracks = c.held \cup {<<c.of, c.page>>}, !.page = c.page,
                              !.more = more, !.loadingMore = FALSE]
    <2> DEFINE t == c.held \cup {<<c.of, c.page>>}
    <2>1. PICK more \in BOOLEAN :
             ui' = [ui EXCEPT !.tracks = t, !.page = c.page, !.more = more, !.loadingMore = FALSE]
      BY Zenon, <1>5
    <2>2. c.op = "more" /\ t # {} BY Zenon, <1>5 DEF Music!AnswerMore
    <2>3. ~ui.hasty => t = MusicRun(ui.word, c.page)
      <3> SUFFICES ASSUME ~ui.hasty PROVE t = MusicRun(ui.word, c.page) OBVIOUS
      <3>1. /\ c.of = ui.word /\ c.held = ui.tracks /\ c.page = ui.page + 1 /\ ui.tracks # {}
            /\ Music!CallsOf({"search"}) = {}
        BY <2>2 DEF MusicTracks, Music!CallsOf
      <3>2. ui.tracks = MusicRun(ui.word, ui.page) BY <3>1 DEF MusicTracks
      <3>3. ui.page \in Nat BY DEF MusicFields
      <3> QED BY <3>1, <3>2, <3>3, MusicLonger
    <2> HIDE DEF t
    <2>4. /\ DOMAIN ui' = DOMAIN ui /\ ui'.word = ui.word /\ ui'.tracks = t /\ ui'.page = c.page
          /\ ui'.more = more /\ ui'.loadingMore = FALSE /\ ui'.lists = ui.lists
          /\ ui'.selected = ui.selected /\ ui'.shown = ui.shown /\ ui'.hasty = ui.hasty
      BY <2>1 DEF MusicFields
    <2>5. MusicFields' BY <1>1, <2>2, <2>4 DEF MusicFields
    <2>6. MusicTracks'
      <3> SUFFICES ASSUME ~ui.hasty PROVE MusicTracks' BY <2>4 DEF MusicTracks
      <3>1. ui.word \in Things \cup {Nothing} BY DEF MusicFields
      <3> QED BY <1>2, <2>2, <2>3, <2>4, <3>1 DEF MusicTracks, Music!CallsOf
    <2>7. MusicLists' BY <1>1, <2>4 DEF MusicLists, Music!CallsOf
    <2> QED BY <2>5, <2>6, <2>7
  <1>6. CASE Music!AnswerMore(c) /\ \/ ui' = [ui EXCEPT !.more = FALSE, !.loadingMore = FALSE]
                                    \/ ui' = [ui EXCEPT !.loadingMore = FALSE]
    <2>1. /\ DOMAIN ui' = DOMAIN ui /\ ui'.word = ui.word /\ ui'.tracks = ui.tracks
          /\ ui'.page = ui.page /\ (ui'.more => ui.more) /\ ui'.lists = ui.lists
          /\ ui'.selected = ui.selected /\ ui'.shown = ui.shown /\ ui'.hasty = ui.hasty
      BY Zenon, <1>6 DEF MusicFields
    <2>2. c.op = "more" BY Zenon, <1>6 DEF Music!AnswerMore
    <2>3. MusicFields' BY <1>1, <2>1 DEF MusicFields
    <2>4. MusicTracks'
      <3> SUFFICES ASSUME ~ui.hasty PROVE MusicTracks' BY <2>1 DEF MusicTracks
      <3>1. Music!CallsOf({"search"}) = {} BY <2>2 DEF MusicTracks, Music!CallsOf
      <3>2. Music!CallsOf({"search"})' = {} /\ Music!CallsOf({"more"})' = {} /\ Music!CallsOf({"search", "more"})' = {}
        BY <1>2 DEF Music!CallsOf
      <3> QED BY <2>1, <3>1, <3>2 DEF MusicTracks
    <2>5. MusicLists' BY <1>1, <2>1 DEF MusicLists, Music!CallsOf
    <2> QED BY <2>3, <2>4, <2>5
  <1> QED BY Zenon, <1>3, <1>4, <1>5, <1>6 DEF Music!AnswerSearch, Music!AnswerMore

\* What is not about searches leaves them alone.
LEMMA MusicElse ==
  ASSUME MusicInv, DOMAIN ui' = DOMAIN ui, ui'.word = ui.word, ui'.tracks = ui.tracks,
         ui'.page = ui.page, ui'.more = ui.more, ui'.loadingMore = ui.loadingMore,
         ui'.lists \subseteq Things, DOMAIN back' = DOMAIN back, back'.lists \subseteq Things,
         ui'.hasty \in BOOLEAN, ~ui'.hasty => ~ui.hasty,
         Music!CallsOf({"search", "more"})' = Music!CallsOf({"search", "more"})
  PROVE  MusicFields' /\ MusicTracks'
  <1>1. \A c : c \in calls' /\ c.op \in {"search", "more"} <=> c \in calls /\ c.op \in {"search", "more"}
    BY DEF Music!CallsOf
  <1>2. MusicFields' BY <1>1 DEF MusicInv, MusicFields
  <1>3. MusicTracks' BY <1>1 DEF MusicInv, MusicTracks, Music!CallsOf
  <1> QED BY <1>2, <1>3

\* Tabs, the offline cache, and the playlists there are.
LEMMA MusicTabs ==
  ASSUME MusicInv,
         \/ \E t \in Music!Tabs : Music!SelectTab(t)
         \/ Music!ChangeOffline
         \/ \E p \in Things : Music!HandleCreatePlaylist(p) \/ Music!HandleDeletePlaylist(p) \/ Music!HandleAddToPlaylist(p)
         \/ Music!HandleRemoveFromPlaylist
         \/ UNCHANGED Music!vars
  PROVE  MusicInv'
  <1>1. ASSUME NEW n, calls' \subseteq calls \cup {n}, calls \subseteq calls',
               n.op \notin {"search", "more", "tracks"},
               \/ \E t : ui' = [ui EXCEPT !.tab = t]
               \/ ui' = ui,
               DOMAIN back' = DOMAIN back, back'.lists \subseteq Things, ~ui.hasty => ~back'.torn
        PROVE  MusicInv'
    <2>1. /\ DOMAIN ui' = DOMAIN ui /\ ui'.word = ui.word /\ ui'.tracks = ui.tracks
          /\ ui'.page = ui.page /\ ui'.more = ui.more /\ ui'.loadingMore = ui.loadingMore
          /\ ui'.lists = ui.lists /\ ui'.selected = ui.selected /\ ui'.shown = ui.shown
          /\ ui'.hasty = ui.hasty
      BY <1>1 DEF MusicInv, MusicFields
    <2>2. Music!CallsOf({"search", "more"})' = Music!CallsOf({"search", "more"})
          /\ Music!CallsOf({"tracks"})' = Music!CallsOf({"tracks"})
      BY <1>1 DEF Music!CallsOf
    <2>3. ui.hasty \in BOOLEAN /\ ui.lists \subseteq Things BY DEF MusicInv, MusicFields
    <2>4. MusicFields' /\ MusicTracks' BY <1>1, <2>1, <2>2, <2>3, MusicElse
    <2>5. MusicLists' BY <1>1, <2>1, <2>2 DEF MusicInv, MusicLists
    <2> QED BY <2>4, <2>5 DEF MusicInv
  <1>2. DOMAIN back = {"lists", "torn"} /\ back.lists \subseteq Things /\ (~ui.hasty => ~back.torn)
    BY DEF MusicInv, MusicFields, MusicLists
  <1>3. ASSUME NEW t \in Music!Tabs, Music!SelectTab(t) PROVE MusicInv'
    <2> DEFINE op == IF t \in {"search", "history"} THEN "playlists" ELSE t
               n == Music!Work(op, Nothing, 0, {})
    <2>1. /\ calls' \subseteq calls \cup {n} /\ calls \subseteq calls' /\ back' = back
          /\ ui' = [ui EXCEPT !.tab = t]
      BY <1>3 DEF Music!SelectTab, Music!Ask
    <2>2. n.op = op BY MusicWork
    <2>3. op \notin {"search", "more", "tracks"} BY DEF Music!Tabs
    <2> HIDE DEF n, op
    <2> QED BY Zenon, <1>1, <1>2, <2>1, <2>2, <2>3
  <1>4. CASE Music!ChangeOffline
    <2> DEFINE n == Music!Work("offline", Nothing, 0, {})
    <2>1. calls' \subseteq calls \cup {n} /\ calls \subseteq calls' /\ back' = back /\ ui' = ui
      BY <1>4 DEF Music!ChangeOffline, Music!Ask
    <2>2. n.op = "offline" BY MusicWork
    <2> HIDE DEF n
    <2> QED BY <1>1, <1>2, <2>1, <2>2
  <1>5. ASSUME NEW p \in Things, Music!HandleCreatePlaylist(p) \/ Music!HandleDeletePlaylist(p) PROVE MusicInv'
    <2> DEFINE n == Music!Work("playlists", Nothing, 0, {})
    <2>1. /\ calls' \subseteq calls \cup {n} /\ calls \subseteq calls' /\ ui' = ui
          /\ \/ back' = [back EXCEPT !.lists = @ \cup {p}] \/ back' = [back EXCEPT !.lists = @ \ {p}]
      BY <1>5 DEF Music!HandleCreatePlaylist, Music!HandleDeletePlaylist, Music!Ask
    <2>2. n.op = "playlists" BY MusicWork
    <2>3. DOMAIN back' = DOMAIN back /\ back'.lists \subseteq Things /\ back'.torn = back.torn
      BY <1>2, <2>1
    <2> HIDE DEF n
    <2> QED BY <1>1, <1>2, <2>1, <2>2, <2>3
  <1>6. ASSUME NEW p \in Things, Music!HandleAddToPlaylist(p) PROVE MusicInv'
    <2> DEFINE n == Music!Work("add", p, 0, {ui.selected})
    <2>1. calls' \subseteq calls \cup {n} /\ calls \subseteq calls' /\ back' = back /\ ui' = ui
      BY <1>6 DEF Music!HandleAddToPlaylist, Music!Ask
    <2>2. n.op = "add" BY MusicWork
    <2> HIDE DEF n
    <2> QED BY <1>1, <1>2, <2>1, <2>2
  <1>7. CASE Music!HandleRemoveFromPlaylist
    <2> DEFINE n == Music!Work("remove", ui.selected, 0, {})
               other == ui.shown # ui.selected
    <2>1. /\ calls' \subseteq calls \cup {n} /\ calls \subseteq calls' /\ ui' = ui
          /\ back' = [back EXCEPT !.torn = @ \/ other] /\ ui.shown # Nothing
      BY <1>7 DEF Music!HandleRemoveFromPlaylist, Music!Ask
    <2>2. n.op = "remove" BY MusicWork
    <2>3. ~ui.hasty => ~other BY <2>1 DEF MusicInv, MusicLists
    <2> HIDE DEF n, other
    <2>4. DOMAIN back' = DOMAIN back /\ back'.lists = back.lists /\ back'.torn = (back.torn \/ other)
      BY <1>2, <2>1
    <2> QED BY Zenon, <1>1, <1>2, <2>1, <2>2, <2>3, <2>4
  <1>8. CASE UNCHANGED Music!vars
    <2> DEFINE n == Music!Work("add", Nothing, 0, {})
    <2>1. calls' \subseteq calls \cup {n} /\ calls \subseteq calls' /\ back' = back /\ ui' = ui
      BY <1>8 DEF Music!vars
    <2>2. n.op = "add" BY MusicWork
    <2> HIDE DEF n
    <2> QED BY <1>1, <1>2, <2>1, <2>2
  <1> QED BY <1>3, <1>4, <1>5, <1>6, <1>7, <1>8

\* A playlist is opened and left.
LEMMA MusicOpens ==
  ASSUME MusicInv, (\E p \in Things : Music!HandleSelectPlaylist(p)) \/ Music!BackToPlaylists
  PROVE  MusicInv'
  <1>1. ASSUME NEW p \in Things, Music!HandleSelectPlaylist(p) PROVE MusicInv'
    <2> DEFINE n == Music!Work("tracks", p, 0, {})
               quick == Music!CallsOf({"tracks"}) # {}
    <2>1. /\ ~ui.hasty /\ ui.selected = Nothing /\ calls' = calls \cup {n} /\ back' = back
          /\ ui' = [ui EXCEPT !.selected = p, !.hasty = quick]
      BY Zenon, <1>1 DEF Music!HandleSelectPlaylist, Music!Playlists, Music!Ask
    <2>2. n.op = "tracks" /\ n.of = p BY MusicWork
    <2>3. quick \in BOOLEAN /\ (~quick => \A c \in calls : c.op # "tracks") BY DEF Music!CallsOf
    <2> HIDE DEF n, quick
    <2>4. /\ DOMAIN ui' = DOMAIN ui /\ ui'.word = ui.word /\ ui'.tracks = ui.tracks
          /\ ui'.page = ui.page /\ ui'.more = ui.more /\ ui'.loadingMore = ui.loadingMore
          /\ ui'.lists = ui.lists /\ ui'.selected = p /\ ui'.shown = ui.shown
          /\ ui'.hasty = quick
      BY <2>1 DEF MusicInv, MusicFields
    <2>5. Music!CallsOf({"search", "more"})' = Music!CallsOf({"search", "more"})
      BY <2>1, <2>2 DEF Music!CallsOf
    <2>6. ui.lists \subseteq Things /\ DOMAIN back = {"lists", "torn"} /\ back.lists \subseteq Things
      BY DEF MusicInv, MusicFields
    <2>7. MusicFields' /\ MusicTracks' BY <2>1, <2>3, <2>4, <2>5, <2>6, MusicElse
    <2>8. MusicLists' BY <2>1, <2>2, <2>3, <2>4 DEF MusicInv, MusicLists, Music!CallsOf
    <2> QED BY <2>7, <2>8 DEF MusicInv
  <1>2. CASE Music!BackToPlaylists
    <2> DEFINE quick == Music!CallsOf({"tracks"}) # {}
    <2>1. /\ ~ui.hasty /\ calls' = calls /\ back' = back
          /\ ui' = [ui EXCEPT !.selected = Nothing, !.shown = Nothing, !.hasty = quick]
      BY <1>2 DEF Music!BackToPlaylists, Music!Playlists
    <2>2. quick \in BOOLEAN /\ (~quick => \A c \in calls : c.op # "tracks") BY DEF Music!CallsOf
    <2> HIDE DEF quick
    <2>3. /\ DOMAIN ui' = DOMAIN ui /\ ui'.word = ui.word /\ ui'.tracks = ui.tracks
          /\ ui'.page = ui.page /\ ui'.more = ui.more /\ ui'.loadingMore = ui.loadingMore
          /\ ui'.lists = ui.lists /\ ui'.selected = Nothing /\ ui'.shown = Nothing
          /\ ui'.hasty = quick
      BY <2>1 DEF MusicInv, MusicFields
    <2>4. Music!CallsOf({"search", "more"})' = Music!CallsOf({"search", "more"})
      BY <2>1 DEF Music!CallsOf
    <2>5. ui.lists \subseteq Things /\ DOMAIN back = {"lists", "torn"} /\ back.lists \subseteq Things
      BY DEF MusicInv, MusicFields
    <2>6. MusicFields' /\ MusicTracks' BY <2>1, <2>2, <2>3, <2>4, <2>5, MusicElse
    <2>7. MusicLists' BY <2>1, <2>2, <2>3 DEF MusicInv, MusicLists, Music!CallsOf
    <2> QED BY <2>6, <2>7 DEF MusicInv
  <1> QED BY <1>1, <1>2

\* The answers about playlists and the cache.
LEMMA MusicAnswers ==
  ASSUME MusicInv, NEW c \in calls,
         Music!AnswerPlaylists(c) \/ Music!AnswerOffline(c) \/ Music!AnswerTracks(c) \/ Music!AnswerRemove(c) \/ Music!AnswerAdd(c)
  PROVE  MusicInv'
  <1>1. /\ back' = back /\ c.op \in {"playlists", "offline", "tracks", "remove", "add"}
        /\ ui.lists \subseteq Things /\ DOMAIN back = {"lists", "torn"} /\ back.lists \subseteq Things
        /\ ui.hasty \in BOOLEAN
    BY DEF Music!AnswerPlaylists, Music!AnswerOffline, Music!AnswerTracks, Music!AnswerRemove,
       Music!AnswerAdd, MusicInv, MusicFields
  <1>2. CASE /\ Music!Answered(c)
             /\ \/ \E l \in {back.lists, {}} : ui' = [ui EXCEPT !.lists = l]
                \/ \E o \in BOOLEAN : ui' = [ui EXCEPT !.offline = o]
                \/ c.op = "tracks" /\ \E s \in {c.of, Nothing} : ui' = [ui EXCEPT !.shown = s]
                \/ ui' = ui
    <2>1. calls' = calls \ {c} BY <1>2 DEF Music!Answered
    <2>2. DOMAIN ui = {"tab", "word", "tracks", "page", "more", "searching", "loadingMore", "lists",
                       "selected", "shown", "offline", "hasty"}
      BY DEF MusicInv, MusicFields
    <2>3. /\ DOMAIN ui' = DOMAIN ui /\ ui'.word = ui.word /\ ui'.tracks = ui.tracks
          /\ ui'.page = ui.page /\ ui'.more = ui.more /\ ui'.loadingMore = ui.loadingMore
          /\ ui'.selected = ui.selected /\ ui'.hasty = ui.hasty /\ ui'.lists \subseteq Things
          /\ ui'.shown = ui.shown \/ (c.op = "tracks" /\ ui'.shown \in {c.of, Nothing})
      <3>1. CASE \E l \in {back.lists, {}} : ui' = [ui EXCEPT !.lists = l] BY <1>1, <2>2, <3>1
      <3>2. CASE c.op = "tracks" /\ \E s \in {c.of, Nothing} : ui' = [ui EXCEPT !.shown = s]
        BY <1>1, <2>2, <3>2
      <3>3. CASE (\E o \in BOOLEAN : ui' = [ui EXCEPT !.offline = o]) \/ ui' = ui
        BY <1>1, <2>2, <3>3
      <3> QED BY <1>2, <3>1, <3>2, <3>3
    <2>4. Music!CallsOf({"search", "more"})' = Music!CallsOf({"search", "more"})
      BY <1>1, <2>1 DEF Music!CallsOf
    <2>5. MusicFields' /\ MusicTracks' BY <1>1, <2>3, <2>4, MusicElse
    <2>6. MusicLists' BY <1>1, <2>1, <2>3 DEF MusicInv, MusicLists, Music!CallsOf
    <2> QED BY <2>5, <2>6 DEF MusicInv
  <1>3. CASE Music!SelectAgain(c)
    <2> DEFINE n == Music!Work("tracks", c.of, 0, {})
               m == Music!Work("playlists", Nothing, 0, {})
               quick == ui.hasty \/ ui.selected # c.of \/ Music!CallsOf({"tracks"}) # {}
    <2>1. calls' = (calls \ {c}) \cup {n, m} /\ ui' = [ui EXCEPT !.selected = c.of, !.hasty = quick]
      BY <1>3 DEF Music!SelectAgain
    <2>2. n.op = "tracks" /\ n.of = c.of /\ m.op = "playlists" BY MusicWork
    <2>3. quick \in BOOLEAN /\ (~quick => ~ui.hasty /\ ui.selected = c.of) BY <1>1
    <2> HIDE DEF n, m, quick
    <2>4. /\ DOMAIN ui' = DOMAIN ui /\ ui'.word = ui.word /\ ui'.tracks = ui.tracks
          /\ ui'.page = ui.page /\ ui'.more = ui.more /\ ui'.loadingMore = ui.loadingMore
          /\ ui'.lists = ui.lists /\ ui'.selected = c.of /\ ui'.shown = ui.shown
          /\ ui'.hasty = quick
      BY <2>1 DEF MusicInv, MusicFields
    <2>5. Music!CallsOf({"search", "more"})' = Music!CallsOf({"search", "more"})
      BY <1>1, <2>1, <2>2 DEF Music!CallsOf
    <2>6. MusicFields' /\ MusicTracks' BY <1>1, <2>3, <2>4, <2>5, MusicElse
    <2>7. MusicLists' BY <1>1, <2>1, <2>2, <2>3, <2>4 DEF MusicInv, MusicLists, Music!CallsOf
    <2> QED BY <2>6, <2>7 DEF MusicInv
  <1>4. CASE Music!Continue(c, Music!Work("playlists", Nothing, 0, {})) /\ ui' = ui
    <2> DEFINE m == Music!Work("playlists", Nothing, 0, {})
    <2>1. calls' = (calls \ {c}) \cup {m} /\ m.op = "playlists"
      BY <1>4, MusicWork DEF Music!Continue
    <2> HIDE DEF m
    <2>2. Music!CallsOf({"search", "more"})' = Music!CallsOf({"search", "more"})
      BY <1>1, <2>1 DEF Music!CallsOf
    <2>3. MusicFields' /\ MusicTracks' BY <1>1, <1>4, <2>2, MusicElse
    <2>4. MusicLists' BY <1>1, <1>4, <2>1 DEF MusicInv, MusicLists, Music!CallsOf
    <2> QED BY <2>3, <2>4 DEF MusicInv
  <1> QED
    BY <1>2, <1>3, <1>4 DEF Music!AnswerPlaylists, Music!AnswerOffline, Music!AnswerTracks,
       Music!AnswerRemove, Music!AnswerAdd

\* No step of the page leaves the invariant.
THEOREM MusicNext == MusicInv /\ [Music!Next]_Music!vars => MusicInv'
  BY MusicSearches, MusicFound, MusicTabs, MusicOpens, MusicAnswers
     DEF Music!Next, Music!Header, Music!SearchBar, Music!SearchTab, Music!PlaylistsTab,
        Music!OfflineTab, Music!AddDialog, Music!Row, Music!Answer

\* What the invariant says of the page.
THEOREM MusicSays == MusicInv => Music!TypeOK /\ Music!ShownBelongs /\ Music!UntouchedKept
  BY DEF MusicInv, MusicFields, MusicTracks, MusicLists, MusicRun, Music!TypeOK,
     Music!ShownBelongs, Music!UntouchedKept

-----------------------------------------------------------------------------
\* PGTableData.tla
\* The constants of the page.
LEMMA RowsConstants == 1 \in 1 .. Bound /\ First \in Things
  BY PagesAssumption, TwoThings

\* The first page is loading, with its columns.
THEOREM RowsInit == Rows!Init => RowsInv
  <1> SUFFICES ASSUME Rows!Init PROVE RowsInv OBVIOUS
  <1> DEFINE a == [op |-> "load", query |-> Rows!Begin, rows |-> Nothing, todo |-> {}]
             b == [op |-> "metadata", query |-> Rows!Begin, rows |-> Nothing, todo |-> {}]
  <1>1. calls = {a, b} BY DEF Rows!Init, Rows!Load
  <1>2. Rows!Begin \in Rows!Queries /\ Rows!Begin.order = First
    BY RowsConstants DEF Rows!Begin, Rows!Queries
  <1>3. /\ RowsCall(a) /\ RowsOwn(a) /\ a.op = "load" /\ a.query = Rows!Begin
        /\ RowsCall(b) /\ RowsOwn(b) /\ b.op = "metadata"
    BY <1>2 DEF RowsCall, RowsOwn
  <1> HIDE DEF a, b
  <1>4. RowsFields BY <1>1, <1>3, RowsConstants DEF Rows!Init, RowsFields
  <1>5. RowsMeant BY <1>1, <1>3 DEF Rows!Init, RowsMeant
  <1>6. RowsEdit BY DEF Rows!Init, RowsEdit
  <1>7. RowsShown BY <1>1, <1>2, <1>3 DEF Rows!Init, RowsShown, RowsBrings
  <1> QED BY <1>4, <1>5, <1>6, <1>7 DEF RowsInv

\* The query at hand is one.
LEMMA RowsAtHand == RowsFields => Rows!AtHand \in Rows!Queries /\ Rows!AtHand.order = ui.order
  BY DEF RowsFields, Rows!AtHand, Rows!Queries

\* The calls of the page are such calls.
LEMMA RowsAsked ==
  ASSUME RowsFields
  PROVE  /\ \A q \in Rows!Queries : /\ RowsCall(Rows!Load(q)) /\ RowsOwn(Rows!Load(q)) /\ Rows!Load(q).op = "load"
                                    /\ Rows!Load(q).query = q
         /\ \A op, todo : /\ RowsCall(Rows!Then(op, Rows!AtHand, todo))
                          /\ (\A m \in todo : m[2] = ui.rows) => RowsOwn(Rows!Then(op, Rows!AtHand, todo))
                          /\ Rows!Then(op, Rows!AtHand, todo).op = op
                          /\ Rows!Then(op, Rows!AtHand, todo).query.order = ui.order
         /\ \A op \in {"sub", "index"} : RowsCall(Rows!Sub(op)) /\ RowsOwn(Rows!Sub(op)) /\ Rows!Sub(op).op = op
  <1>1. ASSUME NEW q \in Rows!Queries
        PROVE  RowsCall(Rows!Load(q)) /\ RowsOwn(Rows!Load(q)) /\ Rows!Load(q).op = "load" /\ Rows!Load(q).query = q
    BY DEF Rows!Load, RowsCall, RowsOwn
  <1>2. ASSUME NEW op, NEW todo
        PROVE  /\ RowsCall(Rows!Then(op, Rows!AtHand, todo))
               /\ (\A m \in todo : m[2] = ui.rows) => RowsOwn(Rows!Then(op, Rows!AtHand, todo))
               /\ Rows!Then(op, Rows!AtHand, todo).op = op
               /\ Rows!Then(op, Rows!AtHand, todo).query.order = ui.order
    <2> DEFINE c == [op |-> op, query |-> Rows!AtHand, rows |-> ui.rows, todo |-> todo]
    <2>1. Rows!Then(op, Rows!AtHand, todo) = c BY DEF Rows!Then
    <2>2. DOMAIN c = {"op", "query", "rows", "todo"} /\ c.query = Rows!AtHand /\ c.op = op
          /\ c.rows = ui.rows /\ c.todo = todo
      OBVIOUS
    <2> HIDE DEF c
    <2> QED BY <2>1, <2>2, RowsAtHand DEF RowsCall, RowsOwn
  <1>3. ASSUME NEW op \in {"sub", "index"} PROVE RowsCall(Rows!Sub(op)) /\ RowsOwn(Rows!Sub(op)) /\ Rows!Sub(op).op = op
    BY DEF Rows!Sub, RowsCall, RowsOwn
  <1> QED BY <1>1, <1>2, <1>3

\* Cells, selection, questions and tabs: nothing is asked for.
LEMMA RowsClicks ==
  ASSUME RowsInv, calls' = calls, back' = back,
         \/ \E i \in (1 .. Bound) : Rows!HandleCellDoubleClick(i) \/ Rows!SelectRow(i)
         \/ Rows!HandleCellEditConfirm \/ Rows!HandleCellEditCancel \/ Rows!HandleRollback
         \/ Rows!HandleDeleteRows \/ Rows!HandleOpenInsert
         \/ ui' = [ui EXCEPT !.dialog = {}] \/ ui' = [ui EXCEPT !.inserting = FALSE]
         \/ \E sub : ui' = [ui EXCEPT !.sub = sub]
         \/ \E order \in Things : Rows!HandleFilterChange(order)
         \/ ui' = ui
  PROVE  RowsInv'
  <1> USE DEF RowsInv
  <1>1. ASSUME NEW i \in (1 .. Bound), Rows!HandleCellDoubleClick(i) PROVE RowsInv'
    <2> DEFINE e == <<i, ui.rows>>
               quick == Rows!Reloads # {}
    <2>1. e[2] = ui.rows /\ e \in (1 .. Bound) \X Rows!Queries
      BY Zenon, <1>1 DEF Rows!HandleCellDoubleClick, Rows!Grid, Rows!Shown, RowsFields
    <2>2. ui' = [ui EXCEPT !.edit = {e}, !.hasty = quick] /\ ~ui.hasty /\ ui.dialog = {} /\ ~ui.inserting
      BY Zenon, <1>1 DEF Rows!HandleCellDoubleClick, Rows!Grid, Rows!Shown, Rows!Free
    <2>3. quick \in BOOLEAN /\ (~quick => Rows!Reloads = {}) OBVIOUS
    <2> HIDE DEF e, quick
    <2>4. /\ DOMAIN ui' = DOMAIN ui /\ ui'.page = ui.page /\ ui'.order = ui.order
          /\ ui'.unapplied = ui.unapplied /\ ui'.rows = ui.rows
          /\ ui'.mods = ui.mods /\ ui'.edit = {e} /\ ui'.selected = ui.selected
          /\ ui'.dialog = ui.dialog /\ ui'.inserting = ui.inserting /\ ui'.hasty = quick
      BY <2>2 DEF RowsFields
    <2>5. RowsFields' BY <2>1, <2>3, <2>4 DEF RowsFields
    <2>6. RowsMeant' BY <2>1, <2>2, <2>4 DEF RowsMeant
    <2>7. RowsEdit' BY <2>2, <2>3, <2>4 DEF RowsEdit, Rows!Reloads, Rows!CallsOf
    <2>8. RowsShown' BY <2>2, <2>4 DEF RowsShown, RowsBrings
    <2> QED BY <2>5, <2>6, <2>7, <2>8
  <1>2. ASSUME NEW i \in (1 .. Bound), Rows!SelectRow(i) PROVE RowsInv'
    <2> DEFINE e == <<i, ui.rows>>
    <2>1. e[2] = ui.rows OBVIOUS
    <2>2. ui' = [ui EXCEPT !.selected = IF e \in @ THEN @ \ {e} ELSE @ \cup {e}]
      BY <1>2 DEF Rows!SelectRow
    <2> HIDE DEF e
    <2>3. /\ DOMAIN ui' = DOMAIN ui /\ ui'.page = ui.page /\ ui'.order = ui.order
          /\ ui'.unapplied = ui.unapplied /\ ui'.rows = ui.rows
          /\ ui'.mods = ui.mods /\ ui'.edit = ui.edit /\ ui'.selected \subseteq ui.selected \cup {e}
          /\ ui'.dialog = ui.dialog /\ ui'.inserting = ui.inserting /\ ui'.hasty = ui.hasty
      BY <2>2 DEF RowsFields
    <2>4. RowsFields' BY <2>3 DEF RowsFields
    <2>5. RowsMeant' BY <2>1, <2>3 DEF RowsMeant
    <2>6. RowsEdit' BY <2>3 DEF RowsEdit, Rows!Reloads, Rows!CallsOf
    <2>7. RowsShown' BY <2>3 DEF RowsShown, RowsBrings
    <2> QED BY <2>4, <2>5, <2>6, <2>7
  <1>3. CASE Rows!HandleDeleteRows
    <2> DEFINE w == Rows!Then("delete", Rows!AtHand, ui.selected)
    <2>1. RowsCall(w) /\ w.op = "delete" /\ w.query.order = ui.order /\ (~ui.hasty => RowsOwn(w))
      BY RowsAsked DEF RowsMeant
    <2>2. ui' = [ui EXCEPT !.dialog = {w}] /\ ui.edit = {} BY <1>3 DEF Rows!HandleDeleteRows
    <2> HIDE DEF w
    <2>3. /\ DOMAIN ui' = DOMAIN ui /\ ui'.page = ui.page /\ ui'.order = ui.order
          /\ ui'.unapplied = ui.unapplied /\ ui'.rows = ui.rows
          /\ ui'.mods = ui.mods /\ ui'.edit = {} /\ ui'.selected = ui.selected
          /\ ui'.dialog = {w} /\ ui'.hasty = ui.hasty
      BY <2>2 DEF RowsFields
    <2>4. RowsFields' BY <2>1, <2>3 DEF RowsFields
    <2>5. RowsMeant' BY <2>1, <2>3 DEF RowsMeant
    <2>6. RowsEdit' BY <2>3 DEF RowsEdit
    <2>7. RowsShown' BY <2>1, <2>3 DEF RowsShown, RowsBrings
    <2> QED BY <2>4, <2>5, <2>6, <2>7
  <1>4. CASE Rows!HandleOpenInsert
    <2>1. /\ DOMAIN ui' = DOMAIN ui /\ ui'.page = ui.page /\ ui'.order = ui.order
          /\ ui'.unapplied = ui.unapplied /\ ui'.rows = ui.rows
          /\ ui'.mods = ui.mods /\ ui'.edit = {} /\ ui.edit = {} /\ ui'.selected = ui.selected
          /\ ui'.dialog = ui.dialog /\ ui'.hasty = ui.hasty
      BY <1>4 DEF RowsFields, Rows!HandleOpenInsert
    <2>2. RowsFields' BY <2>1 DEF RowsFields
    <2>3. RowsMeant' BY <2>1 DEF RowsMeant
    <2>4. RowsEdit' BY <2>1 DEF RowsEdit
    <2>5. RowsShown' BY <2>1 DEF RowsShown, RowsBrings
    <2> QED BY <2>2, <2>3, <2>4, <2>5
  <1>5. CASE \/ Rows!HandleCellEditConfirm \/ Rows!HandleCellEditCancel \/ Rows!HandleRollback
             \/ ui' = [ui EXCEPT !.dialog = {}] \/ ui' = [ui EXCEPT !.inserting = FALSE]
             \/ \E sub : ui' = [ui EXCEPT !.sub = sub]
             \/ ui' = ui
    <2>1. /\ DOMAIN ui' = DOMAIN ui /\ ui'.page = ui.page /\ ui'.order = ui.order
          /\ ui'.unapplied = ui.unapplied /\ ui'.rows = ui.rows
          /\ ui'.mods \subseteq ui.mods \cup ui.edit /\ ui'.edit \subseteq ui.edit
          /\ ui'.selected = ui.selected /\ ui'.dialog \subseteq ui.dialog
          /\ (ui'.inserting => ui.inserting) /\ ui'.hasty = ui.hasty
      BY Zenon, <1>5 DEF RowsFields, Rows!HandleCellEditConfirm, Rows!HandleCellEditCancel,
         Rows!HandleRollback
    <2>2. RowsFields' BY <2>1 DEF RowsFields
    <2>3. RowsMeant' BY <2>1 DEF RowsMeant
    <2>4. RowsEdit' BY <2>1 DEF RowsEdit, Rows!Reloads, Rows!CallsOf
    <2>5. RowsShown' BY <2>1 DEF RowsShown, RowsBrings
    <2> QED BY <2>2, <2>3, <2>4, <2>5
  <1>6. ASSUME NEW order \in Things, Rows!HandleFilterChange(order) PROVE RowsInv'
    <2>1. /\ DOMAIN ui' = DOMAIN ui /\ ui'.page = ui.page /\ ui'.order = order
          /\ ui'.unapplied = TRUE /\ ui'.rows = ui.rows
          /\ ui'.mods = ui.mods /\ ui'.edit = ui.edit /\ ui'.selected = ui.selected
          /\ ui'.dialog = ui.dialog /\ ui'.inserting = ui.inserting /\ ui'.hasty = ui.hasty
      BY Zenon, <1>6 DEF Rows!HandleFilterChange, RowsFields
    <2>2. ui.dialog = {} /\ \A c \in calls : c.op \notin {"commit", "delete", "insert"}
      BY Zenon, <1>6 DEF Rows!HandleFilterChange, Rows!Shown, Rows!Free, Rows!CallsOf
    <2>3. RowsFields'
      <3>1. TRUE \in BOOLEAN OBVIOUS
      <3> QED BY Zenon, <2>1, <3>1 DEF RowsFields
    <2>4. RowsMeant' BY <2>1 DEF RowsMeant
    <2>5. RowsEdit' BY <2>1 DEF RowsEdit, Rows!Reloads, Rows!CallsOf
    <2>6. RowsShown' BY <2>1, <2>2 DEF RowsShown, RowsBrings
    <2> QED BY <2>3, <2>4, <2>5, <2>6
  <1> QED BY <1>1, <1>2, <1>3, <1>4, <1>5, <1>6

\* A call is made that brings other rows, or one that does not.
LEMMA RowsAsks ==
  ASSUME RowsInv, NEW n, calls' = calls \cup {n}, back' = back,
         RowsCall(n), ~ui.hasty => RowsOwn(n),
         RowsBrings(n) => ui'.edit = {},
         DOMAIN ui' = DOMAIN ui, ui'.page = ui.page, ui'.unapplied = ui.unapplied, ui'.rows = ui.rows,
         ui'.order \in Things, n.op # "load" => ui'.order = ui.order, n.op = "load" => ui'.dialog = {},
         ui'.mods \subseteq ui.mods \cup ui.edit, ui'.edit \subseteq ui.edit, ui'.selected = ui.selected,
         ui'.dialog \subseteq ui.dialog, ui'.inserting = ui.inserting, ui'.hasty \in BOOLEAN,
         ~ui'.hasty => ~ui.hasty /\ (RowsBrings(n) => Rows!Reloads = {} /\ n.query.order = ui'.order)
  PROVE  RowsInv'
  <1> USE DEF RowsInv
  <1>1. RowsFields' BY DEF RowsFields
  <1>2. RowsMeant' BY DEF RowsMeant
  <1>3. RowsEdit' BY DEF RowsEdit, Rows!Reloads, Rows!CallsOf, RowsBrings
  <1>4. RowsShown'
    <2> SUFFICES ASSUME ~ui'.hasty PROVE RowsShown' BY DEF RowsShown
    <2>1. RowsBrings(n) => \A c \in calls : ~RowsBrings(c)
      BY DEF Rows!Reloads, Rows!CallsOf, RowsBrings
    <2>2. n.op = "load" => RowsBrings(n) BY DEF RowsBrings
    <2>3. CASE n.op = "load" BY <2>1, <2>2, <2>3 DEF RowsShown, RowsBrings
    <2>4. CASE n.op # "load" /\ RowsBrings(n) BY <2>1, <2>4 DEF RowsShown, RowsBrings
    <2>5. CASE ~RowsBrings(n) BY <2>2, <2>5 DEF RowsShown, RowsBrings
    <2> QED BY <2>3, <2>4, <2>5
  <1> QED BY <1>1, <1>2, <1>3, <1>4

\* What the buttons ask for.
LEMMA RowsWork ==
  ASSUME RowsInv,
         \/ \E p \in (1 .. Bound), order \in Things : Rows!LoadData(p, order)
         \/ Rows!HandleCommit
         \/ \E w \in ui.dialog : Rows!Ask(w) /\ Rows!CloseDialog
         \/ Rows!HandleInsertSubmit /\ Rows!Ask(Rows!Then("insert", Rows!AtHand, {}))
         \/ \E sub : Rows!Ask(Rows!Sub("sub")) /\ Rows!SelectSubTab(sub) /\ sub \in {"indexes", "fk"}
         \/ Rows!ChangeIndexes
  PROVE  RowsInv'
  <1> USE DEF RowsInv
  <1>1. ASSUME NEW p \in (1 .. Bound), NEW order \in Things, Rows!LoadData(p, order) PROVE RowsInv'
    <2> DEFINE q == [page |-> p, order |-> order]
               n == Rows!Load(q)
               quick == Rows!Reloads # {}
    <2>1. /\ calls' = calls \cup {n} /\ back' = back /\ ~ui.hasty /\ ui.dialog = {}
          /\ ui' = [ui EXCEPT !.order = order, !.loading = TRUE, !.edit = {},
                              !.mods = @ \cup ui.edit, !.hasty = quick]
      BY Zenon, <1>1 DEF Rows!LoadData, Rows!Ask, Rows!Free
    <2>2. q \in Rows!Queries /\ q.order = order BY DEF Rows!Queries
    <2>3. /\ RowsCall(n) /\ RowsOwn(n) /\ n.op = "load" /\ n.query.order = order
          /\ quick \in BOOLEAN /\ (~quick => Rows!Reloads = {})
      BY <2>2, RowsAsked
    <2> HIDE DEF n, quick
    <2>4. /\ DOMAIN ui' = DOMAIN ui /\ ui'.page = ui.page /\ ui'.order = order
          /\ ui'.unapplied = ui.unapplied /\ ui'.rows = ui.rows
          /\ ui'.mods = ui.mods \cup ui.edit /\ ui'.edit = {} /\ ui'.selected = ui.selected
          /\ ui'.dialog = {} /\ ui'.inserting = ui.inserting /\ ui'.hasty = quick
      BY <2>1 DEF RowsFields
    <2> QED BY <2>1, <2>3, <2>4, RowsAsks
  <1>2. CASE Rows!HandleCommit
    <2> DEFINE n == Rows!Then("commit", Rows!AtHand, ui.mods)
               quick == Rows!Reloads # {}
    <2>1. /\ calls' = calls \cup {n} /\ back' = back /\ ~ui.hasty /\ ui.edit = {}
          /\ ui' = [ui EXCEPT !.hasty = quick]
      BY <1>2 DEF Rows!HandleCommit, Rows!Ask, Rows!Free
    <2>2. /\ RowsCall(n) /\ (~ui.hasty => RowsOwn(n)) /\ n.op = "commit" /\ n.query.order = ui.order
          /\ quick \in BOOLEAN /\ (~quick => Rows!Reloads = {})
      BY RowsAsked DEF RowsMeant
    <2>4. ui.order \in Things BY DEF RowsFields
    <2> HIDE DEF n, quick
    <2>3. /\ DOMAIN ui' = DOMAIN ui /\ ui'.page = ui.page /\ ui'.order = ui.order
          /\ ui'.unapplied = ui.unapplied /\ ui'.rows = ui.rows
          /\ ui'.mods = ui.mods /\ ui'.edit = {} /\ ui'.selected = ui.selected
          /\ ui'.dialog = ui.dialog /\ ui'.inserting = ui.inserting /\ ui'.hasty = quick
      BY <2>1 DEF RowsFields
    <2> QED BY <2>1, <2>2, <2>3, <2>4, RowsAsks
  <1>3. ASSUME NEW w \in ui.dialog, Rows!Ask(w), Rows!CloseDialog PROVE RowsInv'
    <2> DEFINE quick == ui.hasty \/ Rows!Reloads # {}
    <2>1. calls' = calls \cup {w} /\ w \notin calls BY <1>3 DEF Rows!Ask
    <2>2. back' = back /\ ui' = [ui EXCEPT !.dialog = {}, !.hasty = quick]
      BY Zenon, <1>3, <2>1 DEF Rows!CloseDialog
    <2>7. quick \in BOOLEAN /\ (~quick => ~ui.hasty /\ Rows!Reloads = {}) /\ (ui.hasty => quick)
      BY DEF RowsFields
    <2> HIDE DEF quick
    <2>3. /\ RowsCall(w) /\ (~ui.hasty => RowsOwn(w) /\ w.query.order = ui.order)
          /\ (~ui.hasty => ui.edit = {}) /\ w.op = "delete" /\ ui.order \in Things
      BY DEF RowsFields, RowsMeant, RowsEdit, RowsShown
    <2>4. /\ DOMAIN ui' = DOMAIN ui /\ ui'.page = ui.page /\ ui'.order = ui.order
          /\ ui'.unapplied = ui.unapplied /\ ui'.rows = ui.rows
          /\ ui'.mods = ui.mods /\ ui'.edit = ui.edit /\ ui'.selected = ui.selected
          /\ ui'.dialog = {} /\ ui'.inserting = ui.inserting /\ ui'.hasty = quick
      BY <2>2 DEF RowsFields
    <2>5. CASE ui.hasty /\ ui'.hasty
      <3>1. RowsFields' BY <2>1, <2>3, <2>4, <2>7 DEF RowsFields
      <3> QED BY <2>5, <3>1 DEF RowsMeant, RowsEdit, RowsShown
    <2>6. CASE ~ui.hasty BY <2>1, <2>2, <2>3, <2>4, <2>6, <2>7, RowsAsks
    <2> QED BY <2>4, <2>5, <2>6, <2>7
  <1>4. CASE Rows!HandleInsertSubmit /\ Rows!Ask(Rows!Then("insert", Rows!AtHand, {}))
    <2> DEFINE n == Rows!Then("insert", Rows!AtHand, {})
               quick == ui.hasty \/ Rows!Reloads # {}
    <2>1. calls' = calls \cup {n} /\ n \notin calls BY <1>4 DEF Rows!Ask
    <2>2. back' = back /\ ui.inserting /\ ui' = [ui EXCEPT !.hasty = quick]
      BY <1>4, <2>1 DEF Rows!HandleInsertSubmit
    <2>8. quick \in BOOLEAN /\ (~quick => ~ui.hasty /\ Rows!Reloads = {}) /\ (ui.hasty => quick)
      BY DEF RowsFields
    <2>3. /\ RowsCall(n) /\ RowsOwn(n) /\ n.op = "insert" /\ n.query.order = ui.order
          /\ ui.order \in Things
      BY RowsAsked DEF RowsFields
    <2> HIDE DEF n, quick
    <2>4. /\ DOMAIN ui' = DOMAIN ui /\ ui'.page = ui.page /\ ui'.order = ui.order
          /\ ui'.unapplied = ui.unapplied /\ ui'.rows = ui.rows
          /\ ui'.mods = ui.mods /\ ui'.edit = ui.edit /\ ui'.selected = ui.selected
          /\ ui'.dialog = ui.dialog /\ ui'.inserting = ui.inserting /\ ui'.hasty = quick
      BY Zenon, <2>2 DEF RowsFields
    <2>5. CASE ui.hasty /\ ui'.hasty
      <3>1. RowsFields' BY <2>1, <2>3, <2>4, <2>8 DEF RowsFields
      <3> QED BY <2>5, <3>1 DEF RowsMeant, RowsEdit, RowsShown
    <2>6. ~ui.hasty => ui.edit = {} BY <2>2 DEF RowsEdit
    <2>7. CASE ~ui.hasty BY Zenon, <2>1, <2>2, <2>3, <2>4, <2>6, <2>7, <2>8, RowsAsks
    <2> QED BY <2>4, <2>5, <2>7, <2>8
  <1>5. ASSUME NEW sub, Rows!Ask(Rows!Sub("sub")), Rows!SelectSubTab(sub), sub \in {"indexes", "fk"} PROVE RowsInv'
    <2> DEFINE n == Rows!Sub("sub")
    <2>1. /\ calls' = calls \cup {n} /\ back' = back
          /\ ui' = [ui EXCEPT !.sub = sub, !.subLoading = TRUE]
      BY Zenon, <1>5 DEF Rows!SelectSubTab, Rows!Ask
    <2>2. RowsCall(n) /\ RowsOwn(n) /\ n.op = "sub" BY RowsAsked
    <2> HIDE DEF n
    <2>3. /\ DOMAIN ui' = DOMAIN ui /\ ui'.page = ui.page /\ ui'.order = ui.order
          /\ ui'.unapplied = ui.unapplied /\ ui'.rows = ui.rows
          /\ ui'.mods = ui.mods /\ ui'.edit = ui.edit /\ ui'.selected = ui.selected
          /\ ui'.dialog = ui.dialog /\ ui'.inserting = ui.inserting /\ ui'.hasty = ui.hasty
          /\ ui'.hasty \in BOOLEAN /\ ui.order \in Things
      BY <2>1 DEF RowsFields
    <2>4. ~RowsBrings(n) /\ n.op # "load" BY <2>2 DEF RowsBrings
    <2> QED BY <2>1, <2>2, <2>3, <2>4, RowsAsks
  <1>6. CASE Rows!ChangeIndexes
    <2> DEFINE n == Rows!Sub("index")
    <2>1. calls' = calls \cup {n} /\ back' = back /\ ui' = ui
      BY <1>6 DEF Rows!ChangeIndexes, Rows!Ask
    <2>2. RowsCall(n) /\ RowsOwn(n) /\ n.op = "index" BY RowsAsked
    <2> HIDE DEF n
    <2>3. ui'.hasty \in BOOLEAN /\ ui.order \in Things BY <2>1 DEF RowsFields
    <2>4. ~RowsBrings(n) /\ n.op # "load" BY <2>2 DEF RowsBrings
    <2> QED BY <2>1, <2>2, <2>3, <2>4, RowsAsks
  <1> QED BY <1>1, <1>2, <1>3, <1>4, <1>5, <1>6

\* The answers of Go: a page, and what leaves the page as it is.
LEMMA RowsAnswers ==
  ASSUME RowsInv, NEW c \in calls,
         \/ Rows!AnswerLoad(c) \/ Rows!AnswerMetadata(c) \/ Rows!AnswerSub(c) \/ Rows!CommitFails(c)
         \/ c.op # "load" /\ Rows!Answered(c) /\ UNCHANGED <<ui, back>>
  PROVE  RowsInv'
  <1> USE DEF RowsInv
  <1>1. calls' = calls \ {c} /\ back' = back
    BY DEF Rows!AnswerLoad, Rows!AnswerMetadata, Rows!AnswerSub, Rows!CommitFails, Rows!Answered
  <1>2. CASE /\ Rows!AnswerLoad(c)
             /\ ui' = [ui EXCEPT !.rows = c.query, !.page = c.query.page, !.mods = {},
                                 !.selected = {}, !.loading = FALSE,
                                 !.unapplied = @ /\ c.query.order # ui.order]
    <2> DEFINE unapplied == ui.unapplied /\ c.query.order # ui.order
    <2>1. c.op = "load" BY <1>2 DEF Rows!AnswerLoad
    <2>2. /\ c.query \in Rows!Queries /\ c.query.page \in (1 .. Bound)
          /\ unapplied \in BOOLEAN /\ (unapplied <=> (ui.unapplied /\ c.query.order # ui.order))
      BY <2>1 DEF RowsFields, RowsCall, Rows!Queries
    <2> HIDE DEF unapplied
    <2>3. /\ DOMAIN ui' = DOMAIN ui /\ ui'.page = c.query.page /\ ui'.rows = c.query
          /\ ui'.order = ui.order /\ ui'.unapplied = unapplied
          /\ ui'.mods = {} /\ ui'.edit = ui.edit /\ ui'.selected = {}
          /\ ui'.dialog = ui.dialog /\ ui'.inserting = ui.inserting /\ ui'.hasty = ui.hasty
      BY <1>2 DEF RowsFields, unapplied
    <2>4. ~ui.hasty => ui.edit = {} BY <2>1 DEF RowsEdit, Rows!Reloads, Rows!CallsOf
    <2>5. RowsFields' BY <1>1, <2>2, <2>3 DEF RowsFields
    <2>6. RowsMeant' BY <1>1, <2>3, <2>4 DEF RowsMeant
    <2>7. RowsEdit' BY <2>3, <2>4 DEF RowsEdit
    <2>8. RowsShown' BY <1>1, <2>1, <2>2, <2>3 DEF RowsShown, RowsBrings
    <2> QED BY <2>5, <2>6, <2>7, <2>8
  <1>4. CASE /\ Rows!AnswerLoad(c)
             /\ ui' = [ui EXCEPT !.loading = FALSE,
                                 !.unapplied = @ \/ (ui.rows # Nothing /\ ui.rows.order # ui.order)]
    <2> DEFINE unapplied == ui.unapplied \/ (ui.rows # Nothing /\ ui.rows.order # ui.order)
    <2>1. /\ unapplied \in BOOLEAN /\ c.op = "load"
          /\ unapplied <=> (ui.unapplied \/ (ui.rows # Nothing /\ ui.rows.order # ui.order))
      BY <1>4 DEF Rows!AnswerLoad, RowsFields
    <2> HIDE DEF unapplied
    <2>2. /\ DOMAIN ui' = DOMAIN ui /\ ui'.page = ui.page /\ ui'.order = ui.order
          /\ ui'.unapplied = unapplied /\ ui'.rows = ui.rows
          /\ ui'.mods = ui.mods /\ ui'.edit = ui.edit /\ ui'.selected = ui.selected
          /\ ui'.dialog = ui.dialog /\ ui'.inserting = ui.inserting /\ ui'.hasty = ui.hasty
      BY <1>4 DEF RowsFields, unapplied
    <2>3. RowsFields' BY <1>1, <2>1, <2>2 DEF RowsFields
    <2>4. RowsMeant' BY <1>1, <2>2 DEF RowsMeant
    <2>5. RowsEdit' BY <1>1, <2>2 DEF RowsEdit, Rows!Reloads, Rows!CallsOf
    <2>6. RowsShown' BY <1>1, <2>1, <2>2 DEF RowsShown, RowsBrings
    <2> QED BY <2>3, <2>4, <2>5, <2>6
  <1>3. CASE /\ c.op # "load"
             /\ \/ \E keys \in BOOLEAN : ui' = [ui EXCEPT !.keys = keys]
                \/ ui' = [ui EXCEPT !.subLoading = FALSE]
                \/ ui' = ui
    <2>1. /\ DOMAIN ui' = DOMAIN ui /\ ui'.page = ui.page /\ ui'.order = ui.order
          /\ ui'.unapplied = ui.unapplied /\ ui'.rows = ui.rows
          /\ ui'.mods = ui.mods /\ ui'.edit = ui.edit /\ ui'.selected = ui.selected
          /\ ui'.dialog = ui.dialog /\ ui'.inserting = ui.inserting /\ ui'.hasty = ui.hasty
      BY <1>3 DEF RowsFields
    <2>2. RowsFields' BY <1>1, <2>1 DEF RowsFields
    <2>3. RowsMeant' BY <1>1, <2>1 DEF RowsMeant
    <2>4. RowsEdit' BY <1>1, <2>1 DEF RowsEdit, Rows!Reloads, Rows!CallsOf
    <2>5. RowsShown' BY <1>1, <1>3, <2>1 DEF RowsShown, RowsBrings
    <2> QED BY <2>2, <2>3, <2>4, <2>5
  <1> QED BY <1>2, <1>3, <1>4 DEF Rows!AnswerLoad, Rows!AnswerMetadata, Rows!AnswerSub,
             Rows!CommitFails

\* A change goes on with the next row, or ends in a load.
LEMMA RowsGoesOn ==
  ASSUME RowsInv, NEW c \in calls,
         \/ \E m \in c.todo : Rows!UpdateRow(c, m)
         \/ Rows!CommitEnds(c)
         \/ Rows!DeleteEnds(c) /\ Rows!Reload(c)
         \/ Rows!InsertEnds(c) /\ Rows!Reload(c)
         \/ Rows!AnswerIndex(c) /\ Rows!Continue(c, Rows!Sub("sub"))
  PROVE  RowsInv'
  <1> USE DEF RowsInv
  <1>1. ASSUME NEW m \in c.todo, Rows!UpdateRow(c, m) PROVE RowsInv'
    <2> DEFINE rest == c.todo \ {m}
               n == [c EXCEPT !.todo = rest]
    <2>1. c.op = "commit" /\ calls' = (calls \ {c}) \cup {n} /\ ui' = ui
          /\ back' = IF m[2] = c.rows THEN back ELSE back \cup {<<c.op, m>>}
      BY <1>1 DEF Rows!UpdateRow, Rows!Continue, Rows!Hit
    <2>2. DOMAIN n = DOMAIN c /\ n.op = c.op /\ n.query = c.query /\ n.rows = c.rows
          /\ n.todo \subseteq c.todo
      BY DEF RowsFields, RowsCall
    <2> HIDE DEF n
    <2>3. RowsCall(n) /\ (RowsOwn(c) => RowsOwn(n)) BY <2>2 DEF RowsFields, RowsCall, RowsOwn
    <2>4. ~ui.hasty => back' = {}
      <3> SUFFICES ASSUME ~ui.hasty PROVE back' = {} OBVIOUS
      <3>1. m[2] = c.rows BY <2>1 DEF RowsMeant, RowsOwn
      <3> QED BY <2>1, <3>1 DEF RowsMeant
    <2>5. RowsFields' BY <2>1, <2>3 DEF RowsFields
    <2>6. RowsMeant' BY <2>1, <2>3, <2>4 DEF RowsMeant
    <2>7. RowsEdit' BY <2>1, <2>2 DEF RowsEdit, Rows!Reloads, Rows!CallsOf
    <2>8. RowsShown' BY <2>1, <2>2 DEF RowsShown, RowsBrings
    <2> QED BY <2>5, <2>6, <2>7, <2>8
  <1>2. CASE Rows!CommitEnds(c) \/ (Rows!DeleteEnds(c) /\ Rows!Reload(c)) \/ (Rows!InsertEnds(c) /\ Rows!Reload(c))
    <2> DEFINE n == Rows!Load(c.query)
    <2>1. c.op \in {"commit", "delete", "insert"} /\ calls' = (calls \ {c}) \cup {n}
      BY <1>2 DEF Rows!CommitEnds, Rows!DeleteEnds, Rows!InsertEnds, Rows!Reload, Rows!Continue
    <2>2. c.query \in Rows!Queries /\ (~ui.hasty => ui.edit = {})
      BY <2>1 DEF RowsFields, RowsCall, RowsEdit, Rows!Reloads, Rows!CallsOf
    <2>3. RowsCall(n) /\ RowsOwn(n) /\ n.op = "load" /\ n.query = c.query BY <2>2, RowsAsked
    <2>4. ~ui.hasty => back' = {}
      <3> SUFFICES ASSUME ~ui.hasty PROVE back' = {} OBVIOUS
      <3>1. c.op = "delete" => \A m \in c.todo : m[2] = c.rows BY DEF RowsMeant, RowsOwn
      <3>2. CASE Rows!DeleteEnds(c) /\ ~(Rows!Answered(c) /\ UNCHANGED <<ui, back>>)
        <4>1. back' = back \cup {<<c.op, m>> : m \in {k \in c.todo : k[2] # c.rows}}
              /\ c.op = "delete"
          BY <3>2 DEF Rows!DeleteEnds
        <4>2. {k \in c.todo : k[2] # c.rows} = {} BY <3>1, <4>1
        <4> QED BY <4>1, <4>2 DEF RowsMeant
      <3> QED BY <1>2, <3>2 DEF Rows!CommitEnds, Rows!InsertEnds, RowsMeant
    <2>5. /\ DOMAIN ui' = DOMAIN ui /\ ui'.page = ui.page /\ ui'.order = ui.order
          /\ ui'.unapplied = ui.unapplied /\ ui'.rows = ui.rows
          /\ ui'.mods \subseteq ui.mods /\ ui'.edit = ui.edit /\ ui'.selected \subseteq ui.selected
          /\ ui'.dialog = ui.dialog /\ ui'.hasty = ui.hasty
      BY Zenon, <1>2 DEF Rows!CommitEnds, Rows!DeleteEnds, Rows!InsertEnds, RowsFields
    <2> HIDE DEF n
    <2>6. RowsFields' BY <2>1, <2>3, <2>5 DEF RowsFields
    <2>7. RowsMeant' BY <2>1, <2>3, <2>4, <2>5 DEF RowsMeant
    <2>8. RowsEdit' BY <2>2, <2>5 DEF RowsEdit
    <2>9. RowsShown' BY <2>1, <2>3, <2>5 DEF RowsShown, RowsBrings
    <2> QED BY <2>6, <2>7, <2>8, <2>9
  <1>3. CASE Rows!AnswerIndex(c) /\ Rows!Continue(c, Rows!Sub("sub"))
    <2> DEFINE n == Rows!Sub("sub")
    <2>1. calls' = (calls \ {c}) \cup {n} /\ back' = back
      BY <1>3 DEF Rows!AnswerIndex, Rows!Continue
    <2>2. RowsCall(n) /\ RowsOwn(n) /\ n.op = "sub" BY RowsAsked
    <2>3. /\ DOMAIN ui' = DOMAIN ui /\ ui'.page = ui.page /\ ui'.order = ui.order
          /\ ui'.unapplied = ui.unapplied /\ ui'.rows = ui.rows
          /\ ui'.mods = ui.mods /\ ui'.edit = ui.edit /\ ui'.selected = ui.selected
          /\ ui'.dialog = ui.dialog /\ ui'.inserting = ui.inserting /\ ui'.hasty = ui.hasty
      BY <1>3 DEF Rows!AnswerIndex, RowsFields
    <2> HIDE DEF n
    <2>4. RowsFields' BY <2>1, <2>2, <2>3 DEF RowsFields
    <2>5. RowsMeant' BY <2>1, <2>2, <2>3 DEF RowsMeant
    <2>6. RowsEdit' BY <2>1, <2>2, <2>3 DEF RowsEdit, Rows!Reloads, Rows!CallsOf
    <2>7. RowsShown' BY <1>3, <2>1, <2>2, <2>3 DEF RowsShown, RowsBrings, Rows!AnswerIndex
    <2> QED BY <2>4, <2>5, <2>6, <2>7
  <1> QED BY <1>1, <1>2, <1>3

\* No step of the page leaves the invariant.
THEOREM RowsNext == RowsInv /\ [Rows!Next]_Rows!vars => RowsInv'
  <1> SUFFICES ASSUME RowsInv, [Rows!Next]_Rows!vars PROVE RowsInv' OBVIOUS
  <1>1. ASSUME NEW c \in calls, Rows!AnswerIndex(c) \/ Rows!DeleteEnds(c) \/ Rows!InsertEnds(c) PROVE RowsInv'
    BY <1>1, RowsAnswers, RowsGoesOn DEF Rows!AnswerIndex, Rows!DeleteEnds, Rows!InsertEnds
  <1>2. CASE Rows!CloseDialog
    <2>1. CASE calls' = calls /\ ui' = [ui EXCEPT !.dialog = {}]
      BY <1>2, <2>1, RowsClicks DEF Rows!CloseDialog
    <2> QED BY Zenon, <1>2, <2>1, RowsWork DEF Rows!CloseDialog
  <1>3. CASE Rows!HandleInsertSubmit
    <2>1. CASE calls' = calls /\ ui' = [ui EXCEPT !.inserting = FALSE]
      BY <1>3, <2>1, RowsClicks DEF Rows!HandleInsertSubmit
    <2> QED BY <1>3, <2>1, RowsWork DEF Rows!HandleInsertSubmit
  <1>4. ASSUME NEW sub, Rows!SelectSubTab(sub) PROVE RowsInv'
    <2>1. CASE calls' = calls /\ ui' = [ui EXCEPT !.sub = sub]
      BY Zenon, <1>4, <2>1, RowsClicks DEF Rows!SelectSubTab
    <2>2. CASE sub \in {"indexes", "fk"} BY Zenon, <1>4, <2>2, RowsWork DEF Rows!SelectSubTab
    <2> QED BY <1>4, <2>1, <2>2 DEF Rows!SelectSubTab
  <1>5. CASE Rows!Cells \/ Rows!DataGrid \/ Rows!HandleOpenInsert \/ Rows!HandleDeleteRows \/ Rows!HandleRollback \/ UNCHANGED Rows!vars
    <2>1. calls' = calls /\ back' = back
      BY Zenon, <1>5 DEF Rows!Cells, Rows!DataGrid, Rows!HandleOpenInsert, Rows!HandleDeleteRows,
         Rows!HandleRollback, Rows!vars,
         Rows!HandleCellEditConfirm, Rows!HandleCellEditCancel, Rows!HandleCellDoubleClick,
         Rows!SelectRow
    <2> QED BY <1>5, <2>1, RowsClicks DEF Rows!Cells, Rows!DataGrid, Rows!vars
  <1>6. 1 \in (1 .. Bound) /\ ui.page \in (1 .. Bound) /\ ui.order \in Things
    BY RowsConstants DEF RowsInv, RowsFields
  <1>7. ASSUME NEW order \in Things, Rows!HandleFilterChange(order) PROVE RowsInv'
    BY Zenon, <1>7, RowsClicks DEF Rows!HandleFilterChange
  <1>8. CASE Rows!Pager \/ Rows!Header \/ Rows!Refresh
    BY <1>6, <1>7, <1>8, RowsWork
       DEF Rows!Pager, Rows!Header, Rows!Refresh, Rows!HandlePageChange, Rows!HandleSort,
          Rows!HandleApplyFilters
  <1> QED
    BY <1>1, <1>2, <1>3, <1>4, <1>5, <1>8, RowsWork, RowsAnswers, RowsGoesOn
       DEF Rows!Next, Rows!Toolbar, Rows!SubTabs, Rows!Answer

\* What the invariant says of the page.
THEOREM RowsSays == RowsInv => Rows!TypeOK /\ Rows!ShownBelongs /\ Rows!UntouchedKept
  <1> SUFFICES ASSUME RowsInv PROVE Rows!TypeOK /\ Rows!ShownBelongs /\ Rows!UntouchedKept OBVIOUS
  <1>1. Rows!TypeOK BY DEF RowsInv, RowsFields, Rows!TypeOK
  <1>2. Rows!UntouchedKept BY DEF RowsInv, RowsMeant, Rows!UntouchedKept
  <1>3. (\E c \in calls : c.op = "load") => Rows!CallsOf({"load"}) # {} BY DEF Rows!CallsOf
  <1>4. Rows!ShownBelongs BY <1>3 DEF RowsInv, RowsMeant, RowsShown, Rows!ShownBelongs
  <1> QED BY <1>1, <1>2, <1>4

-----------------------------------------------------------------------------
\* PGTables.tla
\* What a job is made of.
LEMMA TablesMade ==
  \A op, names : /\ DOMAIN Tables!Job(op, names) = {"op", "todo", "named", "nth"} /\ Tables!Job(op, names).op = op
                 /\ Tables!Job(op, names).todo = names /\ Tables!Job(op, names).named = names
  BY DEF Tables!Job

\* What a load is made of.
LEMMA TablesLoad == TablesJob(Tables!Load) /\ Tables!Load.op = "list"
  <1>1. DOMAIN Tables!Load = {"op", "todo", "named", "nth"} /\ Tables!Load.op = "list" /\ Tables!Load.todo = {}
    BY TablesMade DEF Tables!Load
  <1> QED BY <1>1 DEF TablesJob

\* The page connects.
THEOREM TablesInit == Tables!Init => TablesInv
  <1> SUFFICES ASSUME Tables!Init PROVE TablesInv OBVIOUS
  <1> DEFINE n == Tables!Job("connect", {})
  <1>1. calls = {n} BY DEF Tables!Init
  <1>2. DOMAIN n = {"op", "todo", "named", "nth"} /\ n.op = "connect" /\ n.todo = {}
    BY TablesMade
  <1> HIDE DEF n
  <1>3. TablesFields BY DEF Tables!Init, TablesFields
  <1>4. TablesCalls BY <1>1, <1>2 DEF Tables!Init, TablesCalls, TablesJob
  <1>5. TablesNews BY DEF Tables!Init, TablesNews
  <1> QED BY <1>3, <1>4, <1>5 DEF TablesInv

\* What only the page sees: what is selected, copied, searched for or opened.
LEMMA TablesClicks ==
  ASSUME TablesInv, calls' = calls, back' = back,
         \/ \E s : ui' = [ui EXCEPT !.search = s]
         \/ \E s \in SUBSET (1 .. Bound), t \in (1 .. Bound) \cup {0} : ui' = [ui EXCEPT !.selected = s, !.menu = t]
         \/ \E s \in SUBSET (1 .. Bound) : ui' = [ui EXCEPT !.selected = s]
         \/ ui' = [ui EXCEPT !.clip = ui.selected, !.menu = 0]
         \/ \E s : ui' = [ui EXCEPT !.dialog = @ \ s]
         \/ \E t : ui' = [ui EXCEPT !.rename = t]
         \/ ui' = [ui EXCEPT !.rename = ui.menu, !.menu = 0]
         \/ ui' = [ui EXCEPT !.paste = "closed"]
         \/ ui' = [ui EXCEPT !.ai = ~@]
         \/ ui' = ui
  PROVE  TablesInv'
  <1>1. /\ DOMAIN ui' = DOMAIN ui /\ ui'.phase = ui.phase /\ ui'.list = ui.list
        /\ ui'.news = ui.news /\ ui'.dialog \subseteq ui.dialog /\ ui'.selected \subseteq (1 .. Bound)
        /\ ui'.menu \in (1 .. Bound) \cup {0} /\ ui'.clip \subseteq (1 .. Bound)
    <2>1. /\ DOMAIN ui = {"phase", "list", "loading", "search", "selected", "menu", "rename", "dialog",
                          "clip", "paste", "ai", "news"}
          /\ ui.selected \subseteq (1 .. Bound) /\ ui.clip \subseteq (1 .. Bound)
          /\ ui.menu \in (1 .. Bound) \cup {0}
      BY Zenon DEF TablesInv, TablesFields
    <2>2. CASE \E s \in SUBSET (1 .. Bound), t \in (1 .. Bound) \cup {0} : ui' = [ui EXCEPT !.selected = s, !.menu = t]
      <3>1. PICK s \in SUBSET (1 .. Bound), t \in (1 .. Bound) \cup {0} : ui' = [ui EXCEPT !.selected = s, !.menu = t]
        BY Zenon, <2>2
      <3> QED BY Zenon, <2>1, <3>1
    <2>3. CASE \E s : ui' = [ui EXCEPT !.dialog = @ \ s]
      <3>1. PICK s : ui' = [ui EXCEPT !.dialog = @ \ s] BY Zenon, <2>3
      <3> QED BY Zenon, <2>1, <3>1
    <2>4. CASE \/ \E s : ui' = [ui EXCEPT !.search = s]
               \/ \E s \in SUBSET (1 .. Bound) : ui' = [ui EXCEPT !.selected = s]
               \/ \E t : ui' = [ui EXCEPT !.rename = t]
      BY Zenon, <2>1, <2>4
    <2>5. CASE \/ ui' = [ui EXCEPT !.clip = ui.selected, !.menu = 0]
               \/ ui' = [ui EXCEPT !.rename = ui.menu, !.menu = 0]
               \/ ui' = [ui EXCEPT !.paste = "closed"]
               \/ ui' = [ui EXCEPT !.ai = ~@]
               \/ ui' = ui
      BY Zenon, <2>1, <2>5
    <2> QED BY Zenon, <2>2, <2>3, <2>4, <2>5
  <1>2. TablesFields' BY Zenon, <1>1 DEF TablesInv, TablesFields
  <1>3. TablesCalls' BY Zenon, <1>1 DEF TablesInv, TablesCalls
  <1>4. TablesNews' BY Zenon, <1>1 DEF TablesInv, TablesNews, TablesComes
  <1> QED BY Zenon, <1>2, <1>3, <1>4 DEF TablesInv

\* A question names what it will do.
LEMMA TablesQuestions ==
  ASSUME TablesInv, Tables!HandleDropSelectedTables \/ Tables!HandlePasteTables
  PROVE  TablesInv'
  <1>1. ASSUME NEW op \in {"drop", "paste"}, NEW names \in SUBSET (1 .. Bound), names # {},
               Tables!Question(Tables!Job(op, names)), ui.phase = "ready"
        PROVE  TablesInv'
    <2> DEFINE w == Tables!Job(op, names)
    <2>1. calls' = calls /\ back' = back /\ ui' = [ui EXCEPT !.dialog = {w}, !.menu = 0]
      BY <1>1 DEF Tables!Question
    <2>2. TablesJob(w) /\ w.op = op /\ w.named = names BY <1>1, TablesMade DEF TablesJob
    <2> HIDE DEF w
    <2>3. /\ DOMAIN ui' = DOMAIN ui /\ ui'.phase = ui.phase /\ ui'.list = ui.list
          /\ ui'.news = ui.news /\ ui'.dialog = {w} /\ ui'.selected = ui.selected
          /\ ui'.menu = 0 /\ ui'.clip = ui.clip
      BY <2>1 DEF TablesInv, TablesFields
    <2>4. TablesFields' BY <1>1, <2>1, <2>2, <2>3 DEF TablesInv, TablesFields
    <2>5. TablesCalls' BY <1>1, <2>1, <2>3 DEF TablesInv, TablesCalls
    <2>6. TablesNews' BY <2>1, <2>3 DEF TablesInv, TablesNews, TablesComes
    <2> QED BY <2>4, <2>5, <2>6 DEF TablesInv
  <1>2. ui.selected \in SUBSET (1 .. Bound) /\ ui.clip \in SUBSET (1 .. Bound)
    BY DEF TablesInv, TablesFields
  <1> QED
    BY <1>1, <1>2 DEF Tables!HandleDropSelectedTables, Tables!HandlePasteTables, Tables!Page,
       Tables!Main, Tables!Keys, Tables!Ready

\* A job starts on a page that is ready.
LEMMA TablesStarts ==
  ASSUME TablesInv, ui.phase = "ready", NEW n, TablesJob(n), n.op \notin {"connect", "switch"},
         calls' = calls \cup {n}, back' = back,
         DOMAIN ui' = DOMAIN ui, ui'.phase = ui.phase, ui'.list = ui.list, ui'.news = ui.news,
         ui'.selected = ui.selected, ui'.menu = ui.menu, ui'.clip = ui.clip,
         \A w \in ui'.dialog : TablesJob(w) /\ w.op \in {"drop", "dropping", "paste"}
  PROVE  TablesInv'
  <1>1. TablesFields' BY DEF TablesInv, TablesFields
  <1>2. TablesCalls' BY DEF TablesInv, TablesCalls
  <1>3. TablesNews' BY DEF TablesInv, TablesNews, TablesComes
  <1> QED BY <1>1, <1>2, <1>3 DEF TablesInv

\* The buttons that start one.
LEMMA TablesWork ==
  ASSUME TablesInv,
         \/ Tables!LoadTableList
         \/ \E w \in ui.dialog : Tables!Confirm(w)
         \/ \E t \in (1 .. Bound) : Tables!HandleRenameSubmit(t)
  PROVE  TablesInv'
  <1>0. /\ DOMAIN ui = {"phase", "list", "loading", "search", "selected", "menu", "rename", "dialog",
                        "clip", "paste", "ai", "news"}
        /\ \A w \in ui.dialog : TablesJob(w) /\ w.op \in {"drop", "dropping", "paste"}
    BY DEF TablesInv, TablesFields
  <1>1. CASE Tables!LoadTableList
    <2>1. /\ ui.phase = "ready" /\ calls' = calls \cup {Tables!Load} /\ back' = back
          /\ ui' = [ui EXCEPT !.loading = TRUE]
      BY <1>1 DEF Tables!LoadTableList, Tables!Ask, Tables!Page, Tables!Main, Tables!Ready
    <2>2. /\ DOMAIN ui' = DOMAIN ui /\ ui'.phase = ui.phase /\ ui'.list = ui.list
          /\ ui'.news = ui.news /\ ui'.dialog = ui.dialog /\ ui'.selected = ui.selected
          /\ ui'.menu = ui.menu /\ ui'.clip = ui.clip
      BY <1>0, <2>1
    <2> QED BY <1>0, <2>1, <2>2, TablesLoad, TablesStarts
  <1>2. ASSUME NEW w \in ui.dialog, Tables!Confirm(w) PROVE TablesInv'
    <2>1. /\ TablesJob(w) /\ w.op \in {"drop", "paste"} /\ ui.phase = "ready"
      BY Zenon, <1>0, <1>2 DEF TablesInv, TablesCalls, Tables!Confirm
    <2>2. TablesJob(Tables!Dropping(w)) /\ Tables!Dropping(w).op = "dropping"
      <3>1. CASE w.op = "drop" BY <2>1, <3>1 DEF Tables!Dropping, TablesJob
      <3>2. CASE w.op = "paste" BY <2>1, <3>2 DEF Tables!Dropping, TablesJob
      <3> QED BY <2>1, <3>1, <3>2
    <2>3. calls' = calls \cup {w} /\ back' = back BY Zenon, <1>2 DEF Tables!Confirm, Tables!Ask
    <2>4. /\ DOMAIN ui' = DOMAIN ui /\ ui'.phase = ui.phase /\ ui'.list = ui.list
          /\ ui'.news = ui.news /\ ui'.dialog \subseteq ui.dialog \cup {Tables!Dropping(w)}
          /\ ui'.selected = ui.selected /\ ui'.menu = ui.menu /\ ui'.clip = ui.clip
      BY Zenon, <1>0, <1>2 DEF Tables!Confirm
    <2>5. \A v \in ui'.dialog : TablesJob(v) /\ v.op \in {"drop", "dropping", "paste"}
      BY <1>0, <2>2, <2>4
    <2> QED BY <2>1, <2>3, <2>4, <2>5, TablesStarts
  <1>3. ASSUME NEW t \in (1 .. Bound), Tables!HandleRenameSubmit(t) PROVE TablesInv'
    <2> DEFINE named == {ui.rename}
               n == [Tables!Job("rename", {t}) EXCEPT !.named = named]
    <2>1. CASE t = ui.rename
      <3>1. calls' = calls /\ back' = back /\ ui' = [ui EXCEPT !.rename = 0]
        BY <1>3, <2>1 DEF Tables!HandleRenameSubmit
      <3> QED BY Zenon, <3>1, TablesClicks
    <2>2. CASE t # ui.rename
      <3>1. ui.phase = "ready" /\ calls' = calls \cup {n} /\ back' = back /\ ui' = ui
        BY Zenon, <1>3, <2>2 DEF Tables!HandleRenameSubmit, Tables!Ask, Tables!Main, Tables!Ready
      <3>2. DOMAIN n = {"op", "todo", "named", "nth"} /\ n.op = "rename" /\ n.todo = {t}
        BY TablesMade
      <3> HIDE DEF n
      <3>3. TablesJob(n) BY <3>2 DEF TablesJob
      <3> QED BY <1>0, <3>1, <3>2, <3>3, TablesStarts
    <2> QED BY <2>1, <2>2
  <1> QED BY <1>1, <1>2, <1>3

\* Connecting, and what comes of it.
LEMMA TablesConnects ==
  ASSUME TablesInv,
         Tables!Retry \/ \E c \in calls : Tables!SwitchDatabase(c) \/ Tables!SetSession(c) \/ Tables!ConnectFails(c)
  PROVE  TablesInv'
  <1>1. ASSUME NEW phase, ui.phase # "ready", back' = back, DOMAIN ui' = DOMAIN ui,
               ui'.phase = phase, ui'.list = ui.list, ui'.dialog = ui.dialog,
               ui'.news = ui.news, ui'.selected = ui.selected, ui'.menu = ui.menu, ui'.clip = ui.clip,
               \A c \in calls' : TablesJob(c), \A c, d \in calls' : c = d,
               \A c \in calls' : c.op \in {"connect", "switch"} <=> phase # "ready",
               phase = "ready" => \E c \in calls' : c.op = "list"
        PROVE  TablesInv'
    <2>1. TablesFields' BY <1>1 DEF TablesInv, TablesFields
    <2>2. TablesCalls' BY <1>1 DEF TablesInv, TablesCalls
    <2>3. TablesNews' BY <1>1 DEF TablesInv, TablesNews, TablesComes
    <2> QED BY <2>1, <2>2, <2>3 DEF TablesInv
  <1>2. \A op \in {"connect", "switch"} : TablesJob(Tables!Job(op, {})) /\ Tables!Job(op, {}).op = op
    BY TablesMade DEF TablesJob
  <1>3. CASE Tables!Retry
    <2>1. /\ ui.phase # "ready" /\ calls' = {Tables!Job("connect", {})} /\ back' = back
          /\ ui' = [ui EXCEPT !.phase = "connecting"]
      BY <1>3 DEF Tables!Retry
    <2> DEFINE n == Tables!Job("connect", {})
    <2>2. calls' = {n} /\ TablesJob(n) /\ n.op = "connect" BY <1>2, <2>1
    <2> HIDE DEF n
    <2>3. /\ DOMAIN ui' = DOMAIN ui /\ ui'.phase = "connecting" /\ ui'.list = ui.list
          /\ ui'.dialog = ui.dialog /\ ui'.news = ui.news /\ ui'.selected = ui.selected
          /\ ui'.menu = ui.menu /\ ui'.clip = ui.clip
      BY <2>1 DEF TablesInv, TablesFields
    <2> QED BY <1>1, <2>1, <2>2, <2>3
  <1>4. ASSUME NEW c \in calls, Tables!SwitchDatabase(c) \/ Tables!SetSession(c) \/ Tables!ConnectFails(c) PROVE TablesInv'
    <2>1. ui.phase # "ready" /\ calls = {c}
      BY <1>4 DEF Tables!SwitchDatabase, Tables!SetSession, Tables!ConnectFails, TablesInv,
         TablesCalls
    <2>2. CASE Tables!SwitchDatabase(c)
      <3> DEFINE n == Tables!Job("switch", {})
      <3>1. calls' = {n} /\ back' = back /\ ui' = ui
        BY <2>1, <2>2 DEF Tables!SwitchDatabase, Tables!Continue
      <3>2. TablesJob(n) /\ n.op = "switch" BY <1>2
      <3> HIDE DEF n
      <3> QED BY <1>1, <2>1, <3>1, <3>2
    <2>3. CASE Tables!SetSession(c)
      <3>1. /\ calls' = {Tables!Load} /\ back' = back
            /\ ui' = [ui EXCEPT !.phase = "ready", !.loading = TRUE]
        BY <2>1, <2>3 DEF Tables!SetSession, Tables!Continue
      <3>2. /\ DOMAIN ui' = DOMAIN ui /\ ui'.phase = "ready" /\ ui'.list = ui.list
            /\ ui'.dialog = ui.dialog /\ ui'.news = ui.news /\ ui'.selected = ui.selected
            /\ ui'.menu = ui.menu /\ ui'.clip = ui.clip
        BY <3>1 DEF TablesInv, TablesFields
      <3> QED BY <1>1, <2>1, <3>1, <3>2, TablesLoad
    <2>4. CASE Tables!ConnectFails(c)
      <3>1. calls' = {} /\ back' = back /\ ui' = [ui EXCEPT !.phase = "failed"]
        BY <2>1, <2>4 DEF Tables!ConnectFails, Tables!Answered
      <3>2. /\ DOMAIN ui' = DOMAIN ui /\ ui'.phase = "failed" /\ ui'.list = ui.list
            /\ ui'.dialog = ui.dialog /\ ui'.news = ui.news /\ ui'.selected = ui.selected
            /\ ui'.menu = ui.menu /\ ui'.clip = ui.clip
        BY <3>1 DEF TablesInv, TablesFields
      <3> QED BY <1>1, <2>1, <3>1, <3>2
    <2> QED BY <1>4, <2>2, <2>3, <2>4
  <1> QED BY <1>3, <1>4

\* A job goes on to something that brings the tables there are.
LEMMA TablesGoesOn ==
  ASSUME TablesInv, ui.phase = "ready", NEW c, NEW n, TablesJob(n), calls' = (calls \ {c}) \cup {n},
         n.op \notin {"connect", "switch"},
         n.op \in {"drop", "paste"} \/ (n.op = "read" /\ n.todo = back'.tables),
         ui'.news \in {"due", "seen", "overtaken", "failed"},
         DOMAIN ui' = DOMAIN ui, ui'.phase = ui.phase, ui'.list = ui.list,
         ui'.news = "seen" => ui.news = "seen" /\ back'.tables = back.tables,
         ui'.dialog \subseteq ui.dialog, ui'.selected \subseteq ui.selected, ui'.menu = ui.menu,
         ui'.clip = ui.clip,
         DOMAIN back' = DOMAIN back, back'.tables \subseteq (1 .. Bound), back'.unmeant = {}
  PROVE  TablesInv'
  <1>1. TablesFields' BY DEF TablesInv, TablesFields
  <1>2. TablesCalls' BY DEF TablesInv, TablesCalls
  <1>3. TablesNews' BY DEF TablesInv, TablesNews, TablesComes
  <1> QED BY <1>1, <1>2, <1>3 DEF TablesInv

\* The tables of a drop or a paste, one by one.
LEMMA TablesEach ==
  ASSUME TablesInv, NEW c \in calls, NEW t \in c.todo, Tables!DropTable(c, t) \/ Tables!CopyTable(c, t)
  PROVE  TablesInv'
  <1> DEFINE rest == c.todo \ {t}
             n == [c EXCEPT !.todo = rest]
  <1>1. TablesJob(c) /\ c.op \in {"drop", "paste"} /\ t \in (1 .. Bound) /\ t \in c.named
    BY DEF Tables!DropTable, Tables!CopyTable, TablesInv, TablesCalls, TablesJob
  <1>2. ui.phase = "ready" BY <1>1 DEF TablesInv, TablesCalls
  <1>3. DOMAIN n = DOMAIN c /\ n.op = c.op /\ n.todo = rest /\ n.named = c.named
    BY <1>1 DEF TablesJob
  <1>4. calls' = (calls \ {c}) \cup {n} BY DEF Tables!DropTable, Tables!CopyTable,
                                           Tables!Continue
  <1> HIDE DEF n
  <1>5. TablesJob(n) BY <1>1, <1>3 DEF TablesJob
  <1>6. PICK kept \in SUBSET (1 .. Bound) :
            back' = [tables |-> kept, unmeant |-> back.unmeant \cup ({t} \ c.named)] /\ Tables!Change(kept)
    BY Zenon, <1>1 DEF Tables!DropTable, Tables!CopyTable, TablesInv, TablesFields
  <1>7. DOMAIN back' = DOMAIN back /\ back'.tables = kept /\ back'.unmeant = {}
    BY <1>1, <1>6 DEF TablesInv, TablesFields
  <1>8. n.op \notin {"connect", "switch"} /\ n.op \in {"drop", "paste"} BY <1>1, <1>3
  <1>9. /\ DOMAIN ui' = DOMAIN ui /\ ui'.phase = ui.phase /\ ui'.list = ui.list
        /\ ui'.news = (IF kept = back.tables THEN ui.news ELSE "due")
        /\ ui'.dialog = ui.dialog /\ ui'.selected = ui.selected /\ ui'.menu = ui.menu
        /\ ui'.clip = ui.clip
    BY <1>6 DEF Tables!Change, TablesInv, TablesFields
  <1>10. /\ ui'.news = "seen" => ui.news = "seen" /\ back'.tables = back.tables
         /\ ui'.news \in {"due", "seen", "overtaken", "failed"}
    BY <1>7, <1>9 DEF TablesInv, TablesFields
  <1> QED BY Zenon, <1>2, <1>4, <1>5, <1>6, <1>7, <1>8, <1>9, <1>10, TablesGoesOn

\* A job ends in a list.
LEMMA TablesEnds ==
  ASSUME TablesInv, NEW c \in calls,
         \/ Tables!DropEnds(c) \/ Tables!PasteEnds(c)
         \/ /\ Tables!Continue(c, Tables!Load) /\ c.op = "rename"
            /\ back' = [back EXCEPT !.tables = (@ \ c.named) \cup c.todo]
            /\ ui' = [ui EXCEPT !.rename = 0, !.loading = TRUE, !.news = "due"]
  PROVE  TablesInv'
  <1>1. TablesJob(c) /\ c.op \in {"drop", "paste", "rename"} /\ Tables!Continue(c, Tables!Load)
    BY DEF Tables!DropEnds, Tables!PasteEnds, TablesInv, TablesCalls
  <1>2. ui.phase = "ready" BY <1>1 DEF TablesInv, TablesCalls
  <1>3. calls' = (calls \ {c}) \cup {Tables!Load} BY <1>1 DEF Tables!Continue
  <1>5. /\ DOMAIN ui' = DOMAIN ui /\ ui'.phase = ui.phase /\ ui'.list = ui.list
        /\ ui'.dialog \subseteq ui.dialog /\ ui'.selected \subseteq ui.selected /\ ui'.menu = ui.menu
        /\ ui'.clip = ui.clip
    <2>1. CASE Tables!DropEnds(c) BY <2>1 DEF Tables!DropEnds, TablesInv, TablesFields
    <2>2. CASE Tables!PasteEnds(c) BY <2>2 DEF Tables!PasteEnds, TablesInv, TablesFields
    <2>3. CASE ui' = [ui EXCEPT !.rename = 0, !.loading = TRUE, !.news = "due"]
      BY <2>3 DEF TablesInv, TablesFields
    <2> QED BY <2>1, <2>2, <2>3
  <1>6. DOMAIN back' = DOMAIN back /\ back'.tables \subseteq (1 .. Bound) /\ back'.unmeant = {}
    BY <1>1 DEF Tables!DropEnds, Tables!PasteEnds, TablesInv, TablesFields, TablesJob
  <1>7. /\ ui'.news = "seen" => ui.news = "seen" /\ back'.tables = back.tables
        /\ ui'.news \in {"due", "seen", "overtaken", "failed"}
    <2>1. CASE Tables!DropEnds(c) BY <2>1 DEF Tables!DropEnds, TablesInv, TablesFields
    <2>2. CASE Tables!PasteEnds(c) BY <2>2 DEF Tables!PasteEnds, TablesInv, TablesFields
    <2>3. CASE ui' = [ui EXCEPT !.rename = 0, !.loading = TRUE, !.news = "due"]
      BY <2>3 DEF TablesInv, TablesFields
    <2> QED BY <2>1, <2>2, <2>3
  <1> DEFINE n == Tables!Load
  <1>8. calls' = (calls \ {c}) \cup {n} /\ TablesJob(n) /\ n.op = "list" BY <1>3, TablesLoad
  <1> HIDE DEF n
  <1>9. n.op \notin {"connect", "switch"} /\ (n.op \in {"list", "drop", "paste"}) BY <1>8
  <1>10. TablesFields' BY <1>5, <1>6, <1>7 DEF TablesInv, TablesFields
  <1>11. TablesCalls' BY <1>2, <1>5, <1>8 DEF TablesInv, TablesCalls
  <1>12. TablesNews' BY <1>2, <1>5, <1>7, <1>8 DEF TablesInv, TablesNews, TablesComes
  <1> QED BY <1>10, <1>11, <1>12 DEF TablesInv

\* A call that brings no tables ends, or the change it ends with is given up.
LEMMA TablesStops ==
  ASSUME TablesInv, NEW c \in calls, ui.phase = "ready", calls' = calls \ {c}, back' = back,
         DOMAIN ui' = DOMAIN ui, ui'.phase = ui.phase,
         ui'.list \subseteq (1 .. Bound),
         ui'.news \in {"due", "seen", "overtaken", "failed"},
         ui'.news = "seen" => ui'.list = back.tables,
         ui'.news = "due" => ui.news = "due" /\ ~TablesComes(c),
         \A w \in ui'.dialog : TablesJob(w) /\ w.op \in {"drop", "dropping", "paste"},
         ui'.selected = ui.selected, ui'.menu = ui.menu, ui'.clip = ui.clip
  PROVE  TablesInv'
  <1>1. TablesFields' BY DEF TablesInv, TablesFields
  <1>2. TablesCalls' BY DEF TablesInv, TablesCalls
  <1>3. TablesNews' BY DEF TablesInv, TablesNews, TablesComes
  <1> QED BY <1>1, <1>2, <1>3 DEF TablesInv

\* The list is read and answered, or a job fails.
LEMMA TablesAnswers ==
  ASSUME TablesInv, NEW c \in calls,
         \/ Tables!ReadTables(c) \/ Tables!AnswerList(c) \/ Tables!ListFails(c) \/ Tables!DropFails(c)
         \/ c.op = "rename" /\ Tables!Answered(c) /\ UNCHANGED <<ui, back>>
  PROVE  TablesInv'
  <1>0. /\ DOMAIN ui = {"phase", "list", "loading", "search", "selected", "menu", "rename", "dialog",
                        "clip", "paste", "ai", "news"}
        /\ \A w \in ui.dialog : TablesJob(w) /\ w.op \in {"drop", "dropping", "paste"}
        /\ ui.list \subseteq (1 .. Bound)
    BY DEF TablesInv, TablesFields
  <1>1. TablesJob(c) /\ c.op \in {"list", "read", "drop", "rename"}
    BY DEF Tables!ReadTables, Tables!AnswerList, Tables!ListFails, Tables!DropFails, TablesInv,
       TablesCalls
  <1>2. ui.phase = "ready" /\ back' = back
    BY <1>1 DEF TablesInv, TablesCalls, Tables!ReadTables, Tables!AnswerList, Tables!ListFails,
       Tables!DropFails
  <1>3. CASE Tables!ReadTables(c)
    <2> DEFINE n == [c EXCEPT !.op = "read", !.todo = back.tables]
    <2>1. calls' = (calls \ {c}) \cup {n} /\ ui' = ui
      BY <1>3 DEF Tables!ReadTables, Tables!Continue
    <2>2. DOMAIN n = DOMAIN c /\ n.op = "read" /\ n.todo = back.tables
      BY <1>1 DEF TablesJob
    <2> HIDE DEF n
    <2>3. TablesJob(n) BY <1>1, <2>2 DEF TablesJob, TablesInv, TablesFields
    <2>4. n.op \notin {"connect", "switch"} /\ n.op = "read" /\ n.todo = back'.tables
      BY <1>2, <2>2
    <2>5. /\ DOMAIN back' = DOMAIN back /\ back'.tables = back.tables /\ back'.tables \subseteq (1 .. Bound)
          /\ back'.unmeant = {} /\ ui'.news \in {"due", "seen", "overtaken", "failed"}
          /\ ui'.dialog \subseteq ui.dialog /\ ui'.selected \subseteq ui.selected
      BY <1>2, <2>1 DEF TablesInv, TablesFields
    <2> QED BY <1>2, <2>1, <2>2, <2>3, <2>4, <2>5, TablesGoesOn
  <1>4. CASE Tables!AnswerList(c)
    <2>1. calls' = calls \ {c} /\ c.op = "read" BY <1>4 DEF Tables!AnswerList, Tables!Answered
    <2>2. /\ DOMAIN ui' = DOMAIN ui /\ ui'.phase = ui.phase /\ ui'.list = c.todo
          /\ ui'.news = (IF c.todo = back.tables THEN "seen"
                         ELSE IF ui.news = "seen" THEN "overtaken" ELSE ui.news)
          /\ ui'.dialog = ui.dialog /\ ui'.selected = ui.selected /\ ui'.menu = ui.menu
          /\ ui'.clip = ui.clip
      BY <1>0, <1>4 DEF Tables!AnswerList
    <2>3. ui'.list \subseteq (1 .. Bound) BY <1>1, <2>2 DEF TablesJob
    <2>4. ui'.news = "seen" => ui'.list = back.tables BY <2>2
    <2>6. ui'.news \in {"due", "seen", "overtaken", "failed"}
      BY <2>2 DEF TablesInv, TablesFields
    <2>5. ui'.news = "due" => ui.news = "due" /\ ~TablesComes(c) BY <2>1, <2>2 DEF TablesComes
    <2> QED BY <1>0, <1>2, <2>1, <2>2, <2>3, <2>4, <2>5, <2>6, TablesStops
  <1>5. CASE Tables!ListFails(c) \/ Tables!DropFails(c)
    <2> DEFINE asked == Tables!Job("drop", c.named)
    <2>1. calls' = calls \ {c} BY <1>5 DEF Tables!ListFails, Tables!DropFails, Tables!Answered
    <2>2. /\ DOMAIN ui' = DOMAIN ui /\ ui'.phase = ui.phase /\ ui'.list = ui.list
          /\ ui'.news = Tables!Missed /\ ui'.selected = ui.selected /\ ui'.menu = ui.menu
          /\ ui'.clip = ui.clip
      BY Zenon, <1>0, <1>5 DEF Tables!ListFails, Tables!DropFails
    <2>3. \A w \in ui'.dialog : w \in ui.dialog \/ (w = asked /\ c.op = "drop")
      <3>1. CASE Tables!ListFails(c) BY <1>0, <3>1 DEF Tables!ListFails
      <3>2. CASE Tables!DropFails(c) BY <1>0, <3>2 DEF Tables!DropFails
      <3> QED BY <1>5, <3>1, <3>2
    <2>4. asked.op = "drop" /\ (c.op = "drop" => TablesJob(asked))
      BY <1>1, TablesMade DEF TablesJob
    <2> HIDE DEF asked
    <2>5. \A w \in ui'.dialog : TablesJob(w) /\ w.op \in {"drop", "dropping", "paste"}
      BY <1>0, <2>3, <2>4
    <2>6. ui'.news = "seen" => ui'.list = back.tables
      BY <1>2, <2>2 DEF Tables!Missed, TablesInv, TablesNews
    <2>7. ui'.news # "due" BY <2>2 DEF Tables!Missed
    <2>8. ui'.news \in {"due", "seen", "overtaken", "failed"}
      BY <2>2 DEF Tables!Missed, TablesInv, TablesFields
    <2> QED BY <1>0, <1>2, <2>1, <2>2, <2>5, <2>6, <2>7, <2>8, TablesStops
  <1>6. CASE c.op = "rename" /\ Tables!Answered(c) /\ UNCHANGED <<ui, back>>
    <2>1. calls' = calls \ {c} /\ ui' = ui /\ c.op = "rename" BY <1>6 DEF Tables!Answered
    <2>2. ui.news = "seen" => ui.list = back.tables BY <1>2 DEF TablesInv, TablesNews
    <2>3. ~TablesComes(c) BY <2>1 DEF TablesComes
    <2>4. ui'.news \in {"due", "seen", "overtaken", "failed"}
      BY <2>1 DEF TablesInv, TablesFields
    <2> QED BY <1>0, <1>2, <2>1, <2>2, <2>3, <2>4, TablesStops
  <1> QED BY <1>3, <1>4, <1>5, <1>6

\* A click on a table or beside one leaves a selection of tables.
LEMMA TablesSelects ==
  ASSUME TablesInv, Tables!Clicks \/ Tables!SelectAll
  PROVE  TablesInv'
  <1>1. Tables!Filtered \subseteq (1 .. Bound) /\ ui.selected \subseteq (1 .. Bound)
    BY DEF TablesInv, TablesFields, Tables!Filtered
  <1>2. ASSUME NEW s \in SUBSET (1 .. Bound), NEW t \in (1 .. Bound) \cup {0}, calls' = calls, back' = back,
               \/ ui' = [ui EXCEPT !.selected = s, !.menu = t] \/ ui' = [ui EXCEPT !.selected = s]
        PROVE  TablesInv'
    BY Zenon, <1>2, TablesClicks
  <1>3. ASSUME NEW t \in (1 .. Bound), Tables!HandleContextMenu(t) PROVE TablesInv'
    <2> DEFINE s == IF t \in ui.selected THEN ui.selected ELSE {t}
    <2>1. calls' = calls /\ back' = back /\ ui' = [ui EXCEPT !.selected = s, !.menu = t]
      BY Zenon, <1>3 DEF Tables!HandleContextMenu, TablesInv, TablesFields
    <2>2. s \in SUBSET (1 .. Bound) BY <1>1
    <2> HIDE DEF s
    <2> QED BY Zenon, <1>2, <2>1, <2>2
  <1>4. ASSUME NEW t \in (1 .. Bound), NEW key, Tables!HandleTableClick(t, key) PROVE TablesInv'
    <2>1. PICK range \in {{}} \cup {r \in SUBSET Tables!Filtered : t \in r} :
            ui' = [ui EXCEPT !.selected = CASE key = "shift" -> ui.selected \cup range
                                            [] key = "ctrl" -> (ui.selected \ {t}) \cup ({t} \ ui.selected)
                                            [] OTHER -> {t},
                             !.menu = 0]
      BY Zenon, <1>4 DEF Tables!HandleTableClick
    <2> DEFINE s == CASE key = "shift" -> ui.selected \cup range
                      [] key = "ctrl" -> (ui.selected \ {t}) \cup ({t} \ ui.selected)
                      [] OTHER -> {t}
    <2>2. range \subseteq (1 .. Bound) BY Zenon, <1>1
    <2>3. s \in SUBSET (1 .. Bound) BY <1>1, <2>2
    <2>4. calls' = calls /\ back' = back /\ ui' = [ui EXCEPT !.selected = s, !.menu = 0]
      BY <1>4, <2>1 DEF Tables!HandleTableClick
    <2> HIDE DEF s
    <2> QED BY Zenon, <1>2, <2>3, <2>4
  <1>5. ASSUME NEW s \in SUBSET (1 .. Bound), Tables!RubberBand(s) PROVE TablesInv'
    BY Zenon, <1>2, <1>5 DEF Tables!RubberBand
  <1>6. CASE Tables!ClickBeside BY Zenon, <1>2, <1>6 DEF Tables!ClickBeside
  <1>7. CASE Tables!SelectAll BY Zenon, <1>1, <1>2, <1>7 DEF Tables!SelectAll
  <1> QED BY <1>3, <1>4, <1>5, <1>6, <1>7 DEF Tables!Clicks

\* No step of the page or of Go leaves the invariant.
THEOREM TablesNext == TablesInv /\ [Tables!Next]_Tables!vars => TablesInv'
  <1> SUFFICES ASSUME TablesInv, [Tables!Next]_Tables!vars PROVE TablesInv' OBVIOUS
  <1>1. ASSUME NEW s, Tables!Search(s) PROVE TablesInv' BY Zenon, <1>1, TablesClicks DEF Tables!Search
  <1>2. CASE Tables!HandleCopyTables BY <1>2, TablesClicks DEF Tables!HandleCopyTables
  <1>3. CASE Tables!ToggleAI BY <1>3, TablesClicks DEF Tables!ToggleAI
  <1>4. CASE Tables!OpenRename BY <1>4, TablesClicks DEF Tables!OpenRename
  <1>5. CASE Tables!ClosePaste BY <1>5, TablesClicks DEF Tables!ClosePaste
  <1>6. ASSUME NEW w \in ui.dialog, Tables!Cancel(w) PROVE TablesInv'
    BY Zenon, <1>6, TablesClicks DEF Tables!Cancel
  <1>7. CASE UNCHANGED Tables!vars BY <1>7, TablesClicks DEF Tables!vars
  <1>8. ASSUME NEW c \in calls, Tables!RenameTable(c) PROVE TablesInv'
    BY <1>8, TablesEnds, TablesAnswers DEF Tables!RenameTable
  <1>9. CASE Tables!LoadTableList BY <1>9, TablesWork
  <1> QED
    BY <1>1, <1>2, <1>3, <1>4, <1>5, <1>6, <1>7, <1>8, <1>9, TablesSelects, TablesQuestions,
       TablesWork,
       TablesConnects, TablesEach, TablesEnds, TablesAnswers
       DEF Tables!Next, Tables!Toolbar, Tables!Shortcuts, Tables!Menu, Tables!Dialogs,
          Tables!Answer

\* What the invariant says of the page.
THEOREM TablesSays == TablesInv => Tables!TypeOK /\ Tables!ShownBelongs /\ Tables!UntouchedKept
  <1> SUFFICES ASSUME TablesInv PROVE Tables!TypeOK /\ Tables!ShownBelongs /\ Tables!UntouchedKept OBVIOUS
  <1>1. Tables!TypeOK
    <2>1. \A w \in ui.dialog : w.named \subseteq (1 .. Bound) /\ w.named # {}
      BY DEF TablesInv, TablesFields, TablesJob
    <2> QED BY <2>1 DEF TablesInv, TablesFields, Tables!TypeOK
  <1>2. Tables!UntouchedKept BY DEF TablesInv, TablesFields, Tables!UntouchedKept
  <1>3. Tables!ShownBelongs
    <2>1. SUFFICES ASSUME ui.phase = "ready", Tables!Jobs = {}, ui.news \notin {"failed", "overtaken"}
                   PROVE  ui.list = back.tables
      BY DEF Tables!ShownBelongs, Tables!Ready
    <2>2. ui.news \in {"due", "seen", "failed", "overtaken"} BY DEF TablesInv, TablesFields
    <2>3. ui.news # "due" BY <2>1 DEF TablesInv, TablesNews, TablesComes, Tables!Jobs,
                             Tables!CallsOf
    <2> QED BY <2>1, <2>2, <2>3 DEF TablesInv, TablesNews
  <1> QED BY <1>1, <1>2, <1>3

-----------------------------------------------------------------------------
\* RedisKeys.tla
\* The constants of the page.
LEMMA RedisConstants == 0 \in 0 .. Bound - 1 /\ Second \in Things /\ Nothing \notin Things
  BY PagesAssumption, TwoThings

\* The calls of the page are such calls.
LEMMA RedisJobs ==
  \A op, k : /\ DOMAIN Redis!Job(op, k) = {"op", "key", "was", "pattern", "more", "db"}
             /\ Redis!Job(op, k).op = op /\ Redis!Job(op, k).key = k /\ Redis!Job(op, k).pattern = Second
             /\ Redis!Job(op, k).more = FALSE /\ Redis!Job(op, k).db = 0
  BY DEF Redis!Job

\* The call that lists keys asks for what its arguments say.
LEMMA RedisLoads ==
  \A p \in Things, more \in BOOLEAN :
      RedisJob(Redis!Load(p, more)) /\ Redis!Load(p, more).op = "load" /\ Redis!Load(p, more).more = more /\ Redis!Load(p, more).pattern = p
  <1> SUFFICES ASSUME NEW p \in Things, NEW more \in BOOLEAN
               PROVE  RedisJob(Redis!Load(p, more)) /\ Redis!Load(p, more).op = "load" /\ Redis!Load(p, more).more = more
                      /\ Redis!Load(p, more).pattern = p
    OBVIOUS
  <1> DEFINE j == Redis!Job("load", Nothing)
             n == [j EXCEPT !.pattern = p, !.more = more]
  <1>1. Redis!Load(p, more) = n BY DEF Redis!Load
  <1>2. DOMAIN j = {"op", "key", "was", "pattern", "more", "db"} /\ j.op = "load" /\ j.db = 0
    BY RedisJobs
  <1> HIDE DEF j
  <1>3. /\ DOMAIN n = {"op", "key", "was", "pattern", "more", "db"} /\ n.op = "load" /\ n.db = 0
        /\ n.pattern = p /\ n.more = more
    BY <1>2
  <1> HIDE DEF n
  <1>4. RedisJob(n) BY <1>3, RedisConstants DEF RedisJob
  <1> QED BY <1>1, <1>3, <1>4

\* The page connects.
THEOREM RedisInit == Redis!Init => RedisInv
  <1> SUFFICES ASSUME Redis!Init PROVE RedisInv OBVIOUS
  <1> DEFINE n == Redis!Job("connect", Nothing)
  <1>1. calls = {n} BY DEF Redis!Init
  <1>3. n = Redis!Job("connect", Nothing) OBVIOUS
  <1> HIDE DEF n
  <1>7. /\ DOMAIN n = {"op", "key", "was", "pattern", "more", "db"} /\ n.op = "connect"
        /\ n.pattern = Second /\ n.more = FALSE /\ n.db = 0
    BY <1>3, RedisJobs
  <1>2. n.op = "connect" /\ RedisJob(n) BY Zenon, <1>3, <1>7, RedisConstants DEF RedisJob
  <1>4. RedisFields BY <1>1, <1>2, RedisConstants DEF Redis!Init, RedisFields
  <1>5. RedisFirst BY <1>1, <1>2 DEF Redis!Init, RedisFirst
  <1>6. RedisClean BY <1>1, <1>2, RedisConstants DEF Redis!Init, RedisClean, RedisAs, RedisPair
  <1> QED BY <1>4, <1>5, <1>6 DEF RedisInv

\* What changes nothing that a call or the list goes by.
LEMMA RedisShown ==
  ASSUME RedisInv, calls' = calls, back' = back,
         \/ \E p \in Things : ui' = [ui EXCEPT !.pattern = p]
         \/ \E e : ui' = [ui EXCEPT !.editor = e]
         \/ ui.connected /\ ui' = [ui EXCEPT !.creating = TRUE]
         \/ ui' = [ui EXCEPT !.creating = FALSE]
         \/ ui' = ui
  PROVE  RedisInv'
  <1>1. /\ DOMAIN ui' = DOMAIN ui /\ ui'.connected = ui.connected /\ ui'.connecting = ui.connecting
        /\ ui'.pattern \in Things /\ ui'.listed = ui.listed /\ ui'.selected = ui.selected
        /\ ui'.value = ui.value /\ ui'.db = ui.db /\ ui'.hasty = ui.hasty
        /\ (ui'.creating => ui.creating \/ ui.connected)
    BY DEF RedisInv, RedisFields
  <1>2. RedisFields' BY <1>1 DEF RedisInv, RedisFields
  <1>3. RedisFirst' BY <1>1 DEF RedisInv, RedisFirst
  <1>4. RedisClean' BY <1>1 DEF RedisInv, RedisClean, RedisAs
  <1> QED BY <1>2, <1>3, <1>4 DEF RedisInv

\* Something is asked for: alone, or in haste.
LEMMA RedisAsks ==
  ASSUME RedisInv, NEW n, RedisJob(n), n.op \notin {"connect", "switched"}, ui.connected,
         calls' = calls \cup {n}, back' = back,
         DOMAIN ui' = DOMAIN ui, ui'.connected = ui.connected, ui'.pattern = ui.pattern,
         ui'.listed = ui.listed, ui'.selected \in Things \cup {Nothing}, ui'.value \subseteq ui.value,
         ui'.db = ui.db, ui'.hasty \in BOOLEAN,
         ~ui'.hasty => ~ui.hasty /\ calls = {} /\ RedisAs(n)',
         ui'.value = {} \/ n.op = "read" \/ (ui'.selected = ui.selected /\ ui'.value = ui.value)
  PROVE  RedisInv'
  <1>1. RedisFields' BY DEF RedisInv, RedisFields
  <1>2. RedisFirst' BY DEF RedisInv, RedisFirst
  <1>3. RedisClean'
    <2> SUFFICES ASSUME ~ui'.hasty PROVE RedisClean' BY DEF RedisClean
    <2>1. calls' = {n} /\ ~ui.hasty /\ calls = {} OBVIOUS
    <2>2. /\ ui.db = back.db /\ back.wrong = {}
          /\ \E p \in Things : ui.listed \subseteq {<<ui.db, p>>}
          /\ ui.value = {} \/ ui.value = {<<ui.selected, ui.db>>}
      BY <2>1 DEF RedisInv, RedisClean
    <2>3. \A c \in calls' : RedisAs(c)' BY <2>1
    <2>4. ui'.value = {} \/ n.op = "read" \/ ui'.value = {<<ui'.selected, ui'.db>>} BY <2>2
    <2> QED BY <2>1, <2>2, <2>3, <2>4 DEF RedisClean, RedisPair
  <1> QED BY <1>1, <1>2, <1>3 DEF RedisInv

\* A click: what it asks for, unless the page is disturbed.
LEMMA RedisClicks ==
  ASSUME RedisInv, NEW n, NEW u, Redis!Clicked(n, u), RedisJob(n), n.op \notin {"connect", "switched"},
         DOMAIN u = DOMAIN ui, u.connected = ui.connected, u.pattern = ui.pattern,
         u.listed = ui.listed, u.selected \in Things \cup {Nothing}, u.value \subseteq ui.value,
         u.db = ui.db, u.hasty \in BOOLEAN,
         u.value = {} \/ n.op = "read" \/ (u.selected = ui.selected /\ u.value = ui.value),
         ~u.hasty /\ ~Redis!Disturbed =>
            /\ n.op = "load" /\ n.more => u.listed = {<<u.db, n.pattern>>}
            /\ n.op \in {"read", "change", "ttl"} => n.key = u.selected
            /\ n.op = "rename" => n.was = u.selected
            /\ n.op \in {"change", "ttl", "rename"} => u.value # {}
  PROVE  RedisInv'
  <1> DEFINE quick == u.hasty \/ Redis!Disturbed
  <1>1. /\ ui.connected /\ ~ui.hasty /\ calls' = calls \cup {n} /\ back' = back
        /\ ui' = [u EXCEPT !.hasty = quick]
    BY DEF Redis!Clicked, Redis!Free, Redis!Ask
  <1>2. quick \in BOOLEAN /\ (~quick => ~ui.hasty /\ calls = {} /\ ~u.hasty /\ ~Redis!Disturbed)
    BY DEF Redis!Disturbed, RedisInv, RedisFields
  <1> HIDE DEF quick
  <1>3. /\ DOMAIN ui' = DOMAIN ui /\ ui'.connected = u.connected /\ ui'.pattern = u.pattern
        /\ ui'.listed = u.listed /\ ui'.selected = u.selected /\ ui'.value = u.value
        /\ ui'.db = u.db /\ ui'.hasty = quick
    BY Zenon, <1>1 DEF RedisInv, RedisFields
  <1>4. ~quick => RedisAs(n)' BY <1>2, <1>3 DEF RedisAs
  <1>5. /\ ui'.connected = ui.connected /\ ui'.pattern = ui.pattern /\ ui'.listed = ui.listed
        /\ ui'.selected \in Things \cup {Nothing} /\ ui'.value \subseteq ui.value /\ ui'.db = ui.db
        /\ ui'.hasty \in BOOLEAN
        /\ ui'.value = {} \/ n.op = "read" \/ (ui'.selected = ui.selected /\ ui'.value = ui.value)
    BY <1>2, <1>3
  <1> QED BY Zenon, <1>1, <1>2, <1>3, <1>4, <1>5, RedisAsks

\* The clicks of the lists, the panel and the head.
LEMMA RedisWork ==
  ASSUME RedisInv,
         \/ Redis!HandleSearch \/ Redis!HandleLoadMore \/ Redis!HandleChange
         \/ \E k \in Things : Redis!HandleSelectKey(k) \/ Redis!HandleDeleteKey(k) \/ Redis!HandleRename(k)
         \/ \E d \in (0 .. Bound - 1) : Redis!HandleSwitchDB(d)
  PROVE  RedisInv'
  <1>1. /\ DOMAIN ui = {"connected", "connecting", "pattern", "listed", "more", "loading", "selected",
                        "value", "editor", "db", "creating", "hasty"}
        /\ ui.selected \in Things \cup {Nothing} /\ ui.hasty \in BOOLEAN /\ ui.pattern \in Things
        /\ ui.db \in (0 .. Bound - 1)
    BY DEF RedisInv, RedisFields
  <1>2. CASE Redis!HandleSearch
    <2> DEFINE n == Redis!Load(ui.pattern, FALSE)
               u == [ui EXCEPT !.selected = Nothing, !.value = {}, !.loading = TRUE]
    <2>1. Redis!Clicked(n, u) BY Zenon, <1>2 DEF Redis!HandleSearch
    <2>2. RedisJob(n) /\ n.op = "load" /\ n.more = FALSE BY Zenon, <1>1, RedisLoads
    <2>3. /\ DOMAIN u = DOMAIN ui /\ u.connected = ui.connected /\ u.pattern = ui.pattern
          /\ u.listed = ui.listed /\ u.selected = Nothing /\ u.value = {} /\ u.db = ui.db
          /\ u.hasty = ui.hasty
      BY <1>1
    <2> HIDE DEF n, u
    <2> QED BY <1>1, <2>1, <2>2, <2>3, RedisClicks
  <1>3. CASE Redis!HandleLoadMore
    <2> DEFINE n == Redis!Load(ui.pattern, TRUE)
               other == <<ui.db, ui.pattern>> \notin ui.listed
               u == [ui EXCEPT !.loading = TRUE, !.hasty = other]
    <2>1. Redis!Clicked(n, u) /\ ~ui.hasty
      BY Zenon, <1>3 DEF Redis!HandleLoadMore, Redis!Clicked, Redis!Free
    <2>2. RedisJob(n) /\ n.op = "load" /\ n.pattern = ui.pattern BY Zenon, <1>1, RedisLoads
    <2>3. /\ DOMAIN u = DOMAIN ui /\ u.connected = ui.connected /\ u.pattern = ui.pattern
          /\ u.listed = ui.listed /\ u.selected = ui.selected /\ u.value = ui.value /\ u.db = ui.db
          /\ u.hasty = other /\ other \in BOOLEAN
      BY <1>1
    <2>4. ~other /\ ~Redis!Disturbed => ui.listed = {<<ui.db, ui.pattern>>}
      <3> SUFFICES ASSUME <<ui.db, ui.pattern>> \in ui.listed, calls = {}
                   PROVE  ui.listed = {<<ui.db, ui.pattern>>}
        BY DEF Redis!Disturbed
      <3>1. PICK p \in Things : ui.listed \subseteq {<<ui.db, p>>}
        BY <2>1 DEF RedisInv, RedisClean
      <3> QED BY <3>1
    <2> HIDE DEF n, u, other
    <2> QED BY <1>1, <2>1, <2>2, <2>3, <2>4, RedisClicks
  <1>4. ASSUME NEW k \in Things, Redis!HandleSelectKey(k) PROVE RedisInv'
    <2> DEFINE n == Redis!Job("read", k)
               open == ui.editor # "none"
               u == [ui EXCEPT !.selected = k, !.hasty = open]
    <2>1. Redis!Clicked(n, u) BY Zenon, <1>4 DEF Redis!HandleSelectKey
    <2>2. RedisJob(n) /\ n.op = "read" /\ n.key = k
      <3>1. /\ DOMAIN n = {"op", "key", "was", "pattern", "more", "db"} /\ n.op = "read" /\ n.key = k
            /\ n.pattern = Second /\ n.more = FALSE /\ n.db = 0
        BY RedisJobs
      <3> HIDE DEF n
      <3> QED BY Zenon, <3>1, RedisConstants DEF RedisJob
    <2>3. /\ DOMAIN u = DOMAIN ui /\ u.connected = ui.connected /\ u.pattern = ui.pattern
          /\ u.listed = ui.listed /\ u.selected = k /\ u.value = ui.value /\ u.db = ui.db
          /\ u.hasty = open /\ open \in BOOLEAN
      BY <1>1
    <2> HIDE DEF n, u, open
    <2> QED BY <1>1, <2>1, <2>2, <2>3, RedisClicks
  <1>5. ASSUME NEW n, RedisJob(n), Redis!Clicked(n, ui), n.op \in {"delete", "switch", "change", "ttl", "rename"},
               n.op \in {"change", "ttl"} => n.key = ui.selected /\ ui.value # {},
               n.op = "rename" => n.was = ui.selected /\ ui.value # {}
        PROVE  RedisInv'
    BY <1>1, <1>5, RedisClicks
  <1>6. ASSUME NEW k \in Things, Redis!HandleDeleteKey(k) PROVE RedisInv'
    <2> DEFINE j == Redis!Job("delete", k)
               n == [j EXCEPT !.was = ui.selected, !.pattern = ui.pattern]
    <2>1. Redis!Clicked(n, ui) BY Zenon, <1>6 DEF Redis!HandleDeleteKey
    <2>2. /\ DOMAIN j = {"op", "key", "was", "pattern", "more", "db"} /\ j.op = "delete" /\ j.more = FALSE
          /\ j.db = 0
      BY RedisJobs
    <2> HIDE DEF j
    <2>3. /\ DOMAIN n = {"op", "key", "was", "pattern", "more", "db"} /\ n.op = "delete" /\ n.more = FALSE
          /\ n.db = 0 /\ n.pattern = ui.pattern
      BY <2>2
    <2> HIDE DEF n
    <2>4. RedisJob(n) BY Zenon, <1>1, <2>3, RedisConstants DEF RedisJob
    <2> QED BY <1>5, <2>1, <2>3, <2>4
  <1>7. ASSUME NEW k \in Things, Redis!HandleRename(k) PROVE RedisInv'
    <2> DEFINE j == Redis!Job("rename", k)
               n == [j EXCEPT !.was = ui.selected, !.pattern = ui.pattern]
    <2>1. Redis!Clicked(n, ui) /\ ui.value # {} BY Zenon, <1>7 DEF Redis!HandleRename, Redis!Panel
    <2>2. /\ DOMAIN j = {"op", "key", "was", "pattern", "more", "db"} /\ j.op = "rename" /\ j.more = FALSE
          /\ j.db = 0 /\ j.key = k
      BY RedisJobs
    <2> HIDE DEF j
    <2>3. /\ DOMAIN n = {"op", "key", "was", "pattern", "more", "db"} /\ n.op = "rename" /\ n.more = FALSE
          /\ n.db = 0 /\ n.pattern = ui.pattern /\ n.key = k /\ n.was = ui.selected
      BY <2>2
    <2> HIDE DEF n
    <2>4. RedisJob(n) BY Zenon, <1>1, <2>3, RedisConstants DEF RedisJob
    <2> QED BY <1>5, <2>1, <2>3, <2>4
  <1>8. ASSUME NEW d \in (0 .. Bound - 1), Redis!HandleSwitchDB(d) PROVE RedisInv'
    <2> DEFINE j == Redis!Job("switch", Nothing)
               n == [j EXCEPT !.db = d, !.pattern = ui.pattern]
    <2>1. Redis!Clicked(n, ui) BY Zenon, <1>8 DEF Redis!HandleSwitchDB
    <2>2. /\ DOMAIN j = {"op", "key", "was", "pattern", "more", "db"} /\ j.op = "switch" /\ j.more = FALSE
      BY RedisJobs
    <2> HIDE DEF j
    <2>3. /\ DOMAIN n = {"op", "key", "was", "pattern", "more", "db"} /\ n.op = "switch" /\ n.more = FALSE
          /\ n.db = d /\ n.pattern = ui.pattern
      BY <2>2
    <2> HIDE DEF n
    <2>4. RedisJob(n) BY Zenon, <1>1, <2>3 DEF RedisJob
    <2> QED BY <1>5, <2>1, <2>3, <2>4
  <1>9. CASE Redis!HandleChange
    <2> DEFINE op == IF ui.editor = "ttl" THEN "ttl" ELSE "change"
               j == Redis!Job(op, ui.selected)
               n == [j EXCEPT !.db = ui.db]
    <2>1. Redis!Clicked(n, ui) /\ ui.value # {} /\ ui.selected # Nothing
      BY <1>9 DEF Redis!HandleChange, Redis!Panel
    <2>2. /\ DOMAIN j = {"op", "key", "was", "pattern", "more", "db"} /\ j.op = op /\ j.more = FALSE
          /\ j.pattern = Second /\ j.key = ui.selected
      BY RedisJobs
    <2>3. op \in {"change", "ttl"} OBVIOUS
    <2> HIDE DEF j, op
    <2>4. /\ DOMAIN n = {"op", "key", "was", "pattern", "more", "db"} /\ n.op = op /\ n.more = FALSE
          /\ n.db = ui.db /\ n.pattern = Second /\ n.key = ui.selected
      BY <2>2
    <2> HIDE DEF n
    <2>5. RedisJob(n) BY Zenon, <1>1, <2>1, <2>3, <2>4, RedisConstants DEF RedisJob
    <2>6. n.op \in {"delete", "switch", "change", "ttl", "rename"} /\ n.op # "rename"
      BY <2>3, <2>4
    <2> QED BY <1>5, <2>1, <2>4, <2>5, <2>6
  <1> QED BY <1>2, <1>3, <1>4, <1>6, <1>7, <1>8, <1>9

\* A change under way is alone.
LEMMA RedisAlone ==
  ASSUME RedisInv, ~ui.hasty, NEW c \in calls, c.op \notin {"load", "read"}
  PROVE  /\ calls = {c} /\ RedisAs(c) /\ back.wrong = {}
         /\ c.op # "switched" => ui.db = back.db
         /\ \E p \in Things : ui.listed \subseteq {<<ui.db, p>>}
         /\ ui.value = {} \/ ui.value = {<<ui.selected, ui.db>>}
  <1>1. \A d \in calls : d = c BY DEF RedisInv, RedisClean, RedisPair
  <1>2. calls = {c} BY <1>1
  <1>3. /\ RedisAs(c) /\ back.wrong = {}
        /\ (\A d \in calls : d.op # "switched") => ui.db = back.db
        /\ (\A d \in calls : d.op # "load" \/ d.more) => \E p \in Things : ui.listed \subseteq {<<ui.db, p>>}
        /\ (\A d \in calls : d.op # "read") => ui.value = {} \/ ui.value = {<<ui.selected, ui.db>>}
    BY DEF RedisInv, RedisClean
  <1> QED BY <1>2, <1>3

\* A page of the list comes, or does not.
LEMMA RedisListed ==
  ASSUME RedisInv, NEW c \in calls, Redis!AnswerLoad(c) PROVE RedisInv'
  <1> DEFINE fresh == {<<back.db, c.pattern>>}
  <1>1. /\ c.op = "load" /\ calls' = calls \ {c} /\ back' = back
        /\ DOMAIN ui' = DOMAIN ui /\ ui'.connected = ui.connected /\ ui'.connecting = ui.connecting
        /\ ui'.pattern = ui.pattern /\ ui'.selected = ui.selected /\ ui'.value = ui.value
        /\ ui'.db = ui.db /\ ui'.creating = ui.creating
    BY Zenon DEF Redis!AnswerLoad, Redis!Answered, RedisInv, RedisFields
  <1>2. fresh \subseteq (0 .. Bound - 1) \X Things /\ ui.hasty \in BOOLEAN
    BY DEF RedisInv, RedisFields, RedisJob
  <1>3. \/ /\ ui'.listed = IF c.more THEN ui.listed \cup fresh ELSE fresh
           /\ ui'.hasty = ui.hasty
        \/ /\ ui'.listed = ui.listed
           /\ ui'.hasty = (ui.hasty \/ ~(ui.listed \subseteq fresh))
    <2> DEFINE wide == ~(ui.listed \subseteq fresh)
               more == IF c.more THEN ui.listed \cup fresh ELSE fresh
    <2>1. \/ \E m \in BOOLEAN : ui' = [ui EXCEPT !.loading = FALSE, !.more = m, !.listed = more]
          \/ ui' = [ui EXCEPT !.loading = FALSE, !.hasty = @ \/ wide]
      BY Zenon DEF Redis!AnswerLoad
    <2>2. /\ "loading" \in DOMAIN ui /\ "more" \in DOMAIN ui /\ "listed" \in DOMAIN ui
          /\ "hasty" \in DOMAIN ui
      BY DEF RedisInv, RedisFields
    <2> HIDE DEF wide, more
    <2>3. (ui'.listed = more /\ ui'.hasty = ui.hasty) \/ (ui'.listed = ui.listed /\ ui'.hasty = (ui.hasty \/ wide))
      BY Zenon, <2>1, <2>2
    <2> QED BY <2>3 DEF wide, more
  <1> HIDE DEF fresh
  <1>4. ui'.hasty \in BOOLEAN /\ ui'.listed \subseteq (0 .. Bound - 1) \X Things /\ (~ui'.hasty => ~ui.hasty)
    BY Zenon, <1>2, <1>3 DEF RedisInv, RedisFields
  <1>5. RedisFields' BY <1>1, <1>4 DEF RedisInv, RedisFields
  <1>6. RedisFirst' BY <1>1 DEF RedisInv, RedisFirst
  <1>7. RedisClean'
    <2> SUFFICES ASSUME ~ui'.hasty PROVE RedisClean' BY DEF RedisClean
    <2>1. \A d \in calls' : d.op = "read" /\ d \in calls /\ ~c.more
      BY <1>1, <1>4 DEF RedisInv, RedisClean, RedisPair
    <2>2. \A d \in calls : d.op # "switched" BY <1>1, <2>1
    <2>3. ui.db = back.db BY <1>4, <2>2 DEF RedisInv, RedisClean
    <2>4. fresh = {<<ui.db, c.pattern>>} BY <2>3 DEF fresh
    <2>5. c.more => ui.listed = fresh BY <1>1, <1>4, <2>4 DEF RedisInv, RedisClean, RedisAs
    <2>6. ui'.listed \subseteq fresh BY Zenon, <1>3, <2>5
    <2>7. c.pattern \in Things BY DEF RedisInv, RedisFields, RedisJob
    <2>8. \E p \in Things : ui'.listed \subseteq {<<ui'.db, p>>} BY <1>1, <2>4, <2>6, <2>7
    <2>9. \A d \in calls' : RedisAs(d)' BY <1>1, <1>4, <2>1 DEF RedisInv, RedisClean, RedisAs
    <2>10. (\A d \in calls' : d.op # "read") => \A d \in calls : d.op # "read" BY <1>1
    <2>11. (\A d \in calls' : d.op # "read") => ui'.value = {} \/ ui'.value = {<<ui'.selected, ui'.db>>}
      BY <1>1, <1>4, <2>10 DEF RedisInv, RedisClean
    <2>12. \A d, e \in calls' : d = e \/ RedisPair(d, e) \/ RedisPair(e, d)
      BY <1>1, <1>4 DEF RedisInv, RedisClean
    <2>13. back'.wrong = {} BY <1>1, <1>4 DEF RedisInv, RedisClean
    <2> QED BY <1>1, <2>3, <2>8, <2>9, <2>11, <2>12, <2>13 DEF RedisClean
  <1> QED BY <1>5, <1>6, <1>7 DEF RedisInv

\* The value of a key comes, or does not.
LEMMA RedisReads ==
  ASSUME RedisInv, NEW c \in calls, Redis!AnswerRead(c), ~ui.hasty PROVE RedisInv'
  <1>1. c.op = "read" /\ calls' = calls \ {c} /\ back' = back
    BY DEF Redis!AnswerRead, Redis!Answered
  <1>2. /\ DOMAIN ui' = DOMAIN ui /\ ui'.connected = ui.connected /\ ui'.connecting = ui.connecting
        /\ ui'.pattern = ui.pattern /\ ui'.selected = ui.selected /\ ui'.listed = ui.listed
        /\ ui'.db = ui.db /\ ui'.creating = ui.creating
        /\ \/ ui'.value = {<<c.key, back.db>>} /\ ui'.hasty = ui.hasty
           \/ ui'.value = ui.value /\ ui'.hasty = TRUE
    BY DEF Redis!AnswerRead, RedisInv, RedisFields
  <1>3. c.key \in Things /\ back.db \in (0 .. Bound - 1)
    BY <1>1 DEF RedisInv, RedisFields, RedisJob
  <1>7. {<<c.key, back.db>>} \subseteq Things \X (0 .. Bound - 1) BY <1>3
  <1>8. ui'.hasty \in BOOLEAN /\ ui'.value \subseteq Things \X (0 .. Bound - 1)
    BY Zenon, <1>2, <1>7 DEF RedisInv, RedisFields
  <1>4. RedisFields' BY <1>1, <1>2, <1>8 DEF RedisInv, RedisFields
  <1>5. RedisFirst' BY <1>1, <1>2 DEF RedisInv, RedisFirst
  <1>6. RedisClean'
    <2> SUFFICES ASSUME ~ui'.hasty PROVE RedisClean' BY DEF RedisClean
    <2>1. \A d \in calls' : d.op = "load" /\ ~d.more /\ d \in calls
      BY <1>1 DEF RedisInv, RedisClean, RedisPair
    <2>2. \A d \in calls : d.op # "switched" BY <1>1, <2>1
    <2>3. ui.db = back.db BY <2>2 DEF RedisInv, RedisClean
    <2>4. ui'.value = {<<ui'.selected, ui'.db>>}
      BY <1>1, <1>2, <2>3 DEF RedisInv, RedisClean, RedisAs
    <2>5. \A d \in calls' : RedisAs(d)' BY <2>1 DEF RedisAs
    <2>6. (\A d \in calls' : d.op # "load" \/ d.more) => \A d \in calls : d.op # "load" \/ d.more
      BY <1>1
    <2>7. (\A d \in calls' : d.op # "load" \/ d.more) => \E p \in Things : ui'.listed \subseteq {<<ui'.db, p>>}
      BY <1>2, <2>6 DEF RedisInv, RedisClean
    <2>8. \A d, e \in calls' : d = e \/ RedisPair(d, e) \/ RedisPair(e, d)
      BY <1>1 DEF RedisInv, RedisClean
    <2>9. back'.wrong = {} BY <1>1 DEF RedisInv, RedisClean
    <2> QED BY <1>1, <1>2, <2>3, <2>4, <2>5, <2>7, <2>8, <2>9 DEF RedisClean
  <1> QED BY <1>4, <1>5, <1>6 DEF RedisInv

\* A change ends, and what it goes on with is alone again.
LEMMA RedisGoesOn ==
  ASSUME RedisInv, NEW c \in calls, c.op \notin {"load", "read", "connect"}, ~ui.hasty,
         \A d \in calls' : RedisJob(d) /\ d.op # "connect",
         \A d, e \in calls' : d = e \/ RedisPair(d, e) \/ RedisPair(e, d),
         DOMAIN back' = DOMAIN back, back'.db \in (0 .. Bound - 1), back'.wrong = {},
         DOMAIN ui' = DOMAIN ui, ui'.connected = ui.connected,
         ui'.pattern = ui.pattern, ui'.listed = ui.listed, ui'.hasty = ui.hasty,
         ui'.selected \in Things \cup {Nothing}, ui'.db \in (0 .. Bound - 1), ui'.value \subseteq ui.value,
         \A d \in calls' : RedisAs(d)',
         (\A d \in calls' : d.op # "switched") => ui'.db = back'.db,
         ui'.db # ui.db => \E d \in calls' : d.op = "load" /\ ~d.more,
         (\A d \in calls' : d.op # "read") =>
             ui'.value = {} \/ (ui'.selected = ui.selected /\ ui'.db = ui.db)
  PROVE  RedisInv'
  <1>1. RedisFields' BY DEF RedisInv, RedisFields
  <1>2. ui.connected BY DEF RedisInv, RedisFirst
  <1>3. RedisFirst' BY <1>2 DEF RedisFirst
  <1>4. /\ \E p \in Things : ui.listed \subseteq {<<ui.db, p>>}
        /\ ui.value = {} \/ ui.value = {<<ui.selected, ui.db>>}
    BY RedisAlone
  <1>5. \A d, e \in calls' : d = e \/ RedisPair(d, e) \/ RedisPair(e, d) OBVIOUS
  <1>6. (\A d \in calls' : d.op # "load" \/ d.more) => \E p \in Things : ui'.listed \subseteq {<<ui'.db, p>>}
    BY <1>4
  <1>7. (\A d \in calls' : d.op # "read") => ui'.value = {} \/ ui'.value = {<<ui'.selected, ui'.db>>}
    BY <1>4
  <1>8. RedisClean' BY <1>5, <1>6, <1>7 DEF RedisClean
  <1> QED BY <1>1, <1>3, <1>8 DEF RedisInv

\* What goes on with a load of the first page, or with nothing.
LEMMA RedisReloads ==
  ASSUME RedisInv, NEW c \in calls, c.op \notin {"load", "read", "connect"}, ~ui.hasty,
         calls' = (calls \ {c}) \cup {Redis!Load(c.pattern, FALSE)}, back' = back,
         DOMAIN ui' = DOMAIN ui, ui'.connected = ui.connected,
         ui'.pattern = ui.pattern, ui'.listed = ui.listed, ui'.hasty = ui.hasty,
         \/ ui'.selected = ui.selected /\ ui'.value = ui.value /\ ui'.db = ui.db /\ c.op # "switched"
         \/ ui'.selected = Nothing /\ ui'.value = {} /\ ui'.db = ui.db /\ c.op # "switched"
         \/ ui'.selected = Nothing /\ ui'.value = {} /\ ui'.db = c.db /\ c.op = "switched"
  PROVE  RedisInv'
  <1> DEFINE n == Redis!Load(c.pattern, FALSE)
  <1>1. calls = {c} /\ RedisAs(c) /\ back.wrong = {} /\ (c.op # "switched" => ui.db = back.db)
    BY RedisAlone
  <1>2. c.pattern \in Things /\ c.db \in (0 .. Bound - 1) BY DEF RedisInv, RedisFields, RedisJob
  <1>3. RedisJob(n) /\ n.op = "load" /\ n.more = FALSE BY Zenon, <1>2, RedisLoads
  <1>4. calls' = {n} BY Zenon, <1>1
  <1> HIDE DEF n
  <1>5. RedisAs(n)' BY <1>3 DEF RedisAs
  <1>6. ui'.db = back'.db BY <1>1 DEF RedisAs
  <1>7. ui'.db \in (0 .. Bound - 1) /\ ui'.selected \in Things \cup {Nothing} /\ ui'.value \subseteq ui.value
    BY <1>2 DEF RedisInv, RedisFields
  <1>8. ui'.value = {} \/ (ui'.selected = ui.selected /\ ui'.db = ui.db) OBVIOUS
  <1>9. DOMAIN back' = DOMAIN back /\ back'.db \in (0 .. Bound - 1) /\ back'.wrong = {}
    BY <1>1 DEF RedisInv, RedisFields
  <1>10. \A d, e \in calls' : d = e \/ RedisPair(d, e) \/ RedisPair(e, d) BY Zenon, <1>4
  <1>11. \A d \in calls' : RedisJob(d) /\ d.op # "connect" BY Zenon, <1>3, <1>4
  <1>12. \A d \in calls' : RedisAs(d)' BY Zenon, <1>4, <1>5
  <1>13. \E d \in calls' : d.op = "load" /\ ~d.more BY Zenon, <1>3, <1>4
  <1> QED BY Zenon, <1>6, <1>7, <1>8, <1>9, <1>10, <1>11, <1>12, <1>13, RedisGoesOn

\* A call that fails ends without a trace, once the user waits for it.
LEMMA RedisGivesUp ==
  ASSUME RedisInv, NEW c \in calls, c.op \notin {"load", "read", "connect", "switched"}, ~ui.hasty,
         calls' = calls \ {c}, back' = back, ui' = ui
  PROVE  RedisInv'
  <1>1. calls = {c} /\ back.wrong = {} /\ ui.db = back.db BY RedisAlone
  <1>2. calls' = {} BY <1>1
  <1>3. /\ DOMAIN back' = DOMAIN back /\ back'.db \in (0 .. Bound - 1) /\ back'.wrong = {}
        /\ ui.selected \in Things \cup {Nothing} /\ ui.db \in (0 .. Bound - 1)
    BY <1>1 DEF RedisInv, RedisFields
  <1>4. \A d \in calls' : RedisJob(d) /\ d.op # "connect" BY <1>2
  <1>5. \A d, e \in calls' : d = e \/ RedisPair(d, e) \/ RedisPair(e, d) BY <1>2
  <1>6. \A d \in calls' : RedisAs(d)' BY <1>2
  <1> QED BY <1>1, <1>2, <1>3, <1>4, <1>5, <1>6, RedisGoesOn

\* What a change goes on with.
LEMMA RedisChanges ==
  ASSUME RedisInv, NEW c \in calls, ~ui.hasty,
         Redis!AnswerDelete(c) \/ Redis!AnswerChange(c) \/ Redis!AnswerRename(c) \/ Redis!SwitchDB(c) \/ Redis!AnswerSwitch(c)
         \/ Redis!AnswerCreate(c)
  PROVE  RedisInv'
  <1>1. /\ DOMAIN ui = {"connected", "connecting", "pattern", "listed", "more", "loading", "selected",
                        "value", "editor", "db", "creating", "hasty"}
        /\ DOMAIN back = {"db", "wrong"} /\ RedisJob(c)
        /\ ui.selected \in Things \cup {Nothing} /\ ui.db \in (0 .. Bound - 1) /\ back.db \in (0 .. Bound - 1)
    BY DEF RedisInv, RedisFields
  <1>2. CASE Redis!AnswerDelete(c)
    <2>1. CASE Redis!Answered(c) /\ UNCHANGED ui /\ UNCHANGED back
      BY <1>2, <2>1, RedisGivesUp DEF Redis!AnswerDelete, Redis!Answered
    <2>2. CASE Redis!Continue(c, Redis!Load(c.pattern, FALSE))
               /\ (ui' = [ui EXCEPT !.loading = TRUE, !.selected = Nothing, !.value = {}]
                   \/ ui' = [ui EXCEPT !.loading = TRUE]) /\ UNCHANGED back
      <3>1. /\ DOMAIN ui' = DOMAIN ui /\ ui'.connected = ui.connected /\ ui'.pattern = ui.pattern
            /\ ui'.listed = ui.listed /\ ui'.hasty = ui.hasty /\ ui'.db = ui.db
            /\ \/ ui'.selected = ui.selected /\ ui'.value = ui.value
               \/ ui'.selected = Nothing /\ ui'.value = {}
        BY Zenon, <1>1, <2>2
      <3>2. c.op = "delete" BY <1>2 DEF Redis!AnswerDelete
      <3> QED BY Zenon, <2>2, <3>1, <3>2, RedisReloads DEF Redis!Continue
    <2> QED BY Zenon, <1>2, <2>1, <2>2 DEF Redis!AnswerDelete
  <1>3. CASE Redis!AnswerCreate(c)
    <2>1. CASE Redis!Answered(c) /\ UNCHANGED ui /\ UNCHANGED back
      BY <1>3, <2>1, RedisGivesUp DEF Redis!AnswerCreate, Redis!Answered
    <2>2. CASE Redis!Continue(c, Redis!Load(c.pattern, FALSE)) /\ UNCHANGED back
               /\ ui' = [ui EXCEPT !.creating = FALSE, !.loading = TRUE]
      <3>1. /\ DOMAIN ui' = DOMAIN ui /\ ui'.connected = ui.connected /\ ui'.pattern = ui.pattern
            /\ ui'.listed = ui.listed /\ ui'.hasty = ui.hasty /\ ui'.db = ui.db
            /\ ui'.selected = ui.selected /\ ui'.value = ui.value
        BY <1>1, <2>2
      <3>2. c.op = "create" BY <1>3 DEF Redis!AnswerCreate
      <3> QED BY Zenon, <2>2, <3>1, <3>2, RedisReloads DEF Redis!Continue
    <2> QED BY Zenon, <1>3, <2>1, <2>2 DEF Redis!AnswerCreate
  <1>4. CASE Redis!AnswerSwitch(c)
    <2>1. CASE c.op = "switch" /\ Redis!Answered(c) /\ UNCHANGED <<ui, back>>
      BY <2>1, RedisGivesUp DEF Redis!Answered
    <2>2. CASE /\ c.op = "switched" /\ Redis!Continue(c, Redis!Load(c.pattern, FALSE)) /\ UNCHANGED back
               /\ ui' = [ui EXCEPT !.db = c.db, !.selected = Nothing, !.value = {}, !.loading = TRUE]
      <3>1. /\ DOMAIN ui' = DOMAIN ui /\ ui'.connected = ui.connected /\ ui'.pattern = ui.pattern
            /\ ui'.listed = ui.listed /\ ui'.hasty = ui.hasty /\ ui'.db = c.db
            /\ ui'.selected = Nothing /\ ui'.value = {}
        BY <1>1, <2>2
      <3> QED BY Zenon, <2>2, <3>1, RedisReloads DEF Redis!Continue
    <2> QED BY Zenon, <1>4, <2>1, <2>2 DEF Redis!AnswerSwitch
  <1>5. CASE Redis!SwitchDB(c)
    <2> DEFINE n == [c EXCEPT !.op = "switched"]
    <2>1. /\ c.op = "switch" /\ calls' = (calls \ {c}) \cup {n} /\ ui' = ui
          /\ back' = [back EXCEPT !.db = c.db]
      BY <1>5 DEF Redis!SwitchDB, Redis!Continue
    <2>2. /\ DOMAIN n = {"op", "key", "was", "pattern", "more", "db"} /\ n.op = "switched"
          /\ n.pattern = c.pattern /\ n.db = c.db /\ n.more = c.more
      BY <1>1 DEF RedisJob
    <2> HIDE DEF n
    <2>3. RedisJob(n) BY <1>1, <2>2 DEF RedisJob
    <2>4. calls = {c} /\ back.wrong = {} BY <2>1, RedisAlone
    <2>5. calls' = {n} BY <2>1, <2>4
    <2>6. DOMAIN back' = DOMAIN back /\ back'.db = c.db /\ back'.wrong = {} BY <1>1, <2>1, <2>4
    <2>7. RedisAs(n)' BY <2>2, <2>6 DEF RedisAs
    <2>8. \A d \in calls' : RedisJob(d) /\ d.op = "switched" BY <2>2, <2>3, <2>5
    <2>9. \A d, e \in calls' : d = e \/ RedisPair(d, e) \/ RedisPair(e, d) BY <2>5
    <2>10. \A d \in calls' : RedisAs(d)' BY <2>5, <2>7
    <2>11. ~(\A d \in calls' : d.op # "switched") BY <2>2, <2>5
    <2>12. back'.db \in (0 .. Bound - 1) BY <1>1, <2>6 DEF RedisJob
    <2> QED BY <1>1, <2>1, <2>6, <2>8, <2>9, <2>10, <2>11, <2>12, RedisGoesOn
  <1>6. ASSUME c.op \in {"change", "ttl", "rename"}, NEW seen, seen = {<<ui.selected, back.db>>}
        PROVE  seen \ ui.value = {}
    <2>1. ui.value = {<<ui.selected, ui.db>>} /\ ui.db = back.db BY <1>6, RedisAlone DEF RedisAs
    <2> QED BY <1>6, <2>1
  <1>7. CASE Redis!AnswerChange(c)
    <2>1. CASE Redis!Answered(c) /\ UNCHANGED <<ui, back>>
      BY <1>7, <2>1, RedisGivesUp DEF Redis!AnswerChange, Redis!Answered
    <2>2. CASE ~(Redis!Answered(c) /\ UNCHANGED <<ui, back>>)
      <3> DEFINE n == Redis!Job("read", c.key)
                 ed == IF c.op = "ttl" THEN "none" ELSE ui.editor
                 seen == {<<c.key, back.db>>}
      <3>1. /\ c.op \in {"change", "ttl"} /\ calls' = (calls \ {c}) \cup {n}
            /\ ui' = [ui EXCEPT !.selected = c.key, !.editor = ed]
            /\ back' = [back EXCEPT !.wrong = @ \cup (seen \ ui.value)]
        BY <1>1, <1>7, <2>2 DEF Redis!AnswerChange, Redis!Continue
      <3>2. calls = {c} /\ back.wrong = {} /\ RedisAs(c) /\ ui.db = back.db BY <3>1, RedisAlone
      <3>3. c.key = ui.selected /\ c.key \in Things BY <1>1, <3>1, <3>2 DEF RedisAs, RedisJob
      <3>4. /\ DOMAIN n = {"op", "key", "was", "pattern", "more", "db"} /\ n.op = "read" /\ n.key = c.key
            /\ n.pattern = Second /\ n.more = FALSE /\ n.db = 0
        BY RedisJobs
      <3> HIDE DEF n, ed
      <3>5. RedisJob(n) BY Zenon, <3>3, <3>4, RedisConstants DEF RedisJob
      <3>6. seen \ ui.value = {} BY Zenon, <1>6, <3>1, <3>3
      <3> HIDE DEF seen
      <3>7. DOMAIN back' = DOMAIN back /\ back'.db = back.db /\ back'.wrong = {}
        BY <1>1, <3>1, <3>2, <3>6
      <3>8. /\ DOMAIN ui' = DOMAIN ui /\ ui'.connected = ui.connected /\ ui'.pattern = ui.pattern
            /\ ui'.listed = ui.listed /\ ui'.hasty = ui.hasty /\ ui'.db = ui.db
            /\ ui'.selected = c.key /\ ui'.value = ui.value
        BY <1>1, <3>1
      <3>9. calls' = {n} BY <3>1, <3>2
      <3>10. RedisAs(n)' BY <3>4, <3>8 DEF RedisAs
      <3>11. \A d \in calls' : RedisJob(d) /\ d.op # "connect" /\ RedisAs(d)'
        BY <3>4, <3>5, <3>9, <3>10
      <3>12. \A d, e \in calls' : d = e \/ RedisPair(d, e) \/ RedisPair(e, d) BY <3>9
      <3> QED BY <1>1, <3>1, <3>2, <3>3, <3>7, <3>8, <3>11, <3>12, RedisGoesOn
    <2> QED BY <2>1, <2>2
  <1>8. CASE Redis!AnswerRename(c)
    <2>1. CASE Redis!Answered(c) /\ UNCHANGED <<ui, back>>
      BY <1>8, <2>1, RedisGivesUp DEF Redis!AnswerRename, Redis!Answered
    <2>2. CASE ~(Redis!Answered(c) /\ UNCHANGED <<ui, back>>)
      <3> DEFINE n == Redis!Job("read", c.key)
                 l == Redis!Load(c.pattern, FALSE)
                 seen == {<<c.was, back.db>>}
      <3>1. /\ c.op = "rename" /\ calls' = (calls \ {c}) \cup {l, n}
            /\ ui' = [ui EXCEPT !.selected = c.key, !.editor = "none", !.loading = TRUE]
            /\ back' = [back EXCEPT !.wrong = @ \cup (seen \ ui.value)]
        BY Zenon, <1>1, <1>8, <2>2 DEF Redis!AnswerRename
      <3>2. calls = {c} /\ back.wrong = {} /\ RedisAs(c) /\ ui.db = back.db BY <3>1, RedisAlone
      <3>3. c.was = ui.selected /\ c.key \in Things /\ c.pattern \in Things
        BY <1>1, <3>1, <3>2 DEF RedisAs, RedisJob
      <3>4. /\ DOMAIN n = {"op", "key", "was", "pattern", "more", "db"} /\ n.op = "read" /\ n.key = c.key
            /\ n.pattern = Second /\ n.more = FALSE /\ n.db = 0
        BY RedisJobs
      <3>13. RedisJob(l) /\ l.op = "load" /\ l.more = FALSE BY Zenon, <3>3, RedisLoads
      <3> HIDE DEF n, l
      <3>5. RedisJob(n) BY Zenon, <3>3, <3>4, RedisConstants DEF RedisJob
      <3>6. seen \ ui.value = {} BY Zenon, <1>6, <3>1, <3>3
      <3> HIDE DEF seen
      <3>7. DOMAIN back' = DOMAIN back /\ back'.db = back.db /\ back'.wrong = {}
        BY <1>1, <3>1, <3>2, <3>6
      <3>8. /\ DOMAIN ui' = DOMAIN ui /\ ui'.connected = ui.connected /\ ui'.pattern = ui.pattern
            /\ ui'.listed = ui.listed /\ ui'.hasty = ui.hasty /\ ui'.db = ui.db
            /\ ui'.selected = c.key /\ ui'.value = ui.value
        BY <1>1, <3>1
      <3>9. calls' = {l, n} BY <3>1, <3>2
      <3>10. RedisAs(n)' /\ RedisAs(l)' BY <3>4, <3>8, <3>13 DEF RedisAs
      <3>11. \A d \in calls' : RedisJob(d) /\ d.op # "connect" /\ RedisAs(d)' /\ d.op # "switched"
        BY <3>4, <3>5, <3>9, <3>10, <3>13
      <3>12. \A d, e \in calls' : d = e \/ RedisPair(d, e) \/ RedisPair(e, d)
        BY <3>4, <3>9, <3>13 DEF RedisPair
      <3>14. ~(\A d \in calls' : d.op # "read") BY <3>4, <3>9
      <3> QED BY <1>1, <3>1, <3>2, <3>3, <3>7, <3>8, <3>11, <3>12, <3>14, RedisGoesOn
    <2> QED BY <2>1, <2>2
  <1> QED BY <1>2, <1>3, <1>4, <1>5, <1>7, <1>8

\* The page connects, again if it could not.
LEMMA RedisConnects ==
  ASSUME RedisInv, Redis!HandleConnect \/ \E c \in calls : Redis!AnswerConnect(c)
  PROVE  RedisInv'
  <1> DEFINE n == Redis!Job("connect", Nothing)
             l == Redis!Load(Second, FALSE)
  <1>1. /\ DOMAIN n = {"op", "key", "was", "pattern", "more", "db"} /\ n.op = "connect"
        /\ n.pattern = Second /\ n.more = FALSE /\ n.db = 0
    BY RedisJobs
  <1>2. n = Redis!Job("connect", Nothing) OBVIOUS
  <1>3. RedisJob(l) /\ l.op = "load" /\ l.more = FALSE BY Zenon, RedisConstants, RedisLoads
  <1> HIDE DEF n, l
  <1>4. RedisJob(n) BY Zenon, <1>1, <1>2, RedisConstants DEF RedisJob
  <1>5. RedisAs(n)' /\ RedisAs(l)' BY <1>1, <1>3 DEF RedisAs
  <1>6. ASSUME NEW c \in calls, c.op = "connect" PROVE calls = {n}
    <2>1. \A d \in calls : d.op = "connect" BY <1>6 DEF RedisInv, RedisFirst
    <2>2. c = n BY <1>2, <1>6 DEF RedisInv, RedisFields, RedisJob
    <2> QED BY <1>2, <1>6, <2>1, <2>2 DEF RedisInv, RedisFields, RedisJob
  <1>7. CASE Redis!HandleConnect
    <2>1. /\ ~ui.connected /\ ~ui.connecting /\ calls' = calls \cup {n} /\ back' = back
          /\ ui' = [ui EXCEPT !.connecting = TRUE]
      BY <1>7, <1>2 DEF Redis!HandleConnect, Redis!Ask
    <2>2. calls = {} /\ calls' = {n} /\ ~ui.creating BY <2>1 DEF RedisInv, RedisFirst
    <2>3. /\ DOMAIN ui' = DOMAIN ui /\ ui'.connected = ui.connected /\ ui'.connecting = TRUE
          /\ ui'.pattern = ui.pattern /\ ui'.listed = ui.listed /\ ui'.selected = ui.selected
          /\ ui'.value = ui.value /\ ui'.db = ui.db /\ ui'.creating = ui.creating
          /\ ui'.hasty = ui.hasty
      BY <2>1 DEF RedisInv, RedisFields
    <2>4. RedisFields' BY <1>4, <2>1, <2>2, <2>3 DEF RedisInv, RedisFields
    <2>5. RedisFirst' BY <1>1, <2>1, <2>2, <2>3 DEF RedisFirst
    <2>6. RedisClean'
      BY <1>1, <1>5, <2>1, <2>2, <2>3 DEF RedisInv, RedisClean, RedisPair
    <2> QED BY <2>4, <2>5, <2>6 DEF RedisInv
  <1>8. ASSUME NEW c \in calls, Redis!AnswerConnect(c) PROVE RedisInv'
    <2>1. /\ c.op = "connect" /\ back' = back /\ DOMAIN ui' = DOMAIN ui
          /\ ui'.pattern = ui.pattern /\ ui'.listed = ui.listed /\ ui'.selected = ui.selected
          /\ ui'.value = ui.value /\ ui'.db = ui.db /\ ui'.creating = ui.creating
          /\ ui'.hasty = ui.hasty
          /\ \/ calls' = (calls \ {c}) \cup {l} /\ ui'.connected = TRUE
             \/ calls' = calls \ {c} /\ ui'.connected = ui.connected
      <3>1. CASE /\ Redis!Continue(c, Redis!Load(Second, FALSE)) /\ UNCHANGED back
                 /\ ui' = [ui EXCEPT !.connected = TRUE, !.connecting = FALSE, !.loading = TRUE]
        BY <1>8, <3>1 DEF Redis!AnswerConnect, Redis!Continue, RedisInv, RedisFields, l
      <3>2. CASE Redis!Answered(c) /\ ui' = [ui EXCEPT !.connecting = FALSE] /\ UNCHANGED back
        BY <1>8, <3>2 DEF Redis!AnswerConnect, Redis!Answered, RedisInv, RedisFields
      <3> QED BY Zenon, <1>8, <3>1, <3>2 DEF Redis!AnswerConnect
    <2>3. RedisFields' BY <1>3, <2>1 DEF RedisInv, RedisFields
    <2>4. CASE ~ui'.connected
      <3>1. calls' = calls \ {c} /\ ~ui.connected BY <2>1, <2>4
      <3>2. \A d \in calls : d.op = "connect" BY <3>1 DEF RedisInv, RedisFirst
      <3>3. \A d \in calls : d = n BY <1>2, <3>2 DEF RedisInv, RedisFields, RedisJob
      <3>4. calls' = {} /\ \A d \in calls : d.op = "connect" BY <3>1, <3>2, <3>3
      <3>5. RedisFirst' BY <2>1, <3>1, <3>4 DEF RedisInv, RedisFirst
      <3>6. RedisClean' BY <2>1, <3>4 DEF RedisInv, RedisClean
      <3> QED BY <2>3, <3>5, <3>6 DEF RedisInv
    <2>5. CASE ui'.connected
      <3>4. calls = {n} /\ c = n BY <1>6, <2>1
      <3>1. RedisFirst' BY Zenon, <1>3, <2>1, <2>5, <3>4 DEF RedisFirst
      <3>2. RedisClean'
        <4> SUFFICES ASSUME ~ui'.hasty PROVE RedisClean' BY DEF RedisClean
        <4>1. calls = {c} /\ back.wrong = {} /\ ui.db = back.db
              /\ (\E p \in Things : ui.listed \subseteq {<<ui.db, p>>})
              /\ (ui.value = {} \/ ui.value = {<<ui.selected, ui.db>>})
          BY <2>1, RedisAlone
        <4>2. calls' \subseteq {l} BY <2>1, <4>1
        <4>3. \A d \in calls' : RedisAs(d)' BY <1>5, <4>2
        <4>4. \A d, e \in calls' : d = e BY <4>2
        <4> QED BY <2>1, <4>1, <4>3, <4>4 DEF RedisClean
      <3> QED BY <2>3, <3>1, <3>2 DEF RedisInv
    <2> QED BY <2>4, <2>5
  <1> QED BY <1>7, <1>8

\* A key is made, under the pattern on the page.
LEMMA RedisMakes == ASSUME RedisInv, Redis!HandleCreateKey PROVE RedisInv'
  <1> DEFINE j == Redis!Job("create", Nothing)
             quick == calls # {}
  <1>0. PICK n : n = [j EXCEPT !.pattern = ui.pattern] OBVIOUS
  <1>1. /\ ui.creating /\ ~ui.hasty /\ calls' = calls \cup {n} /\ back' = back
        /\ ui' = [ui EXCEPT !.hasty = quick]
    BY <1>0 DEF Redis!HandleCreateKey, Redis!Ask
  <1>2. /\ DOMAIN j = {"op", "key", "was", "pattern", "more", "db"} /\ j.op = "create" /\ j.more = FALSE
        /\ j.db = 0
    BY RedisJobs
  <1> HIDE DEF j
  <1>3. /\ DOMAIN n = {"op", "key", "was", "pattern", "more", "db"} /\ n.op = "create" /\ n.more = FALSE
        /\ n.db = 0 /\ n.pattern = ui.pattern
    BY <1>0, <1>2
  <1>4. ui.connected /\ ui.pattern \in Things /\ ui.selected \in Things \cup {Nothing}
    BY <1>1 DEF RedisInv, RedisFields, RedisFirst
  <1>5. RedisJob(n) BY Zenon, <1>3, <1>4, RedisConstants DEF RedisJob
  <1>6. quick \in BOOLEAN /\ (~quick => calls = {}) OBVIOUS
  <1> HIDE DEF quick
  <1>7. /\ DOMAIN ui' = DOMAIN ui /\ ui'.connected = ui.connected /\ ui'.pattern = ui.pattern
        /\ ui'.listed = ui.listed /\ ui'.selected = ui.selected /\ ui'.value = ui.value
        /\ ui'.db = ui.db /\ ui'.hasty = quick
    BY <1>1 DEF RedisInv, RedisFields
  <1>8. RedisAs(n)' BY <1>3 DEF RedisAs
  <1> QED BY Zenon, <1>1, <1>3, <1>4, <1>5, <1>6, <1>7, <1>8, RedisAsks

\* No step leaves the invariant.
THEOREM RedisNext == RedisInv /\ [Redis!Next]_Redis!vars => RedisInv'
  <1> SUFFICES ASSUME RedisInv, [Redis!Next]_Redis!vars PROVE RedisInv' OBVIOUS
  <1>1. CASE Redis!HandleConnect \/ \E c \in calls : Redis!AnswerConnect(c)
    BY <1>1, RedisConnects
  <1>2. ASSUME NEW d \in (0 .. Bound - 1), Redis!HandleSwitchDB(d) PROVE RedisInv'
    BY <1>2, RedisWork
  <1>3. CASE Redis!HandleSearch \/ Redis!HandleLoadMore \/ Redis!HandleChange BY <1>3, RedisWork
  <1>4. ASSUME NEW k \in Things, Redis!HandleSelectKey(k) \/ Redis!HandleDeleteKey(k) \/ Redis!HandleRename(k)
        PROVE  RedisInv'
    BY <1>4, RedisWork
  <1>5. ASSUME NEW p \in Things, Redis!TypePattern(p) PROVE RedisInv'
    <2>1. ui' = [ui EXCEPT !.pattern = p] /\ UNCHANGED <<calls, back>>
      BY <1>5 DEF Redis!TypePattern, Redis!Shown
    <2> QED BY <2>1, RedisShown
  <1>6. ASSUME NEW e, Redis!OpenEditor(e) PROVE RedisInv'
    <2>1. ui' = [ui EXCEPT !.editor = e] /\ UNCHANGED <<calls, back>>
      BY <1>6 DEF Redis!OpenEditor, Redis!Shown
    <2> QED BY <2>1, RedisShown
  <1>7. CASE Redis!CloseEditor
    <2>1. (\E e : ui' = [ui EXCEPT !.editor = e]) /\ UNCHANGED <<calls, back>>
      BY <1>7 DEF Redis!CloseEditor, Redis!Shown
    <2> QED BY <2>1, RedisShown
  <1>8. CASE Redis!OpenNewKey
    <2>1. ui.connected /\ ui' = [ui EXCEPT !.creating = TRUE] /\ UNCHANGED <<calls, back>>
      BY <1>8 DEF Redis!OpenNewKey, Redis!Shown, Redis!Free
    <2> QED BY <2>1, RedisShown
  <1>9. CASE Redis!CloseNewKey BY <1>9, RedisShown DEF Redis!CloseNewKey
  <1>10. CASE Redis!HandleCreateKey BY <1>10, RedisMakes
  <1>11. ASSUME NEW c \in calls, Redis!AnswerLoad(c) PROVE RedisInv' BY <1>11, RedisListed
  <1>12. ASSUME NEW c \in calls, ~ui.hasty, Redis!AnswerRead(c) PROVE RedisInv'
    BY <1>12, RedisReads
  <1>13. ASSUME NEW c \in calls, ~ui.hasty,
                Redis!AnswerDelete(c) \/ Redis!AnswerChange(c) \/ Redis!AnswerRename(c) \/ Redis!SwitchDB(c) \/ Redis!AnswerSwitch(c)
                \/ Redis!AnswerCreate(c)
         PROVE  RedisInv'
    BY <1>13, RedisChanges
  <1>14. CASE UNCHANGED Redis!vars
    BY <1>14, RedisShown DEF Redis!vars
  <1> QED
    BY <1>1, <1>2, <1>3, <1>4, <1>5, <1>6, <1>7, <1>8, <1>9, <1>10, <1>11, <1>12, <1>13, <1>14
       DEF Redis!Next, Redis!Header, Redis!KeyPanel, Redis!ValuePanel, Redis!ValueEditors,
          Redis!NewKeyModal, Redis!Answer

\* What the invariant says of the page.
LEMMA RedisSays == RedisInv => Redis!TypeOK /\ Redis!ShownBelongs /\ Redis!UntouchedKept
  <1> SUFFICES ASSUME RedisInv PROVE Redis!TypeOK /\ Redis!ShownBelongs /\ Redis!UntouchedKept OBVIOUS
  <1>1. Redis!TypeOK BY DEF RedisInv, RedisFields, Redis!TypeOK
  <1>2. Redis!ShownBelongs BY DEF RedisInv, RedisClean, Redis!ShownBelongs
  <1>3. Redis!UntouchedKept BY DEF RedisInv, RedisClean, Redis!UntouchedKept
  <1> QED BY <1>1, <1>2, <1>3

-----------------------------------------------------------------------------
\* RestClient.tla
\* A set of the page has the size it has everywhere.
LEMMA RestSize == \A S : Rest!Cardinality(S) = Cardinality(S)
  BY DEF Rest!Cardinality, Cardinality

\* What a call is made of.
LEMMA RestCall == \A op, t, n : Rest!Call(op, t, n).op = op /\ Rest!Call(op, t, n).text = t
  BY DEF Rest!Call

\* What a page just mounted shows.
LEMMA RestMounted ==
  /\ DOMAIN Rest!Mounted = {"text", "loaded", "timer", "late", "status", "sending", "response", "asked",
                       "mixed", "crossed", "failed"}
  /\ Rest!Mounted.loaded = FALSE /\ Rest!Mounted.timer = {} /\ Rest!Mounted.late = {} /\ Rest!Mounted.mixed = FALSE
  /\ Rest!Mounted.crossed = FALSE /\ Rest!Mounted.failed = FALSE /\ Rest!Mounted.response = Nothing
  BY DEF Rest!Mounted

\* The text is being loaded.
THEOREM RestInit == Rest!Init => RestInv
  <1> SUFFICES ASSUME Rest!Init PROVE RestInv OBVIOUS
  <1>1. ui = Rest!Mounted /\ calls = {Rest!Call("load", Nothing, 1)} BY DEF Rest!Init
  <1>2. \A c \in calls : c = Rest!Call("load", Nothing, 1) /\ c.op = "load" BY <1>1, RestCall
  <1>3. RestFields BY Zenon, <1>1, <1>2, RestMounted DEF RestFields, Rest!CallsOf
  <1>4. RestSaves BY <1>1, <1>2, RestMounted DEF RestSaves, Rest!CallsOf
  <1>5. RestSends BY <1>1, <1>2, RestMounted DEF RestSends, Rest!CallsOf
  <1> QED BY <1>3, <1>4, <1>5 DEF RestInv

\* A key is struck: the timer is set anew, for the text as it is now.
LEMMA RestTypes == ASSUME RestInv, NEW t \in (Things \cup {Nothing}), Rest!Type(t) PROVE RestInv'
  <1> USE DEF RestInv
  <1>1. /\ calls' = calls /\ back' = back /\ ui.loaded
        /\ ui' = [ui EXCEPT !.text = t, !.timer = {t}, !.status = "saving"]
    BY DEF Rest!Type, Rest!Usable
  <1>2. /\ DOMAIN ui' = DOMAIN ui /\ ui'.text = t /\ ui'.timer = {t} /\ ui'.late = ui.late
        /\ ui'.loaded = ui.loaded /\ ui'.response = ui.response /\ ui'.asked = ui.asked
        /\ ui'.mixed = ui.mixed /\ ui'.crossed = ui.crossed /\ ui'.failed = ui.failed
    BY Zenon, <1>1 DEF RestFields
  <1>3. RestFields' BY Zenon, <1>1, <1>2 DEF RestFields, Rest!CallsOf
  <1>4. RestSaves' BY <1>1, <1>2 DEF RestSaves, Rest!CallsOf
  <1>5. RestSends' BY <1>1, <1>2 DEF RestSends, Rest!CallsOf
  <1> QED BY <1>3, <1>4, <1>5

\* The timer fires.
LEMMA RestFires == ASSUME RestInv, NEW t, Rest!TimerFires(t) PROVE RestInv'
  <1> USE DEF RestInv
  <1> DEFINE n == Rest!Call("save", t, IF t \in ui.timer THEN 1 ELSE 2)
             late == IF t \in ui.timer THEN ui.late ELSE ui.late \ {t}
             cross == ui.crossed \/ Rest!CallsOf({"save"}) # {}
  <1>1. /\ t \in ui.timer \cup ui.late /\ calls' = calls \cup {n} /\ back' = back
        /\ ui' = [ui EXCEPT !.timer = @ \ {t}, !.late = late, !.crossed = cross]
    BY DEF Rest!TimerFires, Rest!Ask
  <1>2. n.op = "save" /\ n.text = t BY RestCall
  <1>3. late \subseteq ui.late /\ cross \in BOOLEAN
        /\ (~cross => ~ui.crossed /\ \A c \in calls : c.op # "save")
    BY DEF RestFields, Rest!CallsOf
  <1> HIDE DEF n, late, cross
  <1>4. /\ DOMAIN ui' = DOMAIN ui /\ ui'.text = ui.text /\ ui'.timer = ui.timer \ {t}
        /\ ui'.late = late /\ ui'.loaded = ui.loaded /\ ui'.response = ui.response
        /\ ui'.asked = ui.asked /\ ui'.mixed = ui.mixed /\ ui'.crossed = cross
        /\ ui'.failed = ui.failed
    BY <1>1 DEF RestFields
  <1>5. RestFields' BY <1>1, <1>2, <1>3, <1>4 DEF RestFields, Rest!CallsOf
  <1>6. RestSaves'
    <2> SUFFICES ASSUME ~cross, ~ui.failed PROVE RestSaves' BY <1>4 DEF RestSaves
    <2>1. ui.late = {} /\ t \in ui.timer /\ t = ui.text /\ ui.timer = {t} /\ ui.loaded
      BY <1>1, <1>3 DEF RestSaves
    <2> QED BY <1>1, <1>2, <1>3, <1>4, <2>1 DEF RestSaves, Rest!CallsOf
  <1>7. RestSends' BY <1>1, <1>2, <1>4 DEF RestSends, Rest!CallsOf
  <1> QED BY <1>5, <1>6, <1>7

\* A request is sent, once or twice.
LEMMA RestAsks == ASSUME RestInv, NEW copies, Rest!SendRequest(copies) PROVE RestInv'
  <1> USE DEF RestInv
  <1> DEFINE new == {Rest!Call("send", ui.text, n) : n \in copies}
             mix == ui.mixed \/ \E c \in Rest!CallsOf({"send"}) : c.text # ui.text
  <1>1. /\ calls' = calls \cup new /\ back' = back
        /\ ui' = [ui EXCEPT !.sending = TRUE, !.response = Nothing, !.asked = ui.text, !.mixed = mix]
    BY DEF Rest!SendRequest
  <1>2. \A c \in new : c.op = "send" /\ c.text = ui.text BY RestCall
  <1>3. mix \in BOOLEAN /\ (~mix => \A c \in Rest!CallsOf({"send"}) : c.text = ui.text)
    BY DEF RestFields
  <1> HIDE DEF new, mix
  <1>4. /\ DOMAIN ui' = DOMAIN ui /\ ui'.text = ui.text /\ ui'.timer = ui.timer
        /\ ui'.late = ui.late /\ ui'.loaded = ui.loaded /\ ui'.response = Nothing
        /\ ui'.asked = ui.text /\ ui'.mixed = mix /\ ui'.crossed = ui.crossed
        /\ ui'.failed = ui.failed
    BY <1>1 DEF RestFields
  <1>5. Rest!CallsOf({"load"})' = Rest!CallsOf({"load"}) /\ Rest!CallsOf({"save"})' = Rest!CallsOf({"save"})
    BY <1>1, <1>2 DEF Rest!CallsOf
  <1>6. RestFields' BY <1>3, <1>4, <1>5 DEF RestFields
  <1>7. RestSaves' BY <1>1, <1>4, <1>5 DEF RestSaves
  <1>8. RestSends' BY <1>1, <1>2, <1>3, <1>4 DEF RestSends, Rest!CallsOf
  <1> QED BY <1>6, <1>7, <1>8

\* The page is closed and opened again.
LEMMA RestReopens == ASSUME RestInv, Rest!Reopen PROVE RestInv'
  <1> USE DEF RestInv
  <1> DEFINE n == Rest!Call("load", Nothing, 1)
             cross == ui.crossed \/ ui.timer # {} \/ Rest!CallsOf({"save"}) # {}
  <1>1. /\ calls' = Rest!CallsOf({"save"}) \cup {n} /\ back' = back
        /\ ui' = [Rest!Mounted EXCEPT !.late = ui.timer, !.failed = ui.failed, !.crossed = cross]
    BY DEF Rest!Reopen
  <1>2. n.op = "load" BY RestCall
  <1>3. cross \in BOOLEAN /\ (~cross => ui.timer = {} /\ Rest!CallsOf({"save"}) = {})
    BY DEF RestFields
  <1> HIDE DEF n, cross
  <1>4. /\ DOMAIN ui' = DOMAIN ui /\ ui'.timer = {} /\ ui'.late = ui.timer /\ ui'.loaded = FALSE
        /\ ui'.response = Nothing /\ ui'.mixed = FALSE /\ ui'.crossed = cross
        /\ ui'.failed = ui.failed
    BY <1>1, RestMounted DEF RestFields
  <1>5. RestFields' BY Zenon, <1>1, <1>2, <1>3, <1>4 DEF RestFields, Rest!CallsOf
  <1>6. RestSaves' BY <1>1, <1>2, <1>3, <1>4 DEF RestSaves, Rest!CallsOf
  <1>7. RestSends' BY <1>1, <1>2, <1>4 DEF RestSends, Rest!CallsOf
  <1> QED BY <1>5, <1>6, <1>7

\* The answers: the text, a save that was made or not, the response.
LEMMA RestAnswers ==
  ASSUME RestInv, NEW c \in calls, Rest!AnswerLoad(c) \/ Rest!AnswerSave(c) \/ Rest!AnswerSend(c)
  PROVE  RestInv'
  <1> USE DEF RestInv
  <1>1. calls' = calls \ {c} BY DEF Rest!AnswerLoad, Rest!AnswerSave, Rest!AnswerSend,
                                Rest!Answered
  <1>2. CASE Rest!AnswerLoad(c)
    <2> DEFINE text == IF back = Nothing THEN Second ELSE back
    <2>1. c.op = "load" /\ back' = back
          /\ \/ ui' = [ui EXCEPT !.text = text, !.loaded = TRUE]
             \/ ui' = [ui EXCEPT !.text = Second, !.loaded = TRUE, !.failed = TRUE]
      BY <1>2 DEF Rest!AnswerLoad
    <2>2. text = back \/ (back = Nothing /\ text = Second) OBVIOUS
    <2> HIDE DEF text
    <2>3. /\ DOMAIN ui' = DOMAIN ui /\ ui'.timer = ui.timer
          /\ ui'.late = ui.late /\ ui'.loaded = TRUE /\ ui'.response = ui.response
          /\ ui'.asked = ui.asked /\ ui'.mixed = ui.mixed /\ ui'.crossed = ui.crossed
          /\ ui'.failed \in BOOLEAN /\ (~ui'.failed => ~ui.failed /\ ui'.text = text)
      BY Zenon, <2>1 DEF RestFields
    <2>4. ~ui.loaded /\ \A d \in calls \ {c} : d.op # "load"
      BY <2>1 DEF RestFields, Rest!CallsOf
    <2>5. RestFields' BY Zenon, <1>1, <2>3, <2>4 DEF RestFields, Rest!CallsOf
    <2>6. RestSaves' BY <1>1, <2>1, <2>2, <2>3, <2>4 DEF RestSaves, Rest!CallsOf
    <2>7. RestSends' BY <1>1, <2>3 DEF RestSends, Rest!CallsOf
    <2> QED BY <2>5, <2>6, <2>7
  <1>3. CASE Rest!AnswerSave(c)
    <2>1. c.op = "save"
          /\ \/ back' = c.text /\ ui' = [ui EXCEPT !.status = "saved"]
             \/ back' = back /\ ui' = [ui EXCEPT !.status = "idle", !.failed = TRUE]
      BY <1>3 DEF Rest!AnswerSave
    <2>2. /\ DOMAIN ui' = DOMAIN ui /\ ui'.timer = ui.timer /\ ui'.text = ui.text
          /\ ui'.late = ui.late /\ ui'.loaded = ui.loaded /\ ui'.response = ui.response
          /\ ui'.asked = ui.asked /\ ui'.mixed = ui.mixed /\ ui'.crossed = ui.crossed
          /\ ui'.failed \in BOOLEAN /\ (~ui'.failed => ~ui.failed /\ back' = c.text)
      BY Zenon, <2>1 DEF RestFields
    <2>3. RestFields' BY <1>1, <2>2 DEF RestFields, Rest!CallsOf
    <2>4. RestSaves' BY <1>1, <2>1, <2>2 DEF RestSaves, Rest!CallsOf
    <2>5. RestSends' BY <1>1, <2>2 DEF RestSends, Rest!CallsOf
    <2> QED BY <2>3, <2>4, <2>5
  <1>4. CASE Rest!AnswerSend(c)
    <2>1. c.op = "send" /\ back' = back /\ ui' = [ui EXCEPT !.response = c.text, !.sending = FALSE]
      BY <1>4 DEF Rest!AnswerSend
    <2>2. /\ DOMAIN ui' = DOMAIN ui /\ ui'.timer = ui.timer /\ ui'.text = ui.text
          /\ ui'.late = ui.late /\ ui'.loaded = ui.loaded /\ ui'.response = c.text
          /\ ui'.asked = ui.asked /\ ui'.mixed = ui.mixed /\ ui'.crossed = ui.crossed
          /\ ui'.failed = ui.failed
      BY <2>1 DEF RestFields
    <2>3. Rest!CallsOf({"load"})' = Rest!CallsOf({"load"}) /\ Rest!CallsOf({"save"})' = Rest!CallsOf({"save"})
      BY <1>1, <2>1 DEF Rest!CallsOf
    <2>4. RestFields' BY <2>2, <2>3 DEF RestFields
    <2>5. RestSaves' BY <2>1, <2>2, <2>3 DEF RestSaves
    <2>6. RestSends' BY <1>1, <2>1, <2>2 DEF RestSends, Rest!CallsOf
    <2> QED BY <2>4, <2>5, <2>6
  <1> QED BY <1>2, <1>3, <1>4

\* No step of the page leaves the invariant.
THEOREM RestNext == RestInv /\ [Rest!Next]_Rest!vars => RestInv'
  <1> SUFFICES ASSUME RestInv, [Rest!Next]_Rest!vars PROVE RestInv' OBVIOUS
  <1>1. CASE Rest!StatusFades
    <2>1. /\ calls' = calls /\ back' = back /\ ui' = [ui EXCEPT !.status = "idle"]
      BY <1>1 DEF Rest!StatusFades
    <2>2. /\ DOMAIN ui' = DOMAIN ui /\ ui'.timer = ui.timer /\ ui'.text = ui.text
          /\ ui'.late = ui.late /\ ui'.loaded = ui.loaded /\ ui'.response = ui.response
          /\ ui'.asked = ui.asked /\ ui'.mixed = ui.mixed /\ ui'.crossed = ui.crossed
          /\ ui'.failed = ui.failed
      BY <2>1 DEF RestInv, RestFields
    <2> QED BY <2>1, <2>2 DEF RestInv, RestFields, RestSaves, RestSends, Rest!CallsOf
  <1>2. CASE UNCHANGED Rest!vars
    <2>1. ui' = ui /\ calls' = calls /\ back' = back BY <1>2 DEF Rest!vars
    <2>2. RestFields' BY <2>1 DEF RestInv, RestFields, Rest!CallsOf
    <2>3. RestSaves' BY <2>1 DEF RestInv, RestSaves, Rest!CallsOf
    <2>4. RestSends' BY <2>1 DEF RestInv, RestSends, Rest!CallsOf
    <2> QED BY <2>2, <2>3, <2>4 DEF RestInv
  <1> QED
    BY <1>1, <1>2, RestTypes, RestFires, RestAsks, RestReopens, RestAnswers
       DEF Rest!Next, Rest!Editor, Rest!Header, Rest!Answer, Rest!SendButton, Rest!SendCurrent,
          Rest!HandleKeyDown

\* Two sets of one element at most have two together.
LEMMA RestTwo ==
  ASSUME NEW A, NEW B, \A s, t \in A : s = t, \A s, t \in B : s = t
  PROVE  Cardinality(A \cup B) <= 2
  <1>1. ASSUME NEW S, \A s, t \in S : s = t PROVE S = {} \/ \E s : S = {s}
    BY <1>1
  <1>2. PICK a, b : A \cup B \subseteq {a, b} BY <1>1
  <1>3. IsFiniteSet({a}) /\ Cardinality({a}) = 1 BY FS_Singleton
  <1>4. IsFiniteSet({a} \cup {b}) /\ Cardinality({a} \cup {b}) \in {1, 2}
    <2>1. IsFiniteSet({a} \cup {b})
          /\ Cardinality({a} \cup {b}) = IF b \in {a} THEN Cardinality({a}) ELSE Cardinality({a}) + 1
      BY <1>3, FS_AddElement
    <2> QED BY <1>3, <2>1
  <1>5. A \cup B \in SUBSET ({a} \cup {b}) BY <1>2
  <1>6. Cardinality(A \cup B) <= Cardinality({a} \cup {b}) /\ IsFiniteSet(A \cup B)
    BY <1>4, <1>5, FS_Subset
  <1>7. Cardinality(A \cup B) \in Nat BY <1>6, FS_CardinalityType
  <1> QED BY <1>4, <1>6, <1>7

\* What the invariant says of the page.
THEOREM RestSays == RestInv => Rest!TypeOK /\ Rest!ShownBelongs
  <1> SUFFICES ASSUME RestInv PROVE Rest!TypeOK /\ Rest!ShownBelongs OBVIOUS
  <1>1. Cardinality(ui.timer \cup ui.late) <= 2 BY RestTwo DEF RestInv, RestFields
  <1> QED BY <1>1, RestSize DEF RestInv, RestFields, RestSaves, RestSends, Rest!TypeOK,
             Rest!ShownBelongs

-----------------------------------------------------------------------------
\* TodoList.tla
\* The calls of the page are such calls.
LEMMA TodoCalls ==
  \A op, id : /\ DOMAIN Todo!Call(op, id) = {"op", "id", "row", "todo"}
              /\ Todo!Call(op, id).op = op /\ Todo!Call(op, id).id = id
              /\ Todo!Call(op, id).row = {} /\ Todo!Call(op, id).todo = {}
  BY DEF Todo!Call

\* The call that lists the tasks brings none along.
LEMMA TodoLoads == TodoJob(Todo!Load) /\ Todo!Load.op = "load" /\ Todo!Load.row = {} /\ Todo!Load.todo = {}
  <1>1. Todo!Load = Todo!Call("load", 0) BY DEF Todo!Load
  <1>2. DOMAIN Todo!Load = {"op", "id", "row", "todo"} /\ Todo!Load.op = "load" /\ Todo!Load.row = {} /\ Todo!Load.todo = {}
    BY <1>1, TodoCalls
  <1>3. TodoJob(Todo!Load) BY <1>2 DEF TodoJob, TodoTable
  <1> QED BY <1>2, <1>3

\* The page loads the tasks, of which there are none.
THEOREM TodoInit == Todo!Init => TodoInv
  <1> SUFFICES ASSUME Todo!Init PROVE TodoInv OBVIOUS
  <1>1. calls = {Todo!Load} /\ back = [rows |-> {}, lost |-> {}] BY DEF Todo!Init
  <1>2. /\ DOMAIN ui = {"items", "day", "filter", "editing", "value", "focus", "made", "hasty"}
        /\ ui.hasty = FALSE /\ ui.items = {}
    BY DEF Todo!Init
  <1>3. TodoTable({}) BY DEF TodoTable
  <1>4. TodoFields BY Zenon, <1>1, <1>2, <1>3, TodoLoads DEF TodoFields
  <1>5. TodoFresh BY <1>1, <1>2, TodoLoads DEF TodoFresh
  <1>6. TodoClean BY <1>1, TodoLoads DEF TodoClean, TodoDone
  <1> QED BY <1>4, <1>5, <1>6 DEF TodoInv

\* What leaves the tasks and the calls alone.
LEMMA TodoViews ==
  ASSUME TodoInv, calls' = calls, back' = back, DOMAIN ui' = DOMAIN ui,
         ui'.items = ui.items, ui'.made = ui.made, ui'.hasty = ui.hasty
  PROVE  TodoInv'
  <1>1. TodoFields' BY DEF TodoInv, TodoFields
  <1>2. TodoFresh' BY DEF TodoInv, TodoFresh
  <1>3. TodoClean' BY DEF TodoInv, TodoClean, TodoDone, TodoSeen
  <1> QED BY <1>1, <1>2, <1>3 DEF TodoInv

\* Something is asked for.
LEMMA TodoAsks ==
  ASSUME TodoInv, NEW n, TodoJob(n), n.op \notin {"load", "read"}, n \notin calls,
         calls' = calls \cup {n}, back' = back, DOMAIN ui' = DOMAIN ui,
         ui'.items = ui.items, ui.made \subseteq ui'.made, ui'.hasty \in BOOLEAN,
         \A r \in n.row \cup n.todo : r.id \in ui'.made,
         \/ n.op = "add" /\ \A r \in n.row : r.id \notin ui.made
         \/ n.op # "add" /\ \A r \in n.row \cup n.todo : \E s \in ui.items : s.id = r.id,
         ~ui'.hasty => ~ui.hasty /\ TodoDone(n)
                       /\ (n.op = "toggle" => \A c \in calls : c.op \notin {"edit", "clear"})
                       /\ (n.op \in {"edit", "clear"} => \A c \in calls : c.op # "toggle")
  PROVE  TodoInv'
  <1>1. TodoFields' BY DEF TodoInv, TodoFields
  <1>2. TodoFresh'
    <2>1. \A r \in ui'.items \cup back'.rows : r.id \in ui'.made BY DEF TodoInv, TodoFresh
    <2>2. \A c \in calls' : \A r \in c.row \cup c.todo : r.id \in ui'.made
      BY DEF TodoInv, TodoFresh
    <2>3. ASSUME NEW c \in calls', c.op = "add", NEW r \in c.row
          PROVE  /\ \A s \in ui'.items \cup back'.rows : s.id # r.id
                 /\ \A d \in calls' \ {c} : \A s \in d.row \cup d.todo : s.id # r.id
      <3>1. CASE c = n BY <2>3, <3>1 DEF TodoInv, TodoFresh
      <3>2. CASE c \in calls
        <4>1. \A s \in ui.items \cup back.rows : s.id # r.id
          BY <2>3, <3>2 DEF TodoInv, TodoFresh
        <4>2. \A d \in calls \ {c} : \A s \in d.row \cup d.todo : s.id # r.id
          BY <2>3, <3>2 DEF TodoInv, TodoFresh
        <4>3. r.id \in ui.made BY <3>2 DEF TodoInv, TodoFresh
        <4>4. n.op = "add" => n.todo = {} BY DEF TodoJob
        <4>5. \A s \in n.row \cup n.todo : s.id # r.id BY <4>1, <4>3, <4>4
        <4> QED BY <4>1, <4>2, <4>5
      <3> QED BY <3>1, <3>2
    <2> QED BY <2>1, <2>2, <2>3 DEF TodoFresh
  <1>3. TodoClean'
    <2> SUFFICES ASSUME ~ui'.hasty PROVE TodoClean' BY DEF TodoClean
    <2>1. \A c, d \in calls' : c.op \in {"load", "read"} /\ d.op \in {"load", "read"} => c = d
      BY DEF TodoInv, TodoClean
    <2>2. \A c, d \in calls' : ~(c.op = "toggle" /\ d.op \in {"edit", "clear"})
      BY DEF TodoInv, TodoClean
    <2>3. \A c \in calls' : TodoDone(c)' BY DEF TodoInv, TodoClean, TodoDone
    <2>4. \A rows : TodoSeen(rows) => TodoSeen(rows)' BY DEF TodoSeen
    <2>5. \A c \in calls' : c.op = "read" => TodoSeen(c.row)' BY <2>4 DEF TodoInv, TodoClean
    <2>6. (\A c \in calls' : c.op \notin {"load", "read"}) => TodoSeen(ui.items)
      BY DEF TodoInv, TodoClean
    <2>7. (\A c \in calls' : c.op \notin {"load", "read"}) => TodoSeen(ui.items)'
      BY <2>6 DEF TodoSeen
    <2>8. back'.lost = {} BY DEF TodoInv, TodoClean
    <2> QED BY <2>1, <2>2, <2>3, <2>5, <2>7, <2>8 DEF TodoClean
  <1> QED BY <1>1, <1>2, <1>3 DEF TodoInv

\* A change that fails leaves the tasks as they are.
LEMMA TodoFails ==
  ASSUME TodoInv, NEW c \in calls, c.op \notin {"load", "read"},
         calls' = calls \ {c}, back' = back, DOMAIN ui' = DOMAIN ui,
         ui'.items = ui.items, ui'.made = ui.made, 
         ui'.hasty \in BOOLEAN, ~ui'.hasty => ~ui.hasty /\ c.op # "clear"
  PROVE  TodoInv'
  <1>1. TodoFields' BY DEF TodoInv, TodoFields
  <1>2. TodoFresh' BY DEF TodoInv, TodoFresh
  <1>3. TodoClean' BY DEF TodoInv, TodoClean, TodoDone, TodoSeen
  <1> QED BY <1>1, <1>2, <1>3 DEF TodoInv

\* A change is made, and the tasks are loaded.
LEMMA TodoThenLoads ==
  ASSUME TodoInv, NEW c \in calls, c.op \notin {"load", "read"}, ~ui.hasty,
         calls' = (calls \ {c}) \cup {Todo!Load},
         DOMAIN back' = DOMAIN back, TodoTable(back'.rows), back'.lost = {},
         DOMAIN ui' = DOMAIN ui, ui'.items = ui.items, ui'.made = ui.made,
         ui'.hasty = (Todo!Loads # {}),
         \A r \in back'.rows : \/ \E s \in back.rows : s.id = r.id
                              \/ \E s \in c.row : s.id = r.id,
         \A d \in calls \ {c} : TodoDone(d)'
  PROVE  TodoInv'
  <1>1. TodoJob(Todo!Load) /\ Todo!Load.op = "load" /\ Todo!Load.row = {} /\ Todo!Load.todo = {}
    BY TodoLoads
  <1>2. TodoFields'
    <2>1. (Todo!Loads # {}) \in BOOLEAN OBVIOUS
    <2>2. ui'.hasty \in BOOLEAN BY <2>1
    <2> QED BY <1>1, <2>2 DEF TodoInv, TodoFields
  <1>3. TodoFresh'
    <2>1. \A r \in ui'.items \cup back'.rows : r.id \in ui'.made BY DEF TodoInv, TodoFresh
    <2>2. \A d \in calls' : \A r \in d.row \cup d.todo : r.id \in ui'.made
      BY <1>1 DEF TodoInv, TodoFresh
    <2>3. ASSUME NEW d \in calls', d.op = "add", NEW r \in d.row
          PROVE  /\ \A s \in ui'.items \cup back'.rows : s.id # r.id
                 /\ \A e \in calls' \ {d} : \A s \in e.row \cup e.todo : s.id # r.id
      <3>1. d \in calls /\ d # c BY <1>1, <2>3
      <3>2. /\ \A s \in ui.items \cup back.rows : s.id # r.id
            /\ \A e \in calls \ {d} : \A s \in e.row \cup e.todo : s.id # r.id
        BY <2>3, <3>1 DEF TodoInv, TodoFresh
      <3>3. \A s \in c.row : s.id # r.id BY <3>1, <3>2
      <3> QED BY <1>1, <3>1, <3>2, <3>3
    <2> QED BY <2>1, <2>2, <2>3 DEF TodoFresh
  <1>4. TodoClean'
    <2> SUFFICES ASSUME ~ui'.hasty PROVE TodoClean' BY DEF TodoClean
    <2>1. \A d \in calls : d.op \notin {"load", "read"} BY Zenon DEF Todo!Loads, Todo!CallsOf
    <2>2. \A d, e \in calls' : d.op \in {"load", "read"} /\ e.op \in {"load", "read"} => d = e
      BY <2>1
    <2>3. \A d, e \in calls' : ~(d.op = "toggle" /\ e.op \in {"edit", "clear"})
      BY <1>1 DEF TodoInv, TodoClean
    <2>4. TodoDone(Todo!Load)' BY <1>1 DEF TodoDone
    <2>5. \A d \in calls' : TodoDone(d)' BY <2>4
    <2>6. Todo!Load \in calls' /\ \A d \in calls' : d.op # "read" BY <1>1, <2>1
    <2> QED BY <1>1, <2>2, <2>3, <2>5, <2>6 DEF TodoClean
  <1> QED BY <1>2, <1>3, <1>4 DEF TodoInv

\* A task that was added, completed or not any more, changed or deleted.
LEMMA TodoAnswers ==
  ASSUME TodoInv, ~ui.hasty, NEW c \in calls,
         Todo!AnswerAdd(c) \/ Todo!AnswerToggle(c) \/ Todo!AnswerEdit(c) \/ Todo!AnswerDelete(c)
         \/ (c.op = "clear" /\ Todo!ThenLoad(c) /\ UNCHANGED back)
  PROVE  TodoInv'
  <1>1. /\ DOMAIN ui = {"items", "day", "filter", "editing", "value", "focus", "made", "hasty"}
        /\ DOMAIN back = {"rows", "lost"} /\ TodoTable(back.rows) /\ TodoJob(c) /\ back.lost = {}
        /\ ui.hasty = FALSE
    BY DEF TodoInv, TodoFields, TodoClean
  <1>2. \A d \in calls : TodoDone(d) BY DEF TodoInv, TodoClean
  <1>3. ASSUME Todo!ThenLoad(c)
        PROVE  /\ calls' = (calls \ {c}) \cup {Todo!Load} /\ DOMAIN ui' = DOMAIN ui
               /\ ui'.items = ui.items /\ ui'.made = ui.made /\ ui'.hasty = (Todo!Loads # {})
    <2> DEFINE any == Todo!Loads # {}
    <2>1. calls' = (calls \ {c}) \cup {Todo!Load} /\ ui' = [ui EXCEPT !.hasty = @ \/ any]
      BY <1>3 DEF Todo!ThenLoad, Todo!Continue
    <2>2. any \in BOOLEAN OBVIOUS
    <2> HIDE DEF any
    <2>3. ui'.hasty = any BY <1>1, <2>1, <2>2
    <2>4. DOMAIN ui' = DOMAIN ui /\ ui'.items = ui.items /\ ui'.made = ui.made BY <1>1, <2>1
    <2> QED BY <2>1, <2>3, <2>4 DEF any
  <1>4. CASE c.op = "clear" /\ Todo!ThenLoad(c) /\ UNCHANGED back
    <2>1. \A d \in calls : TodoDone(d)' BY <1>2, <1>4 DEF TodoDone
    <2> QED BY <1>1, <1>3, <1>4, <2>1, TodoThenLoads
  <1>5. CASE Todo!AnswerDelete(c)
    <2>1. c.op = "delete" /\ Todo!ThenLoad(c) /\ back' = [back EXCEPT !.rows = {r \in @ : r.id # c.id}]
      BY <1>5 DEF Todo!AnswerDelete
    <2>2. back'.rows \subseteq back.rows /\ back'.lost = {} /\ DOMAIN back' = DOMAIN back
      BY <1>1, <2>1
    <2>3. TodoTable(back'.rows) BY <1>1, <2>2 DEF TodoTable
    <2>4. \A d \in calls : TodoDone(d)' BY <1>2, <2>2 DEF TodoDone
    <2> QED BY <1>3, <2>1, <2>2, <2>3, <2>4, TodoThenLoads
  <1>6. CASE Todo!AnswerAdd(c)
    <2>1. c.op = "add" /\ Todo!ThenLoad(c) /\ back' = [back EXCEPT !.rows = @ \cup c.row]
      BY <1>6 DEF Todo!AnswerAdd
    <2>2. back'.rows = back.rows \cup c.row /\ back'.lost = {} /\ DOMAIN back' = DOMAIN back
      BY <1>1, <2>1
    <2>3. /\ \A r \in c.row : \A s \in back.rows : s.id # r.id
          /\ \A r \in c.row : \A d \in calls \ {c} : \A s \in d.row \cup d.todo : s.id # r.id
      BY <2>1 DEF TodoInv, TodoFresh
    <2>4. TodoTable(back'.rows) BY <1>1, <2>2, <2>3 DEF TodoTable, TodoJob
    <2>5. \A d \in calls \ {c} : TodoDone(d)' BY <1>2, <2>2, <2>3 DEF TodoDone
    <2> QED BY <1>3, <2>1, <2>2, <2>4, <2>5, TodoThenLoads
  <1>7. CASE Todo!AnswerToggle(c)
    <2> DEFINE flip(r) == [r EXCEPT !.done = IF r.id = c.id THEN ~@ ELSE @]
               flipped == {flip(r) : r \in back.rows}
    <2>1. c.op = "toggle" /\ Todo!ThenLoad(c) /\ back' = [back EXCEPT !.rows = flipped]
      BY <1>1, <1>7 DEF Todo!AnswerToggle
    <2>2. \A r \in back.rows : DOMAIN flip(r) = DOMAIN r /\ flip(r).id = r.id
      BY <1>1 DEF TodoTable, TodoRow
    <2>3. flipped = {flip(r) : r \in back.rows} OBVIOUS
    <2> HIDE DEF flip, flipped
    <2>4. back'.rows = flipped /\ back'.lost = {} /\ DOMAIN back' = DOMAIN back BY <1>1, <2>1
    <2>5. \A r \in flipped : \E s \in back.rows : r = flip(s) /\ s.id = r.id BY <2>2, <2>3
    <2>6. TodoTable(flipped)
      <3>1. \A r \in flipped : TodoRow(r) BY <1>1, <2>2, <2>5 DEF TodoTable, TodoRow
      <3>2. ASSUME NEW r \in flipped, NEW s \in flipped, r.id = s.id PROVE r = s
        <4>1. PICK a \in back.rows : r = flip(a) /\ a.id = r.id BY <2>5
        <4>2. PICK b \in back.rows : s = flip(b) /\ b.id = s.id BY <2>5
        <4>3. a = b BY <1>1, <3>2, <4>1, <4>2 DEF TodoTable
        <4> QED BY <4>1, <4>2, <4>3
      <3> QED BY <3>1, <3>2 DEF TodoTable
    <2>7. \A d \in calls : d.op \notin {"edit", "clear"} BY <2>1 DEF TodoInv, TodoClean
    <2>8. \A d \in calls : TodoDone(d)' BY <2>7 DEF TodoDone
    <2> QED BY <1>3, <2>1, <2>4, <2>5, <2>6, <2>8, TodoThenLoads
  <1>8. CASE Todo!AnswerEdit(c)
    <2> DEFINE old == {r \in back.rows : r.id = c.id}
               gone == {r \in old : \E n \in c.row : n.done # r.done}
               any == Todo!Loads # {}
    <2>1. /\ c.op = "edit" /\ Todo!Continue(c, Todo!Load) /\ ui' = [Todo!Closed EXCEPT !.hasty = @ \/ any]
          /\ back' = IF old = {} THEN back ELSE [rows |-> (back.rows \ old) \cup c.row, lost |-> back.lost \cup gone]
      BY <1>8 DEF Todo!AnswerEdit
    <2>2. any \in BOOLEAN OBVIOUS
    <2> HIDE DEF any
    <2>3. /\ DOMAIN Todo!Closed = DOMAIN ui /\ Todo!Closed.items = ui.items /\ Todo!Closed.made = ui.made
          /\ Todo!Closed.hasty = ui.hasty
      BY <1>1 DEF Todo!Closed
    <2>4. /\ DOMAIN ui' = DOMAIN ui /\ ui'.items = ui.items /\ ui'.made = ui.made /\ ui'.hasty = any
      BY <1>1, <2>1, <2>2, <2>3
    <2>5. calls' = (calls \ {c}) \cup {Todo!Load} BY <2>1 DEF Todo!Continue
    <2>6. /\ \A r \in back.rows, n \in c.row : r.id = n.id => n.done = r.done
          /\ \A n \in c.row : n.id = c.id
      BY <1>1, <1>2, <2>1 DEF TodoDone, TodoJob
    <2>7. gone = {} BY <2>6
    <2>8. \/ back' = back
          \/ /\ old # {} /\ back'.rows = (back.rows \ old) \cup c.row /\ back'.lost = {}
             /\ DOMAIN back' = DOMAIN back
      <3> HIDE DEF old, gone
      <3> QED BY <1>1, <2>1, <2>7
    <2>9. CASE back' = back
      <3>1. \A d \in calls : TodoDone(d)' BY <1>2, <2>9 DEF TodoDone
      <3> QED BY Zenon, <1>1, <2>1, <2>4, <2>5, <2>9, <3>1, TodoThenLoads DEF any
    <2>10. CASE /\ old # {} /\ back'.rows = (back.rows \ old) \cup c.row /\ back'.lost = {}
                /\ DOMAIN back' = DOMAIN back
      <3>1. TodoTable(back'.rows) BY <1>1, <2>6, <2>10 DEF TodoTable, TodoJob
      <3>2. PICK o \in back.rows : o.id = c.id BY <2>10
      <3>3. \A n \in c.row : n.id = o.id /\ n.done = o.done BY <2>6, <3>2
      <3>4. ASSUME NEW d \in calls PROVE TodoDone(d)'
        <4>1. TodoDone(d) BY <1>2
        <4>2. ASSUME d.op = "edit", NEW r \in back'.rows, NEW n \in d.row, r.id = n.id
              PROVE  n.done = r.done
          <5>1. CASE r \in back.rows BY <4>1, <4>2, <5>1 DEF TodoDone
          <5>2. CASE r \in c.row BY <3>2, <3>3, <4>1, <4>2, <5>2 DEF TodoDone
          <5> QED BY <2>10, <5>1, <5>2
        <4>3. ASSUME d.op = "clear", NEW r \in back'.rows, NEW n \in d.todo, r.id = n.id
              PROVE  r.done
          <5>1. CASE r \in back.rows BY <4>1, <4>3, <5>1 DEF TodoDone
          <5>2. CASE r \in c.row
            <6>1. o.done BY <3>2, <3>3, <4>1, <4>3, <5>2 DEF TodoDone
            <6> QED BY Zenon, <3>3, <5>2, <6>1
          <5> QED BY <2>10, <5>1, <5>2
        <4> QED BY <4>2, <4>3 DEF TodoDone
      <3>5. \A r \in back'.rows : (\E s \in back.rows : s.id = r.id) \/ (\E s \in c.row : s.id = r.id)
        BY <2>10
      <3> QED BY Zenon, <2>1, <2>4, <2>5, <2>10, <3>1, <3>4, <3>5, TodoThenLoads DEF any
    <2> QED BY <2>8, <2>9, <2>10
  <1> QED BY <1>4, <1>5, <1>6, <1>7, <1>8

\* Go reads the tasks.
LEMMA TodoReads == ASSUME TodoInv, ~ui.hasty, NEW c \in calls, Todo!GoReads(c) PROVE TodoInv'
  <1>0. PICK d : d = [c EXCEPT !.op = "read", !.row = back.rows] OBVIOUS
  <1>1. /\ c.op = "load" /\ calls' = (calls \ {c}) \cup {d} /\ ui' = ui /\ back' = back
    BY <1>0 DEF Todo!GoReads, Todo!Continue
  <1>2. TodoJob(c) /\ TodoTable(back.rows) /\ c.todo = {}
    BY <1>1 DEF TodoInv, TodoFields, TodoJob
  <1>3. /\ DOMAIN d = {"op", "id", "row", "todo"} /\ d.op = "read" /\ d.row = back.rows /\ d.todo = {}
    BY <1>0, <1>2 DEF TodoJob
  <1>4. TodoJob(d) BY <1>2, <1>3 DEF TodoJob
  <1>5. TodoFields' BY <1>1, <1>4 DEF TodoInv, TodoFields
  <1>6. TodoFresh'
    <2>1. \A r \in ui'.items \cup back'.rows : r.id \in ui'.made BY <1>1 DEF TodoInv, TodoFresh
    <2>2. \A e \in calls' : \A r \in e.row \cup e.todo : r.id \in ui'.made
      BY <1>1, <1>3 DEF TodoInv, TodoFresh
    <2>3. ASSUME NEW e \in calls', e.op = "add", NEW r \in e.row
          PROVE  /\ \A s \in ui'.items \cup back'.rows : s.id # r.id
                 /\ \A f \in calls' \ {e} : \A s \in f.row \cup f.todo : s.id # r.id
      <3>1. e \in calls BY <1>1, <1>3, <2>3
      <3>2. /\ \A s \in ui.items \cup back.rows : s.id # r.id
            /\ \A f \in calls \ {e} : \A s \in f.row \cup f.todo : s.id # r.id
        BY <2>3, <3>1 DEF TodoInv, TodoFresh
      <3> QED BY <1>1, <1>3, <3>2
    <2> QED BY <2>1, <2>2, <2>3 DEF TodoFresh
  <1>7. TodoClean'
    <2>1. \A e \in calls \ {c} : e.op \notin {"load", "read"} BY <1>1 DEF TodoInv, TodoClean
    <2>2. \A e, f \in calls' : e.op \in {"load", "read"} /\ f.op \in {"load", "read"} => e = f
      BY <1>1, <2>1
    <2>3. \A e, f \in calls' : ~(e.op = "toggle" /\ f.op \in {"edit", "clear"})
      BY <1>1, <1>3 DEF TodoInv, TodoClean
    <2>4. \A e \in calls' : TodoDone(e)' BY <1>1, <1>3 DEF TodoInv, TodoClean, TodoDone
    <2>5. TodoSeen(d.row)' BY <1>1, <1>3 DEF TodoSeen
    <2>6. \A e \in calls' : e.op = "read" => e = d BY <1>1, <2>1
    <2>8. \A e \in calls' : e.op = "read" => TodoSeen(e.row)' BY <2>5, <2>6
    <2>7. d \in calls' /\ back'.lost = {} BY <1>1 DEF TodoInv, TodoClean
    <2> QED BY <1>3, <2>2, <2>3, <2>4, <2>7, <2>8 DEF TodoClean
  <1> QED BY <1>5, <1>6, <1>7 DEF TodoInv

\* The tasks come, or do not.
LEMMA TodoListed == ASSUME TodoInv, ~ui.hasty, NEW c \in calls, Todo!AnswerLoad(c) PROVE TodoInv'
  <1>1. /\ c.op \in {"load", "read"} /\ calls' = calls \ {c} /\ back' = back /\ DOMAIN ui' = DOMAIN ui
        /\ ui'.made = ui.made
        /\ \/ c.op = "read" /\ ui'.items = c.row /\ ui'.hasty = FALSE
           \/ ui'.items = ui.items /\ ui'.hasty = TRUE
    <2>1. ui.hasty = FALSE BY DEF TodoInv, TodoFields
    <2> QED BY <2>1 DEF Todo!AnswerLoad, Todo!Answered, TodoInv, TodoFields
  <1>2. ui'.items = c.row \/ ui'.items = ui.items BY <1>1
  <1>3. TodoTable(c.row) BY DEF TodoInv, TodoFields, TodoJob
  <1>4. ui'.hasty \in BOOLEAN BY Zenon, <1>1
  <1>5. TodoFields' BY <1>1, <1>2, <1>3, <1>4 DEF TodoInv, TodoFields
  <1>6. TodoFresh' BY <1>1, <1>2 DEF TodoInv, TodoFresh
  <1>7. TodoClean'
    <2> SUFFICES ASSUME ~ui'.hasty PROVE TodoClean' BY DEF TodoClean
    <2>1. c.op = "read" /\ ui'.items = c.row BY <1>1
    <2>2. TodoSeen(c.row) BY <2>1 DEF TodoInv, TodoClean
    <2>3. TodoSeen(ui.items)' BY <1>1, <2>1, <2>2 DEF TodoSeen
    <2>4. \A d \in calls' : d.op # "read" BY <1>1 DEF TodoInv, TodoClean
    <2>5. \A d \in calls' : TodoDone(d)' BY <1>1 DEF TodoInv, TodoClean, TodoDone
    <2> QED BY <1>1, <2>3, <2>4, <2>5 DEF TodoInv, TodoClean
  <1> QED BY <1>5, <1>6, <1>7 DEF TodoInv

\* A completed task is cleared.
LEMMA TodoClears ==
  ASSUME TodoInv, ~ui.hasty, NEW c \in calls, NEW r \in c.todo, Todo!ClearOne(c, r) PROVE TodoInv'
  <1> DEFINE some == {s \in back.rows : s.id = r.id /\ ~s.done}
             left == {s \in back.rows : s.id # r.id}
  <1>0. PICK d : d = [c EXCEPT !.todo = @ \ {r}] OBVIOUS
  <1>1. /\ c.op = "clear" /\ calls' = (calls \ {c}) \cup {d} /\ ui' = ui
        /\ back' = [rows |-> left, lost |-> back.lost \cup some]
    BY <1>0 DEF Todo!ClearOne, Todo!Continue
  <1>2. TodoJob(c) BY DEF TodoInv, TodoFields
  <1>3. /\ DOMAIN d = {"op", "id", "row", "todo"} /\ d.op = "clear" /\ d.row = c.row
        /\ d.todo \subseteq c.todo /\ d.id = c.id
    BY <1>0, <1>1, <1>2 DEF TodoJob
  <1>4. TodoJob(d) BY <1>1, <1>2, <1>3 DEF TodoJob
  <1>5. some = {} BY <1>1 DEF TodoInv, TodoClean, TodoDone
  <1>6. left \subseteq back.rows OBVIOUS
  <1> HIDE DEF some, left
  <1>7. back'.rows \subseteq back.rows /\ back'.lost = {} /\ DOMAIN back' = {"rows", "lost"}
    BY <1>1, <1>5, <1>6 DEF TodoInv, TodoClean
  <1>8. TodoFields' BY <1>1, <1>4, <1>7 DEF TodoInv, TodoFields, TodoTable
  <1>9. TodoFresh'
    <2>1. \A s \in ui'.items \cup back'.rows : s.id \in ui'.made
      BY <1>1, <1>7 DEF TodoInv, TodoFresh
    <2>2. \A e \in calls' : \A s \in e.row \cup e.todo : s.id \in ui'.made
      BY <1>1, <1>3 DEF TodoInv, TodoFresh
    <2>3. ASSUME NEW e \in calls', e.op = "add", NEW q \in e.row
          PROVE  /\ \A s \in ui'.items \cup back'.rows : s.id # q.id
                 /\ \A f \in calls' \ {e} : \A s \in f.row \cup f.todo : s.id # q.id
      <3>1. e \in calls BY <1>1, <1>3, <2>3
      <3>2. /\ \A s \in ui.items \cup back.rows : s.id # q.id
            /\ \A f \in calls \ {e} : \A s \in f.row \cup f.todo : s.id # q.id
        BY <2>3, <3>1 DEF TodoInv, TodoFresh
      <3>3. e # c BY <1>1, <2>3
      <3> QED BY <1>1, <1>3, <1>7, <3>2, <3>3
    <2> QED BY <2>1, <2>2, <2>3 DEF TodoFresh
  <1>10. TodoClean'
    <2>1. \A e, f \in calls' : e.op \in {"load", "read"} /\ f.op \in {"load", "read"} => e = f
      BY <1>1, <1>3 DEF TodoInv, TodoClean
    <2>2. \A e, f \in calls' : ~(e.op = "toggle" /\ f.op \in {"edit", "clear"})
      <3>1. \A e \in calls : e.op # "toggle" BY <1>1 DEF TodoInv, TodoClean
      <3> QED BY <1>1, <1>3, <3>1
    <2>3. \A e \in calls' : TodoDone(e)'
      BY <1>1, <1>3, <1>7 DEF TodoInv, TodoClean, TodoDone
    <2>4. ~(\A e \in calls' : e.op # "clear") BY <1>1, <1>3
    <2>5. \A rows : TodoSeen(rows) => TodoSeen(rows)' BY <1>7, <2>4 DEF TodoSeen
    <2>6. \A e \in calls' : e.op = "read" => TodoSeen(e.row)'
      BY <1>1, <1>3, <2>5 DEF TodoInv, TodoClean
    <2>7. (\A e \in calls' : e.op \notin {"load", "read"}) => TodoSeen(ui.items)
      BY <1>1 DEF TodoInv, TodoClean
    <2>8. (\A e \in calls' : e.op \notin {"load", "read"}) => TodoSeen(ui.items)'
      BY <1>1, <1>7, <2>4, <2>7 DEF TodoSeen
    <2> QED BY <1>7, <2>1, <2>2, <2>3, <2>6, <2>8 DEF TodoClean
  <1> QED BY <1>8, <1>9, <1>10 DEF TodoInv

\* What the page asks for.
LEMMA TodoClicks ==
  ASSUME TodoInv, ~ui.hasty,
         \/ \E id \in (1 .. Bound) : Todo!HandleAdd(id)
         \/ \E r \in Todo!Shown : Todo!HandleToggle(r) \/ Todo!HandleDelete(r)
         \/ Todo!HandleClearCompleted
         \/ \E leave \in BOOLEAN : Todo!HandleSaveEdit(leave)
  PROVE  TodoInv'
  <1>1. /\ DOMAIN ui = {"items", "day", "filter", "editing", "value", "focus", "made", "hasty"}
        /\ TodoTable(ui.items) /\ ui.hasty = FALSE
    BY DEF TodoInv, TodoFields
  <1>2. Todo!Shown \subseteq ui.items BY DEF Todo!Shown
  <1>3. \A r \in ui.items : r.id \in ui.made /\ TodoRow(r)
    BY <1>1 DEF TodoInv, TodoFresh, TodoTable
  <1>4. TodoTable({}) BY DEF TodoTable
  <1>5. ASSUME NEW id \in (1 .. Bound), Todo!HandleAdd(id) PROVE TodoInv'
    <2> DEFINE r == [id |-> id, title |-> First, done |-> FALSE]
               j == Todo!Call("add", id)
               n == [j EXCEPT !.row = {r}]
    <2>1. /\ id \notin ui.made /\ n \notin calls /\ calls' = calls \cup {n} /\ back' = back
          /\ ui' = [ui EXCEPT !.made = @ \cup {id}]
      BY <1>5 DEF Todo!HandleAdd, Todo!Ask
    <2>2. /\ DOMAIN j = {"op", "id", "row", "todo"} /\ j.op = "add" /\ j.id = id /\ j.todo = {}
      BY TodoCalls
    <2>3. r.id = id /\ TodoRow(r) BY DEF TodoRow
    <2> HIDE DEF j, r
    <2>4. /\ DOMAIN n = {"op", "id", "row", "todo"} /\ n.op = "add" /\ n.todo = {} /\ n.row = {r}
      BY <2>2
    <2> HIDE DEF n
    <2>5. TodoJob(n) BY <2>3, <2>4 DEF TodoJob, TodoTable
    <2>6. /\ DOMAIN ui' = DOMAIN ui /\ ui'.items = ui.items /\ ui'.made = ui.made \cup {id}
          /\ ui'.hasty = FALSE
      BY <1>1, <2>1
    <2>7. TodoDone(n) BY <2>4 DEF TodoDone
    <2>8. ui'.hasty \in BOOLEAN /\ ui.made \subseteq ui'.made BY Zenon, <2>6
    <2>9. \A q \in n.row \cup n.todo : q.id \in ui'.made /\ q.id \notin ui.made
      BY <2>1, <2>3, <2>4, <2>6
    <2> QED BY <2>1, <2>4, <2>5, <2>6, <2>7, <2>8, <2>9, TodoAsks
  <1>6. ASSUME NEW r \in Todo!Shown, Todo!HandleToggle(r) PROVE TodoInv'
    <2> DEFINE n == Todo!Call("toggle", r.id)
               any == Todo!CallsOf({"edit", "clear"}) # {}
    <2>1. n \notin calls /\ calls' = calls \cup {n} /\ back' = back /\ ui' = [ui EXCEPT !.hasty = any]
      BY <1>6 DEF Todo!HandleToggle, Todo!Ask
    <2>2. /\ DOMAIN n = {"op", "id", "row", "todo"} /\ n.op = "toggle" /\ n.row = {} /\ n.todo = {}
      BY TodoCalls
    <2>3. any \in BOOLEAN /\ (~any => \A c \in calls : c.op \notin {"edit", "clear"})
      BY DEF Todo!CallsOf
    <2> HIDE DEF n, any
    <2>4. TodoJob(n) BY <1>4, <2>2 DEF TodoJob
    <2>5. DOMAIN ui' = DOMAIN ui /\ ui'.items = ui.items /\ ui'.made = ui.made /\ ui'.hasty = any
      BY <1>1, <2>1
    <2>6. TodoDone(n) BY <2>2 DEF TodoDone
    <2>7. \A q \in n.row \cup n.todo : FALSE BY <2>2
    <2> QED BY <2>1, <2>2, <2>3, <2>4, <2>5, <2>6, <2>7, TodoAsks
  <1>7. ASSUME NEW r \in Todo!Shown, Todo!HandleDelete(r) PROVE TodoInv'
    <2> DEFINE n == Todo!Call("delete", r.id)
    <2>1. n \notin calls /\ calls' = calls \cup {n} /\ back' = back /\ ui' = ui
      BY <1>7 DEF Todo!HandleDelete, Todo!Ask
    <2>2. /\ DOMAIN n = {"op", "id", "row", "todo"} /\ n.op = "delete" /\ n.row = {} /\ n.todo = {}
      BY TodoCalls
    <2> HIDE DEF n
    <2>4. TodoJob(n) BY <1>4, <2>2 DEF TodoJob
    <2>6. TodoDone(n) BY <2>2 DEF TodoDone
    <2>7. \A q \in n.row \cup n.todo : FALSE BY <2>2
    <2>8. ui'.hasty \in BOOLEAN BY Zenon, <1>1, <2>1
    <2> QED BY <2>1, <2>2, <2>4, <2>6, <2>7, <2>8, TodoAsks
  \* With no load on its way the page holds the tasks there are, each as it is.
  <1>8. ASSUME Todo!CallsOf({"toggle", "load", "read"}) = {}
        PROVE  /\ \A c \in calls : c.op \notin {"toggle", "load", "read"}
               /\ \A r \in back.rows, s \in ui.items : r.id = s.id => r = s
    <2>1. \A c \in calls : c.op \notin {"toggle", "load", "read"} BY <1>8 DEF Todo!CallsOf
    <2>2. back.rows \subseteq ui.items BY <2>1 DEF TodoInv, TodoClean, TodoSeen
    <2> QED BY <1>1, <2>1, <2>2 DEF TodoTable
  <1>9. CASE Todo!HandleClearCompleted
    <2> DEFINE j == Todo!Call("clear", 0)
               any == Todo!CallsOf({"toggle", "load", "read"}) # {}
    <2>0. PICK todo : todo = {r \in Todo!Shown : r.done} OBVIOUS
    <2>10. PICK n : n = [j EXCEPT !.todo = todo] OBVIOUS
    <2>1. n \notin calls /\ calls' = calls \cup {n} /\ back' = back /\ ui' = [ui EXCEPT !.hasty = any]
      BY <1>9, <2>0, <2>10 DEF Todo!HandleClearCompleted, Todo!Ask
    <2>2. /\ DOMAIN j = {"op", "id", "row", "todo"} /\ j.op = "clear" /\ j.row = {}
      BY TodoCalls
    <2>3. any \in BOOLEAN /\ (~any => Todo!CallsOf({"toggle", "load", "read"}) = {}) OBVIOUS
    <2> HIDE DEF j, any
    <2>4. /\ DOMAIN n = {"op", "id", "row", "todo"} /\ n.op = "clear" /\ n.row = {} /\ n.todo = todo
      BY <2>2, <2>10
    <2>5. TodoJob(n) BY <1>4, <2>4 DEF TodoJob
    <2>6. DOMAIN ui' = DOMAIN ui /\ ui'.items = ui.items /\ ui'.made = ui.made /\ ui'.hasty = any
      BY <1>1, <2>1
    <2>7. \A r \in todo : r \in ui.items /\ r.done BY <1>2, <2>0
    <2>8. ~any => TodoDone(n) BY <1>8, <2>3, <2>4, <2>7 DEF TodoDone
    <2>9. \A r \in n.row \cup n.todo : r.id \in ui'.made /\ \E s \in ui.items : s.id = r.id
      BY <1>3, <2>4, <2>6, <2>7
    <2>11. ~any => \A c \in calls : c.op # "toggle" BY <1>8, <2>3
    <2> QED BY <2>1, <2>3, <2>4, <2>5, <2>6, <2>8, <2>9, <2>11, TodoAsks
  <1>10. ASSUME NEW leave \in BOOLEAN, Todo!HandleSaveEdit(leave) PROVE TodoInv'
    <2> DEFINE j == Todo!Call("edit", ui.editing)
               any == Todo!CallsOf({"toggle", "load", "read"}) # {}
               new(r) == [r EXCEPT !.title = ui.value]
    <2>0. PICK changed : changed = {r \in ui.items : r.id = ui.editing /\ ui.value \notin {r.title, Nothing}}
      OBVIOUS
    <2>12. PICK row : row = {new(r) : r \in changed} OBVIOUS
    <2>10. PICK n : n = [j EXCEPT !.row = row] OBVIOUS
    <2>1. CASE UNCHANGED calls /\ ui' = Todo!Closed /\ UNCHANGED back
      <3>1. /\ DOMAIN ui' = DOMAIN ui /\ ui'.items = ui.items /\ ui'.made = ui.made
            /\ ui'.hasty = ui.hasty
        BY <1>1, <2>1 DEF Todo!Closed
      <3> QED BY <2>1, <3>1, TodoViews
    <2>2. CASE ~(UNCHANGED calls /\ ui' = Todo!Closed /\ UNCHANGED back)
      <3>1. /\ n \notin calls /\ calls' = calls \cup {n} /\ back' = back
            /\ ui' = [ui EXCEPT !.hasty = @ \/ any, !.focus = ~leave]
        BY Zenon, <1>10, <2>0, <2>2, <2>10, <2>12 DEF Todo!HandleSaveEdit, Todo!Ask
      <3>2. DOMAIN j = {"op", "id", "row", "todo"} /\ j.op = "edit" /\ j.id = ui.editing /\ j.todo = {}
        BY TodoCalls
      <3>3. any \in BOOLEAN /\ (~any => Todo!CallsOf({"toggle", "load", "read"}) = {}) OBVIOUS
      <3>4. \A r \in changed : /\ new(r).id = r.id /\ new(r).done = r.done /\ DOMAIN new(r) = DOMAIN r
                               /\ r \in ui.items /\ r.id = ui.editing
        BY <1>1, <2>0 DEF TodoTable, TodoRow
      <3> HIDE DEF j, any, new
      <3>5. /\ DOMAIN n = {"op", "id", "row", "todo"} /\ n.op = "edit" /\ n.row = row /\ n.todo = {}
            /\ n.id = ui.editing
        BY <2>10, <3>2
      <3>6. \A q \in row : \E r \in changed : q = new(r) BY <2>12
      <3>7. TodoTable(row)
        <4>1. \A q \in row : TodoRow(q) BY <1>1, <3>4, <3>6 DEF TodoTable, TodoRow
        <4>2. ASSUME NEW p \in row, NEW q \in row, p.id = q.id PROVE p = q
          <5>1. PICK a \in changed : p = new(a) BY <3>6
          <5>2. PICK b \in changed : q = new(b) BY <3>6
          <5>3. a = b BY <1>1, <3>4 DEF TodoTable
          <5> QED BY <5>1, <5>2, <5>3
        <4> QED BY <4>1, <4>2 DEF TodoTable
      <3>8. \A q \in row : q.id = ui.editing /\ \E r \in ui.items : r.id = q.id /\ r.done = q.done
        BY <3>4, <3>6
      <3>9. TodoJob(n) BY <3>5, <3>7, <3>8 DEF TodoJob
      <3>10. DOMAIN ui' = DOMAIN ui /\ ui'.items = ui.items /\ ui'.made = ui.made /\ ui'.hasty = any
        BY <1>1, <3>1, <3>3
      <3>11. ASSUME ~any PROVE TodoDone(n)
        <4>1. \A r \in back.rows, s \in ui.items : r.id = s.id => r = s BY <1>8, <3>3, <3>11
        <4>2. ASSUME NEW r \in back.rows, NEW q \in n.row, r.id = q.id PROVE q.done = r.done
          <5>1. PICK s \in ui.items : s.id = q.id /\ s.done = q.done BY <3>5, <3>8
          <5> QED BY <4>1, <4>2, <5>1
        <4> QED BY <3>5, <4>2 DEF TodoDone
      <3>12. \A q \in n.row \cup n.todo : q.id \in ui'.made /\ \E s \in ui.items : s.id = q.id
        BY <1>3, <3>5, <3>8, <3>10
      <3>13. ~any => \A c \in calls : c.op # "toggle" BY <1>8, <3>3
      <3> QED BY <3>1, <3>3, <3>5, <3>9, <3>10, <3>11, <3>12, <3>13, TodoAsks
    <2> QED BY <2>1, <2>2
  <1> QED BY <1>5, <1>6, <1>7, <1>9, <1>10

\* No step leaves the invariant.
THEOREM TodoNext == TodoInv /\ [Todo!Next]_Todo!vars => TodoInv'
  <1> SUFFICES ASSUME TodoInv, [Todo!Next]_Todo!vars PROVE TodoInv' OBVIOUS
  <1>0. DOMAIN ui = {"items", "day", "filter", "editing", "value", "focus", "made", "hasty"}
        /\ ui.hasty \in BOOLEAN
    BY DEF TodoInv, TodoFields
  <1>1. CASE UNCHANGED Todo!vars BY <1>1, TodoViews DEF Todo!vars
  <1>2. CASE Todo!Next
    <2>1. ~ui.hasty BY <1>2 DEF Todo!Next
    <2>2. ASSUME NEW d, Todo!SelectDay(d) PROVE TodoInv'
      BY <1>0, <2>2, TodoViews DEF Todo!SelectDay
    <2>3. ASSUME NEW f, Todo!SetFilter(f) PROVE TodoInv'
      BY <1>0, <2>3, TodoViews DEF Todo!SetFilter
    <2>4. ASSUME NEW r \in Todo!Shown, Todo!HandleStartEdit(r) PROVE TodoInv'
      BY <1>0, <2>4, TodoViews DEF Todo!HandleStartEdit
    <2>5. ASSUME NEW t, Todo!TypeEdit(t) PROVE TodoInv'
      BY <1>0, <2>5, TodoViews DEF Todo!TypeEdit
    <2>6. CASE Todo!CancelEdit
      BY <1>0, <2>6, TodoViews DEF Todo!CancelEdit, Todo!Closed
    <2>7. ASSUME NEW c \in calls, Todo!Fails(c) PROVE TodoInv'
      <3>1. /\ c.op \in {"add", "toggle", "edit", "delete"} /\ calls' = calls \ {c} /\ back' = back
            /\ DOMAIN ui' = DOMAIN ui /\ ui'.items = ui.items /\ ui'.made = ui.made
            /\ ui'.hasty = ui.hasty
        BY <1>0, <2>7 DEF Todo!Fails, Todo!Answered, Todo!Closed
      <3> QED BY <1>0, <3>1, TodoFails
    <2>8. ASSUME NEW c \in calls, Todo!ClearEnds(c) PROVE TodoInv'
      <3>1. CASE c.op = "clear" /\ Todo!ThenLoad(c) /\ UNCHANGED back BY <2>1, <3>1, TodoAnswers
      <3>2. CASE c.op = "clear" /\ Todo!Answered(c) /\ ui' = [ui EXCEPT !.hasty = TRUE] /\ UNCHANGED back
        <4>1. /\ calls' = calls \ {c} /\ DOMAIN ui' = DOMAIN ui /\ ui'.items = ui.items
              /\ ui'.made = ui.made /\ ui'.hasty = TRUE
          BY <1>0, <3>2 DEF Todo!Answered
        <4> QED BY <3>2, <4>1, TodoFails
      <3> QED BY <2>8, <3>1, <3>2 DEF Todo!ClearEnds
    <2>9. ASSUME NEW c \in calls,
                 Todo!AnswerAdd(c) \/ Todo!AnswerToggle(c) \/ Todo!AnswerEdit(c) \/ Todo!AnswerDelete(c)
          PROVE  TodoInv'
      BY <2>1, <2>9, TodoAnswers
    <2>10. ASSUME NEW c \in calls, Todo!GoReads(c) PROVE TodoInv' BY <2>1, <2>10, TodoReads
    <2>11. ASSUME NEW c \in calls, Todo!AnswerLoad(c) PROVE TodoInv' BY <2>1, <2>11, TodoListed
    <2>12. ASSUME NEW c \in calls, NEW r \in c.todo, Todo!ClearOne(c, r) PROVE TodoInv'
      BY <2>1, <2>12, TodoClears
    <2>13. ASSUME NEW id \in (1 .. Bound), Todo!HandleAdd(id) PROVE TodoInv'
      BY <2>1, <2>13, TodoClicks
    <2>14. ASSUME NEW r \in Todo!Shown, Todo!HandleToggle(r) \/ Todo!HandleDelete(r) PROVE TodoInv'
      BY <2>1, <2>14, TodoClicks
    <2>15. CASE Todo!HandleClearCompleted BY <2>1, <2>15, TodoClicks
    <2>16. ASSUME NEW leave \in BOOLEAN, Todo!HandleSaveEdit(leave) PROVE TodoInv'
      BY <2>1, <2>16, TodoClicks
    <2>17. Todo!Calendar \/ Todo!Bar \/ Todo!List =>
             \/ \E d : Todo!SelectDay(d)
             \/ \E f : Todo!SetFilter(f)
             \/ \E id \in (1 .. Bound) : Todo!HandleAdd(id)
             \/ \E r \in Todo!Shown : Todo!HandleToggle(r) \/ Todo!HandleStartEdit(r) \/ Todo!HandleDelete(r)
             \/ \E t : Todo!TypeEdit(t)
             \/ \E leave \in BOOLEAN : Todo!HandleSaveEdit(leave)
             \/ Todo!CancelEdit \/ Todo!HandleClearCompleted
      BY DEF Todo!Calendar, Todo!Bar, Todo!List
    <2> QED
      BY <1>2, <2>2, <2>3, <2>4, <2>5, <2>6, <2>7, <2>8, <2>9, <2>10, <2>11, <2>12, <2>13,
         <2>14,
         <2>15, <2>16, <2>17 DEF Todo!Next
  <1> QED BY <1>1, <1>2

\* What the invariant says of the page.
LEMMA TodoSays == TodoInv => Todo!TypeOK /\ Todo!ShownBelongs /\ Todo!UntouchedKept
  <1> SUFFICES ASSUME TodoInv PROVE Todo!TypeOK /\ Todo!ShownBelongs /\ Todo!UntouchedKept OBVIOUS
  <1>1. Todo!TypeOK BY DEF TodoInv, TodoFields, TodoTable, TodoRow, Todo!TypeOK
  <1>2. Todo!ShownBelongs BY DEF TodoInv, TodoClean, TodoSeen, Todo!ShownBelongs
  <1>3. Todo!UntouchedKept BY DEF TodoInv, TodoClean, Todo!UntouchedKept
  <1> QED BY <1>1, <1>2, <1>3

-----------------------------------------------------------------------------
\* ChatStreams.tla
\* The constants of the page.
LEMMA ChatConstants == Nothing \notin Things /\ Bound \in Nat \ {0}
  BY PagesAssumption

\* A set of the page has the size it has everywhere.
LEMMA ChatSize == \A S : Chat!Cardinality(S) = Cardinality(S)
  BY DEF Chat!Cardinality, Cardinality

\* The calls of the page carry what they were made with.
LEMMA ChatCalls ==
  \A op, conv : /\ DOMAIN Chat!Call(op, conv) = {"op", "conv", "nth", "here"}
                /\ Chat!Call(op, conv).op = op /\ Chat!Call(op, conv).conv = conv
                /\ Chat!Call(op, conv).nth = 0 /\ Chat!Call(op, conv).here
  BY DEF Chat!Call

\* The questions under way are those of their calls, streams and events.
LEMMA ChatUnderWay == \A n : n \in Chat!UnderWay <=> \E q \in ChatAll : q.nth = n
  BY DEF Chat!UnderWay, ChatAll, ChatSends, Chat!CallsOf

LEMMA ChatUnderWayNext == \A n : n \in Chat!UnderWay' <=> \E q \in ChatAll' : q.nth = n
  BY DEF Chat!UnderWay, ChatAll, ChatSends, Chat!CallsOf

\* Nothing was asked yet.
THEOREM ChatOwnsInit == Chat!Init => ChatOwns
  <1> SUFFICES ASSUME Chat!Init PROVE ChatOwns OBVIOUS
  <1>1. /\ DOMAIN back = {"convs", "msgs", "streams", "events"}
        /\ back.streams = {} /\ back.events = <<>>
    BY DEF Chat!Init
  <1>2. /\ DOMAIN ui = {"mounted", "convs", "active", "messages", "streaming", "content", "sends",
                        "made", "cleared", "left", "lost", "moved", "hasty", "orphaned"}
        /\ ui.active = Nothing /\ ui.sends = 0 /\ ui.lost = {} /\ ui.mounted
    BY DEF Chat!Init
  <1>3. calls = {Chat!Listing} /\ Chat!Listing.op = "convs" /\ Chat!Listing.conv = Nothing /\ DOMAIN Chat!Listing = {"op", "conv", "nth", "here"}
    BY ChatCalls DEF Chat!Init, Chat!Listing
  <1>4. ChatSends = {} BY <1>3 DEF ChatSends
  <1>5. ChatAll = {} BY <1>1, <1>4 DEF ChatAll
  <1>6. 0 \in 0 .. Bound BY ChatConstants
  <1>7. ChatFields BY <1>1, <1>2, <1>3, <1>6 DEF ChatFields
  <1> QED BY <1>1, <1>2, <1>4, <1>5, <1>7 DEF ChatOwns, ChatEnded, ChatOnePlace, ChatSpinning,
             ChatAway, ChatTold

\* A step that leaves the answer alone leaves what is said of it.
LEMMA ChatUntouchedFits ==
  ASSUME ChatOwns, ChatFields', ChatUntouched, ChatShowing, ChatThere PROVE ChatOwns'
  <1>1. ChatAll' = ChatAll BY DEF ChatUntouched, ChatAll
  <1>2. ChatEnded' /\ ChatOnePlace' BY DEF ChatOwns, ChatUntouched, ChatEnded, ChatOnePlace
  <1>3. ChatSpinning' BY <1>1 DEF ChatOwns, ChatUntouched, ChatSpinning
  <1>4. ChatAway' BY DEF ChatOwns, ChatThere, ChatAway
  <1>5. ChatTold'
    <2>1. CASE ui'.content = {} /\ ui'.moved = Chat!UnderWay
      BY <1>1, <2>1, ChatUnderWay DEF ChatTold
    <2>2. CASE ui'.active = Nothing BY <2>2 DEF ChatTold
    <2>3. CASE ui'.active = ui.active /\ ui'.moved = ui.moved
               /\ (ui'.content = ui.content \/ ui'.content = {})
      BY <1>1, <2>3 DEF ChatOwns, ChatTold
    <2> QED BY <2>1, <2>2, <2>3 DEF ChatShowing
  <1> QED BY <1>2, <1>3, <1>4, <1>5 DEF ChatOwns

\* So does one that takes what is under way a step further.
LEMMA ChatGoesFits ==
  ASSUME ChatOwns, ui' = ui, calls' \subseteq calls,
         \A q \in ChatAll' : \E r \in ChatAll : q.conv = r.conv /\ q.nth = r.nth
  PROVE  ChatSpinning' /\ ChatAway' /\ ChatTold'
  <1>1. ChatSpinning' BY DEF ChatOwns, ChatSpinning
  <1>2. ChatAway' BY DEF ChatOwns, ChatAway
  <1>3. ChatTold' BY DEF ChatOwns, ChatTold
  <1> QED BY <1>1, <1>2, <1>3

\* The page is there, whoever clicks on it or is answered on it.
LEMMA ChatIsThere ==
  ASSUME ChatOwns PROVE
    /\ \A conv : conv \in ui.convs => ui.mounted
    /\ ui.active # Nothing => ui.mounted
    /\ \A c \in calls : c.op \in {"convs", "messages", "listing"} => ui.mounted
    /\ \A c \in calls : c.op \in {"create", "delete"} /\ c.here => ui.mounted
  BY DEF ChatOwns, ChatAway

\* The steps of the page that ask for something other than an answer.
LEMMA ChatClicks ==
  ASSUME ChatOwns, NEW conv \in Things,
         \/ Chat!HandleSelectConv(conv) \/ Chat!HandleNewConv(conv) \/ Chat!HandleDeleteConv(conv)
         \/ Chat!HandleRename(conv) \/ Chat!HandleSaveSystemPrompt \/ Chat!ClearShown
  PROVE  ChatOwns'
  <1>0. ChatFields BY DEF ChatOwns
  <1>1. CASE Chat!HandleSelectConv(conv)
    <2>1. ChatFields' BY <1>0, <1>1 DEF Chat!HandleSelectConv, Chat!Ask, Chat!Loading,
                         Chat!Call, ChatFields
    <2>2. ui.mounted BY <1>1, ChatIsThere DEF Chat!HandleSelectConv
    <2>3. ChatUntouched
      BY <1>0, <1>1 DEF Chat!HandleSelectConv, Chat!Ask, Chat!Loading, Chat!Call, ChatFields,
         ChatUntouched, ChatSends
    <2>4. ChatShowing /\ ui'.mounted BY <1>0, <1>1, <2>2 DEF Chat!HandleSelectConv, ChatFields,
                                        ChatShowing
    <2> QED BY <2>1, <2>3, <2>4, ChatUntouchedFits DEF ChatThere
  <1>2. CASE Chat!HandleNewConv(conv)
    <2>1. ChatFields' BY <1>0, <1>2 DEF Chat!HandleNewConv, Chat!Ask, Chat!Call, ChatFields
    <2>3. ChatUntouched
      BY <1>0, <1>2 DEF Chat!HandleNewConv, Chat!Ask, Chat!Call, ChatFields, ChatUntouched,
         ChatSends
    <2>4. ChatShowing /\ ui'.mounted BY <1>0, <1>2 DEF Chat!HandleNewConv, ChatFields,
                                        ChatShowing
    <2> QED BY <2>1, <2>3, <2>4, ChatUntouchedFits DEF ChatThere
  <1>3. CASE Chat!HandleDeleteConv(conv)
    <2>1. ChatFields' BY <1>0, <1>3 DEF Chat!HandleDeleteConv, Chat!Ask, Chat!Call, ChatFields
    <2>2. ui.mounted BY <1>3, ChatIsThere DEF Chat!HandleDeleteConv
    <2>3. ChatUntouched
      BY Zenon, <1>0, <1>3 DEF Chat!HandleDeleteConv, Chat!Ask, Chat!Call, ChatFields, ChatUntouched,
         ChatSends
    <2>4. ChatShowing /\ ui'.mounted BY <1>0, <1>3, <2>2 DEF Chat!HandleDeleteConv, ChatFields,
                                        ChatShowing
    <2> QED BY <2>1, <2>3, <2>4, ChatUntouchedFits DEF ChatThere
  <1>4. CASE Chat!HandleRename(conv) \/ Chat!HandleSaveSystemPrompt
    <2>1. calls' = calls \cup {Chat!Listing} /\ ui' = ui /\ back' = back /\ ui.mounted
      BY <1>4, ChatIsThere DEF Chat!HandleRename, Chat!HandleSaveSystemPrompt, Chat!Ask
    <2>2. ChatFields' BY <1>0, <2>1 DEF Chat!Listing, Chat!Call, ChatFields
    <2>3. ChatUntouched BY <2>1 DEF Chat!Listing, Chat!Call, ChatUntouched, ChatSends
    <2> QED BY <2>1, <2>2, <2>3, ChatUntouchedFits DEF ChatShowing, ChatThere
  <1>5. CASE Chat!ClearShown
    <2>1. ChatFields' BY <1>0, <1>5 DEF Chat!ClearShown, ChatFields
    <2>2. ui.mounted BY <1>5, ChatIsThere DEF Chat!ClearShown
    <2>3. ChatUntouched BY <1>0, <1>5 DEF Chat!ClearShown, ChatFields, ChatUntouched, ChatSends
    <2>4. ChatShowing /\ ui'.mounted BY <1>0, <1>5, <2>2 DEF Chat!ClearShown, ChatFields,
                                        ChatShowing
    <2> QED BY <2>1, <2>3, <2>4, ChatUntouchedFits DEF ChatThere
  <1> QED BY <1>1, <1>2, <1>3, <1>4, <1>5

\* The answers to them.
LEMMA ChatAnswers ==
  ASSUME ChatOwns, NEW c \in calls,
         \/ Chat!AnswerListing(c) \/ Chat!AnswerMessages(c) \/ Chat!AnswerCreate(c) \/ Chat!ShowNew(c) \/ Chat!AnswerDelete(c)
  PROVE  ChatOwns'
  <1>0. ChatFields BY DEF ChatOwns
  <1>1. CASE Chat!AnswerListing(c)
    <2>1. ChatFields' BY <1>0, <1>1 DEF Chat!AnswerListing, Chat!Answered, ChatFields
    <2>2. ui.mounted BY <1>1, ChatIsThere DEF Chat!AnswerListing
    <2>3. ChatUntouched BY <1>0, <1>1 DEF Chat!AnswerListing, Chat!Answered, ChatFields,
                           ChatUntouched, ChatSends
    <2>4. ChatShowing /\ ui'.mounted BY <1>0, <1>1, <2>2 DEF Chat!AnswerListing, ChatFields,
                                        ChatShowing
    <2> QED BY <2>1, <2>3, <2>4, ChatUntouchedFits DEF ChatThere
  <1>2. CASE Chat!AnswerMessages(c)
    <2>1. ChatFields' BY Zenon, <1>0, <1>2 DEF Chat!AnswerMessages, Chat!Answered, ChatFields
    <2>2. ui.mounted BY <1>2, ChatIsThere DEF Chat!AnswerMessages
    <2>3. ChatUntouched BY Zenon, <1>0, <1>2 DEF Chat!AnswerMessages, Chat!Answered, ChatFields,
                           ChatUntouched, ChatSends
    <2>4. ChatShowing /\ ui'.mounted BY Zenon, <1>0, <1>2, <2>2 DEF Chat!AnswerMessages, ChatFields,
                                        ChatShowing
    <2> QED BY <2>1, <2>3, <2>4, ChatUntouchedFits DEF ChatThere
  <1>3. CASE Chat!ShowNew(c)
    <2>1. ChatFields' BY <1>0, <1>3 DEF Chat!ShowNew, Chat!Answered, ChatFields
    <2>2. ui.mounted BY <1>3, ChatIsThere DEF Chat!ShowNew
    <2>3. ChatUntouched BY <1>0, <1>3 DEF Chat!ShowNew, Chat!Answered, ChatFields,
                           ChatUntouched, ChatSends
    <2>4. ChatShowing /\ ui'.mounted BY <1>0, <1>3, <2>2 DEF Chat!ShowNew, ChatFields,
                                        ChatShowing
    <2> QED BY <2>1, <2>3, <2>4, ChatUntouchedFits DEF ChatThere
  <1>4. CASE Chat!AnswerCreate(c)
    <2>1. /\ c.op = "create" /\ ui' = ui
          /\ \/ calls' = calls \ {c}
             \/ c.here /\ calls' = (calls \ {c}) \cup {Chat!Call("listing", c.conv)}
          /\ back' = back \/ back' = [back EXCEPT !.convs = @ \cup {c.conv}]
      BY <1>4 DEF Chat!AnswerCreate, Chat!Answered, Chat!Continue
    <2>2. back'.streams = back.streams /\ back'.events = back.events /\ DOMAIN back' = DOMAIN back
      BY <1>0, <2>1 DEF ChatFields
    <2>3. ChatFields' BY <1>0, <2>1, <2>2, ChatCalls DEF ChatFields
    <2>4. ChatUntouched BY <2>1, <2>2, ChatCalls DEF ChatUntouched, ChatSends
    <2>5. ChatThere BY <2>1, ChatIsThere DEF ChatThere
    <2> QED BY <2>1, <2>3, <2>4, <2>5, ChatUntouchedFits DEF ChatShowing
  <1>5. CASE Chat!AnswerDelete(c)
    <2>1. /\ c.op = "delete"
          /\ \/ calls' = calls \ {c}
             \/ c.here /\ calls' = (calls \ {c}) \cup {Chat!Listing}
          /\ \/ ui' = ui
             \/ c.here /\ ui' = [ui EXCEPT !.active = Nothing, !.messages = {}]
          /\ \/ back' = back
             \/ back' = [back EXCEPT !.convs = @ \ {c.conv}, !.msgs = {m \in @ : m.conv # c.conv}]
      BY <1>5 DEF Chat!AnswerDelete, Chat!Answered, Chat!Continue
    <2>2. back'.streams = back.streams /\ back'.events = back.events /\ DOMAIN back' = DOMAIN back
      BY Zenon, <1>0, <2>1 DEF ChatFields
    <2>3. /\ DOMAIN ui' = DOMAIN ui /\ ui'.streaming = ui.streaming /\ ui'.left = ui.left
          /\ ui'.lost = ui.lost /\ ui'.mounted = ui.mounted /\ ui'.sends = ui.sends
          /\ ui'.content = ui.content /\ ui'.moved = ui.moved
          /\ ui'.active = ui.active \/ ui'.active = Nothing
      BY Zenon, <1>0, <2>1 DEF ChatFields
    <2>4. Chat!Listing.op = "convs" /\ Chat!Listing.conv = Nothing /\ DOMAIN Chat!Listing = {"op", "conv", "nth", "here"}
      BY ChatCalls DEF Chat!Listing
    <2>5. ChatFields' BY <1>0, <2>1, <2>2, <2>3, <2>4 DEF ChatFields
    <2>6. ChatUntouched BY <2>1, <2>2, <2>3, <2>4 DEF ChatUntouched, ChatSends
    <2>7. ChatThere BY <2>1, <2>3, ChatIsThere DEF ChatThere
    <2> QED BY <2>3, <2>5, <2>6, <2>7, ChatUntouchedFits DEF ChatShowing
  <1> QED BY <1>1, <1>2, <1>3, <1>4, <1>5

\* The page is left and entered again.
LEMMA ChatLeaves == ASSUME ChatOwns, Chat!Leave PROVE ChatOwns'
  <1>0. ChatFields BY DEF ChatOwns
  <1>1. /\ back' = back
        /\ calls' = Chat!CallsOf({"send"}) \cup {[c EXCEPT !.here = FALSE] : c \in Chat!CallsOf({"create", "delete"})}
        /\ ~ui'.mounted /\ ui'.convs = {} /\ ui'.active = Nothing /\ ~ui'.streaming /\ ui'.left
        /\ ui'.lost = Chat!UnderWay /\ DOMAIN ui' = DOMAIN ui /\ ui'.sends = ui.sends
    BY Zenon, <1>0 DEF Chat!Leave, ChatFields
  <1>2. \A c \in calls' : \/ c.op = "send" /\ c \in calls
                          \/ /\ c.op \in {"create", "delete"} /\ ~c.here
                             /\ DOMAIN c = {"op", "conv", "nth", "here"}
                             /\ c.conv \in Things \cup {Nothing}
    BY <1>0, <1>1 DEF Chat!CallsOf, ChatFields
  <1>3. ChatSends \subseteq calls' BY <1>1 DEF ChatSends, Chat!CallsOf
  <1>4. ChatSends' = ChatSends BY <1>2, <1>3 DEF ChatSends
  <1>5. ChatAll' = ChatAll BY <1>1, <1>4 DEF ChatAll
  <1>6. ChatFields' BY <1>0, <1>1, <1>2 DEF ChatFields
  <1>7. ChatEnded' /\ ChatOnePlace' BY <1>1 DEF ChatOwns, ChatEnded, ChatOnePlace
  <1>8. ChatSpinning' BY <1>1, <1>5, ChatUnderWay DEF ChatSpinning
  <1>9. ChatAway' BY <1>1, <1>2 DEF ChatAway
  <1>10. ChatTold' BY <1>1 DEF ChatTold
  <1> QED BY <1>6, <1>7, <1>8, <1>9, <1>10 DEF ChatOwns

LEMMA ChatEnters == ASSUME ChatOwns, Chat!Enter PROVE ChatOwns'
  <1>0. ChatFields BY DEF ChatOwns
  <1>1. ChatFields' BY <1>0 DEF Chat!Enter, Chat!Listing, Chat!Call, ChatFields
  <1>2. ChatUntouched BY <1>0 DEF Chat!Enter, Chat!Listing, Chat!Call, ChatFields,
                         ChatUntouched, ChatSends
  <1>3. ChatShowing /\ ui'.mounted BY <1>0 DEF Chat!Enter, ChatFields, ChatShowing
  <1> QED BY <1>1, <1>2, <1>3, ChatUntouchedFits DEF ChatThere

\* A question is asked: whatever is still under way has lost its spinner.
LEMMA ChatSpins == ASSUME ChatOwns, Chat!HandleSend PROVE ChatOwns'
  <1> DEFINE c == [Chat!Call("send", ui.active) EXCEPT !.nth = ui.sends + 1]
  <1>0. ChatFields BY DEF ChatOwns
  <1>1. ui.active # Nothing /\ ~ui.streaming /\ ui.sends < Bound
    BY DEF Chat!HandleSend, Chat!More
  <1>2. ui.mounted /\ ui.active \in Things BY <1>0, <1>1, ChatIsThere DEF ChatFields
  <1>3. c.op = "send" /\ c.conv = ui.active /\ c.nth = ui.sends + 1
        /\ DOMAIN c = {"op", "conv", "nth", "here"}
    BY DEF Chat!Call
  <1>4. calls' = calls \cup {c} /\ back' = back BY DEF Chat!HandleSend, Chat!Ask
  <1>5. /\ DOMAIN ui' = DOMAIN ui /\ ui'.streaming /\ ui'.active = ui.active /\ ui'.content = {}
        /\ ui'.sends = ui.sends + 1 /\ ui'.mounted = ui.mounted /\ ui'.left = ui.left
        /\ ui'.lost = ui.lost /\ ui'.moved = ui.moved
    BY <1>0 DEF Chat!HandleSend, ChatFields
  <1> HIDE DEF c
  <1>6. ui'.sends \in 0 .. Bound /\ c.nth \in 1 .. Bound
    BY <1>0, <1>1, <1>3, <1>5, ChatConstants DEF ChatFields
  <1>7. ChatFields' BY <1>0, <1>2, <1>3, <1>4, <1>5, <1>6 DEF ChatFields
  <1>8. ChatSends' = ChatSends \cup {c} BY <1>3, <1>4 DEF ChatSends
  <1>9. ChatAll' = ChatAll \cup {c} BY <1>4, <1>8 DEF ChatAll
  <1>10. ~ui.left => ChatAll = {} BY <1>1 DEF ChatOwns, ChatSpinning
  <1>11. ~ui.left => ChatSends = {} /\ back.streams = {} /\ back.events = <<>>
    BY <1>0, <1>10 DEF ChatAll, ChatFields
  <1>12. ChatEnded' BY <1>4 DEF ChatOwns, ChatEnded
  <1>13. ChatOnePlace' BY <1>4, <1>5, <1>8, <1>11 DEF ChatOnePlace
  <1>14. ChatSpinning' BY <1>5 DEF ChatOwns, ChatSpinning
  <1>15. ChatAway' BY <1>2, <1>5 DEF ChatAway
  <1>16. ChatTold' BY <1>3, <1>5, <1>9 DEF ChatOwns, ChatTold
  <1> QED BY <1>7, <1>12, <1>13, <1>14, <1>15, <1>16 DEF ChatOwns

\* Its stream begins, and the others are told to end.
LEMMA ChatBegins == ASSUME ChatOwns, NEW c \in calls, Chat!SendMessage(c) PROVE ChatOwns'
  <1> DEFINE new == [conv |-> c.conv, nth |-> c.nth, said |-> FALSE, on |-> TRUE]
             off(s) == [s EXCEPT !.on = FALSE]
  <1>0. ChatFields BY DEF ChatOwns
  <1>1. c.op = "send" /\ calls' = calls \ {c} /\ ui' = ui BY DEF Chat!SendMessage, Chat!Answered
  <1>2. /\ back'.streams = {off(s) : s \in back.streams} \cup {new}
        /\ back'.events = back.events /\ DOMAIN back' = DOMAIN back
    BY <1>0 DEF Chat!SendMessage, ChatFields
  <1>3. /\ \A s \in back.streams : /\ off(s).conv = s.conv /\ off(s).nth = s.nth /\ ~off(s).on
                                   /\ DOMAIN off(s) = DOMAIN s
        /\ new.conv = c.conv /\ new.nth = c.nth /\ DOMAIN new = {"conv", "nth", "said", "on"}
    BY <1>0 DEF ChatFields
  <1> HIDE DEF new, off
  <1>4. c \in ChatSends BY <1>1 DEF ChatSends
  <1>5. ChatSends' = ChatSends \ {c} BY <1>1 DEF ChatSends
  <1>6. ~ui.left => /\ back.streams = {} /\ back.events = <<>> /\ ChatSends' = {}
    BY <1>4, <1>5 DEF ChatOwns, ChatOnePlace
  <1>7. ChatFields' BY <1>0, <1>1, <1>2, <1>3 DEF ChatFields
  <1>8. ChatEnded' BY <1>2, <1>3 DEF ChatEnded
  <1>9. ChatOnePlace'
    <2> SUFFICES ASSUME ~ui'.left PROVE ChatOnePlace' BY DEF ChatOnePlace
    <2>1. back'.streams = {new} /\ back'.events = <<>> /\ ChatSends' = {} BY <1>1, <1>2, <1>6
    <2> QED BY <2>1 DEF ChatOnePlace
  <1>10. \A q \in ChatAll' : \E r \in ChatAll : q.conv = r.conv /\ q.nth = r.nth
    <2> SUFFICES ASSUME NEW q \in ChatAll' PROVE \E r \in ChatAll : q.conv = r.conv /\ q.nth = r.nth
      OBVIOUS
    <2>1. CASE q \in ChatSends' \/ \E i \in DOMAIN back.events : q = back.events[i]
      BY <1>5, <2>1 DEF ChatAll
    <2>2. CASE q = new BY <1>3, <1>4, <2>2 DEF ChatAll
    <2>3. CASE \E s \in back.streams : q = off(s) BY <1>3, <2>3 DEF ChatAll
    <2> QED BY <1>2, <2>1, <2>2, <2>3 DEF ChatAll
  <1> QED BY <1>1, <1>7, <1>8, <1>9, <1>10, ChatGoesFits DEF ChatOwns

\* The streams are told to end.
LEMMA ChatStops == ASSUME ChatOwns, Chat!HandleStop PROVE ChatOwns'
  <1> DEFINE off(s) == [s EXCEPT !.on = FALSE]
  <1>0. ChatFields BY DEF ChatOwns
  <1>1. /\ back'.streams = {off(s) : s \in back.streams}
        /\ back'.events = back.events /\ DOMAIN back' = DOMAIN back
        /\ ui' = ui /\ calls' = calls
    BY <1>0 DEF Chat!HandleStop, ChatFields
  <1>2. \A s \in back.streams : /\ off(s).conv = s.conv /\ off(s).nth = s.nth /\ ~off(s).on
                                /\ DOMAIN off(s) = DOMAIN s
    BY <1>0 DEF ChatFields
  <1> HIDE DEF off
  <1>3. ChatFields' BY <1>0, <1>1, <1>2 DEF ChatFields
  <1>4. (back'.streams = {}) <=> (back.streams = {}) BY <1>1
  <1>5. ChatEnded' BY <1>1, <1>2, <1>4 DEF ChatOwns, ChatEnded
  <1>6. ChatOnePlace' BY <1>1, <1>4 DEF ChatOwns, ChatOnePlace, ChatSends
  <1>7. \A q \in ChatAll' : \E r \in ChatAll : q.conv = r.conv /\ q.nth = r.nth
    <2> SUFFICES ASSUME NEW q \in ChatAll' PROVE \E r \in ChatAll : q.conv = r.conv /\ q.nth = r.nth
      OBVIOUS
    <2>1. CASE q \in ChatSends' \/ \E i \in DOMAIN back.events : q = back.events[i]
      BY <1>1, <2>1 DEF ChatAll, ChatSends
    <2>2. CASE \E s \in back.streams : q = off(s) BY <1>2, <2>2 DEF ChatAll
    <2> QED BY <1>1, <2>1, <2>2 DEF ChatAll
  <1> QED BY <1>1, <1>3, <1>5, <1>6, <1>7, ChatGoesFits DEF ChatOwns

\* A stream sends an event of its own, its last or not.
LEMMA ChatEmits ==
  ASSUME ChatOwns, NEW s \in back.streams, NEW e, NEW done \in BOOLEAN,
         e = [conv |-> s.conv, nth |-> s.nth, done |-> done],
         back'.events = Append(back.events, e)
  PROVE  /\ e.conv = s.conv /\ e.nth = s.nth /\ e.done = done
         /\ back'.events \in Seq([conv : Things, nth : 1 .. Bound, done : BOOLEAN])
         /\ Len(back'.events) = Len(back.events) + 1 /\ back'.events[Len(back'.events)] = e
         /\ Len(back.events) \in Nat
         /\ \A i \in 1 .. Len(back.events) : back'.events[i] = back.events[i]
         /\ \A i \in DOMAIN back'.events :
               \/ back'.events[i] = e
               \/ i \in DOMAIN back.events /\ back'.events[i] = back.events[i]
  <1>0. ChatFields BY DEF ChatOwns
  <1>1. e.conv = s.conv /\ e.nth = s.nth /\ e.done = done OBVIOUS
  <1>2. e \in [conv : Things, nth : 1 .. Bound, done : BOOLEAN] BY <1>0 DEF ChatFields
  <1>3. /\ back.events \in Seq([conv : Things, nth : 1 .. Bound, done : BOOLEAN])
    BY <1>0 DEF ChatFields
  <1>4. /\ back'.events \in Seq([conv : Things, nth : 1 .. Bound, done : BOOLEAN])
        /\ Len(back'.events) = Len(back.events) + 1 /\ back'.events[Len(back.events) + 1] = e
        /\ Len(back.events) \in Nat
        /\ \A i \in 1 .. Len(back.events) : back'.events[i] = back.events[i]
    BY <1>2, <1>3
  <1>5. DOMAIN back'.events = 1 .. Len(back'.events) /\ DOMAIN back.events = 1 .. Len(back.events)
    BY <1>3, <1>4
  <1> QED BY <1>1, <1>4, <1>5

LEMMA ChatTells == ASSUME ChatOwns, NEW s \in back.streams, Chat!StreamToken(s) PROVE ChatOwns'
  <1> DEFINE e == [conv |-> s.conv, nth |-> s.nth, done |-> FALSE]
             t == [s EXCEPT !.said = TRUE]
  <1>0. ChatFields BY DEF ChatOwns
  <1>1. /\ back'.streams = (back.streams \ {s}) \cup {t}
        /\ back'.events = Append(back.events, e) /\ DOMAIN back' = DOMAIN back
        /\ ui' = ui /\ calls' = calls /\ s.on
    BY <1>0 DEF Chat!StreamToken, Chat!Emit, ChatFields
  <1>2. t.conv = s.conv /\ t.nth = s.nth /\ t.on = s.on /\ DOMAIN t = DOMAIN s
    BY <1>0 DEF ChatFields
  <1>3. e = [conv |-> s.conv, nth |-> s.nth, done |-> FALSE] OBVIOUS
  <1> HIDE DEF e, t
  <1>4. /\ e.conv = s.conv /\ e.nth = s.nth /\ ~e.done
        /\ back'.events \in Seq([conv : Things, nth : 1 .. Bound, done : BOOLEAN])
        /\ Len(back'.events) = Len(back.events) + 1 /\ back'.events[Len(back'.events)] = e
        /\ Len(back.events) \in Nat
        /\ \A i \in 1 .. Len(back.events) : back'.events[i] = back.events[i]
        /\ \A i \in DOMAIN back'.events :
              \/ back'.events[i] = e
              \/ i \in DOMAIN back.events /\ back'.events[i] = back.events[i]
    BY Zenon, <1>1, <1>3, ChatEmits
  <1>5. ChatFields' BY <1>0, <1>1, <1>2, <1>4 DEF ChatFields
  <1>6. ChatEnded' BY <1>1, <1>2 DEF ChatOwns, ChatEnded
  <1>7. ChatOnePlace'
    <2> SUFFICES ASSUME ~ui'.left PROVE ChatOnePlace' BY DEF ChatOnePlace
    <2>1. back.streams = {s} /\ ChatSends = {} BY <1>1 DEF ChatOwns, ChatOnePlace
    <2>2. back'.streams = {t} /\ ChatSends' = {} BY <1>1, <2>1 DEF ChatSends
    <2>3. \A i \in 1 .. Len(back'.events) : ~back'.events[i].done
      BY <1>1, <1>4 DEF ChatOwns, ChatOnePlace
    <2> QED BY <2>2, <2>3 DEF ChatOnePlace
  <1>8. \A q \in ChatAll' : \E r \in ChatAll : q.conv = r.conv /\ q.nth = r.nth
    <2> SUFFICES ASSUME NEW q \in ChatAll' PROVE \E r \in ChatAll : q.conv = r.conv /\ q.nth = r.nth
      OBVIOUS
    <2>1. s \in ChatAll BY DEF ChatAll
    <2>2. CASE q \in ChatSends' \/ q \in back.streams BY <1>1, <2>2 DEF ChatAll, ChatSends
    <2>3. CASE q = t \/ q = e BY <1>2, <1>4, <2>1, <2>3
    <2>4. CASE \E i \in DOMAIN back.events : q = back.events[i] BY <2>4 DEF ChatAll
    <2> QED BY <1>1, <1>4, <2>2, <2>3, <2>4 DEF ChatAll
  <1> QED BY <1>1, <1>5, <1>6, <1>7, <1>8, ChatGoesFits DEF ChatOwns

LEMMA ChatEnds == ASSUME ChatOwns, NEW s \in back.streams, Chat!StreamEnds(s) PROVE ChatOwns'
  <1> DEFINE e == [conv |-> s.conv, nth |-> s.nth, done |-> TRUE]
  <1>0. ChatFields BY DEF ChatOwns
  <1>1. /\ back'.streams = back.streams \ {s}
        /\ back'.events = Append(back.events, e) /\ DOMAIN back' = DOMAIN back
        /\ ui' = ui /\ calls' = calls
    BY <1>0 DEF Chat!StreamEnds, Chat!Emit, ChatFields
  <1>3. e = [conv |-> s.conv, nth |-> s.nth, done |-> TRUE] OBVIOUS
  <1> HIDE DEF e
  <1>4. /\ e.conv = s.conv /\ e.nth = s.nth /\ e.done
        /\ back'.events \in Seq([conv : Things, nth : 1 .. Bound, done : BOOLEAN])
        /\ Len(back'.events) = Len(back.events) + 1 /\ back'.events[Len(back'.events)] = e
        /\ Len(back.events) \in Nat
        /\ \A i \in 1 .. Len(back.events) : back'.events[i] = back.events[i]
        /\ \A i \in DOMAIN back'.events :
              \/ back'.events[i] = e
              \/ i \in DOMAIN back.events /\ back'.events[i] = back.events[i]
    BY Zenon, <1>1, <1>3, ChatEmits
  <1>5. ChatFields' BY <1>0, <1>1, <1>4 DEF ChatFields
  <1>6. ChatEnded' BY <1>1, <1>4 DEF ChatOwns, ChatEnded
  <1>7. ChatOnePlace'
    <2> SUFFICES ASSUME ~ui'.left PROVE ChatOnePlace' BY DEF ChatOnePlace
    <2>1. back.streams = {s} /\ ChatSends = {} BY <1>1 DEF ChatOwns, ChatOnePlace
    <2>2. back'.streams = {} /\ ChatSends' = {} BY <1>1, <2>1 DEF ChatSends
    <2>3. \A i \in 1 .. Len(back'.events) : back'.events[i].done <=> i = Len(back'.events)
      BY <1>1, <1>4 DEF ChatOwns, ChatOnePlace
    <2> QED BY <2>2, <2>3 DEF ChatOnePlace
  <1>8. \A q \in ChatAll' : \E r \in ChatAll : q.conv = r.conv /\ q.nth = r.nth
    <2> SUFFICES ASSUME NEW q \in ChatAll' PROVE \E r \in ChatAll : q.conv = r.conv /\ q.nth = r.nth
      OBVIOUS
    <2>1. s \in ChatAll BY DEF ChatAll
    <2>2. CASE q \in ChatSends' \/ q \in back.streams BY <1>1, <2>2 DEF ChatAll, ChatSends
    <2>3. CASE q = e BY <1>4, <2>1, <2>3
    <2>4. CASE \E i \in DOMAIN back.events : q = back.events[i] BY <2>4 DEF ChatAll
    <2> QED BY <1>1, <1>4, <2>2, <2>3, <2>4 DEF ChatAll
  <1> QED BY <1>1, <1>5, <1>6, <1>7, <1>8, ChatGoesFits DEF ChatOwns

\* The first event is taken.
LEMMA ChatTakes ==
  ASSUME ChatOwns, back.events # <<>>, back'.events = Tail(back.events),
         back'.streams = back.streams, ChatSends' = ChatSends
  PROVE  /\ back'.events \in Seq([conv : Things, nth : 1 .. Bound, done : BOOLEAN])
         /\ Head(back.events) = back.events[1] /\ Head(back.events) \in ChatAll
         /\ Len(back'.events) = Len(back.events) - 1 /\ Len(back.events) \in Nat \ {0}
         /\ \A i \in 1 .. Len(back'.events) :
               /\ back'.events[i] = back.events[i + 1] /\ i + 1 \in 1 .. Len(back.events)
               /\ i = Len(back'.events) <=> i + 1 = Len(back.events)
         /\ ChatAll' \subseteq ChatAll /\ ChatEnded'
  <1>0. ChatFields BY DEF ChatOwns
  <1>1. back.events \in Seq([conv : Things, nth : 1 .. Bound, done : BOOLEAN])
    BY <1>0 DEF ChatFields
  <1>2. /\ back'.events \in Seq([conv : Things, nth : 1 .. Bound, done : BOOLEAN])
        /\ Head(back.events) = back.events[1] /\ 1 \in DOMAIN back.events
        /\ Len(back'.events) = Len(back.events) - 1 /\ Len(back.events) \in Nat \ {0}
        /\ \A i \in 1 .. Len(back'.events) :
              /\ back'.events[i] = back.events[i + 1] /\ i + 1 \in 1 .. Len(back.events)
              /\ i = Len(back'.events) <=> i + 1 = Len(back.events)
    BY <1>1
  <1>3. DOMAIN back'.events = 1 .. Len(back'.events) /\ DOMAIN back.events = 1 .. Len(back.events)
    BY <1>1, <1>2
  <1>4. Head(back.events) \in ChatAll BY <1>2 DEF ChatAll
  <1>5. ChatAll' \subseteq ChatAll
    <2> SUFFICES ASSUME NEW q \in ChatAll' PROVE q \in ChatAll OBVIOUS
    <2>1. CASE q \in ChatSends \/ q \in back.streams BY <2>1 DEF ChatAll
    <2>2. CASE \E i \in DOMAIN back'.events : q = back'.events[i]
      BY Zenon, <1>2, <1>3, <2>2 DEF ChatAll
    <2> QED BY <2>1, <2>2 DEF ChatAll
  <1>6. ChatEnded'
    <2>1. ASSUME back'.streams = {}, back'.events # <<>> PROVE back'.events[Len(back'.events)].done
      <3>1. Len(back'.events) \in 1 .. Len(back'.events) BY <1>2, <2>1
      <3>2. back'.events[Len(back'.events)] = back.events[Len(back.events)] BY <1>2, <3>1
      <3> QED BY <2>1, <3>2 DEF ChatOwns, ChatEnded
    <2> QED BY <2>1 DEF ChatOwns, ChatEnded
  <1> QED BY Zenon, <1>2, <1>4, <1>5, <1>6

\* Nobody hears it.
LEMMA ChatLoses == ASSUME ChatOwns, Chat!EventLost PROVE ChatOwns'
  <1>0. ChatFields BY DEF ChatOwns
  <1>1. /\ back.events # <<>> /\ back'.events = Tail(back.events) /\ back'.streams = back.streams
        /\ DOMAIN back' = DOMAIN back /\ calls' = calls /\ ~ui.mounted
        /\ DOMAIN ui' = DOMAIN ui /\ ui'.active = ui.active /\ ui'.sends = ui.sends
        /\ ui'.left = ui.left /\ ui'.mounted = ui.mounted /\ ui'.convs = ui.convs
        /\ ui'.lost = Chat!UnderWay'
    BY <1>0 DEF Chat!EventLost, ChatFields
  <1>2. ui.left /\ ui.active = Nothing BY <1>1 DEF ChatOwns, ChatAway
  <1>3. ChatSends' = ChatSends BY <1>1 DEF ChatSends
  <1>4. back'.events \in Seq([conv : Things, nth : 1 .. Bound, done : BOOLEAN]) /\ ChatEnded'
    BY <1>1, <1>3, ChatTakes
  <1>5. ChatFields' BY <1>0, <1>1, <1>4 DEF ChatFields
  <1>6. ChatOnePlace' BY <1>1, <1>2 DEF ChatOnePlace
  <1>7. ChatSpinning' BY <1>1, <1>2, ChatUnderWayNext DEF ChatSpinning
  <1>8. ChatAway' BY <1>1 DEF ChatOwns, ChatAway
  <1>9. ChatTold' BY <1>1, <1>2 DEF ChatTold
  <1> QED BY <1>4, <1>5, <1>6, <1>7, <1>8, <1>9 DEF ChatOwns

\* The page does: a token is shown, the end of a stream takes the spinner.
LEMMA ChatListens == ASSUME ChatOwns, Chat!HandleChunk PROVE ChatOwns'
  <1> DEFINE e == Head(back.events)
  <1>0. ChatFields BY DEF ChatOwns
  <1>1. /\ back.events # <<>> /\ back'.events = Tail(back.events) /\ back'.streams = back.streams
        /\ DOMAIN back' = DOMAIN back /\ ui.mounted
    BY <1>0 DEF Chat!HandleChunk, ChatFields
  <1>2. /\ calls \subseteq calls'
        /\ \A c \in calls' \ calls : c \in {Chat!Listing, Chat!Loading(ui.active)}
    BY DEF Chat!HandleChunk
  <1>3. \A c \in {Chat!Listing, Chat!Loading(ui.active)} :
           c.op # "send" /\ DOMAIN c = {"op", "conv", "nth", "here"} /\ c.conv \in Things \cup {Nothing}
    BY <1>0, ChatCalls DEF Chat!Listing, Chat!Loading, ChatFields
  <1>4. ChatSends' = ChatSends BY <1>2, <1>3 DEF ChatSends
  <1>5. /\ back'.events \in Seq([conv : Things, nth : 1 .. Bound, done : BOOLEAN])
        /\ e = back.events[1] /\ e \in ChatAll
        /\ Len(back'.events) = Len(back.events) - 1 /\ Len(back.events) \in Nat \ {0}
        /\ \A i \in 1 .. Len(back'.events) :
              /\ back'.events[i] = back.events[i + 1] /\ i + 1 \in 1 .. Len(back.events)
              /\ i = Len(back'.events) <=> i + 1 = Len(back.events)
        /\ ChatAll' \subseteq ChatAll /\ ChatEnded'
    BY <1>1, <1>4, ChatTakes
  <1>6. /\ DOMAIN ui' = DOMAIN ui /\ ui'.active = ui.active /\ ui'.sends = ui.sends
        /\ ui'.left = ui.left /\ ui'.mounted = ui.mounted
        /\ \/ /\ e.done /\ ui'.content = {} /\ ui'.lost = Chat!UnderWay' /\ ui'.moved = ui.moved \cap Chat!UnderWay'
           \/ /\ ~e.done /\ ui'.content = ui.content \cup {[conv |-> e.conv, nth |-> e.nth]}
              /\ ui'.streaming = ui.streaming /\ ui'.lost = ui.lost /\ ui'.moved = ui.moved
    <2>1. CASE e.done BY Zenon, <1>0, <2>1 DEF Chat!HandleChunk, ChatFields
    <2>2. CASE ~e.done BY Zenon, <1>0, <2>2 DEF Chat!HandleChunk, ChatFields
    <2> QED BY <2>1, <2>2
  <1> HIDE DEF e
  <1>7. ChatFields' BY <1>0, <1>1, <1>2, <1>3, <1>5, <1>6 DEF ChatFields
  <1>8. ChatOnePlace'
    <2> SUFFICES ASSUME ~ui'.left PROVE ChatOnePlace' BY DEF ChatOnePlace
    <2>1. ChatSends = {} BY <1>1, <1>6 DEF ChatOwns, ChatOnePlace
    <2>2. ASSUME back.streams # {}, NEW i \in 1 .. Len(back'.events) PROVE ~back'.events[i].done
      BY Zenon, <1>5, <1>6, <2>2 DEF ChatOwns, ChatOnePlace
    <2>3. ASSUME back.streams = {}, NEW i \in 1 .. Len(back'.events)
          PROVE  back'.events[i].done <=> i = Len(back'.events)
      BY Zenon, <1>5, <1>6, <2>3 DEF ChatOwns, ChatOnePlace
    <2> QED BY <1>1, <1>4, <1>6, <2>1, <2>2, <2>3 DEF ChatOwns, ChatOnePlace
  <1>9. ChatSpinning'
    <2>1. CASE ~e.done BY <1>5, <1>6, <2>1 DEF ChatOwns, ChatSpinning
    <2>2. CASE e.done
      <3>1. ASSUME ~ui.left PROVE ChatAll' = {}
        <4>1. 1 \in 1 .. Len(back.events) /\ back.events[1].done BY <1>5, <2>2
        <4>2. back.streams = {} /\ ChatSends = {}
          BY <1>1, <3>1, <4>1 DEF ChatOwns, ChatOnePlace
        <4>3. Len(back.events) = 1 BY Zenon, <3>1, <4>1, <4>2 DEF ChatOwns, ChatOnePlace
        <4>4. Len(back'.events) = 0 BY <1>5, <4>3
        <4>5. DOMAIN back'.events = {} BY <1>5, <4>4
        <4> QED BY <1>1, <1>4, <4>2, <4>5 DEF ChatAll
      <3> QED BY <1>6, <2>2, <3>1, ChatUnderWayNext DEF ChatSpinning
    <2> QED BY <2>1, <2>2
  <1>10. ChatAway' BY <1>1, <1>6 DEF ChatAway
  <1>11. ChatTold'
    <2> SUFFICES ASSUME ui'.active # Nothing, NEW q \in ui'.content \cup ChatAll'
                 PROVE  q.conv = ui'.active \/ q.nth \in ui'.moved
      BY DEF ChatTold
    <2>1. \A r \in ui.content \cup ChatAll : r.conv = ui.active \/ r.nth \in ui.moved
      BY <1>6 DEF ChatOwns, ChatTold
    <2>2. CASE ~e.done
      <3>1. CASE q \in ui.content \cup ChatAll BY <1>6, <2>1, <2>2, <3>1
      <3>2. CASE q = [conv |-> e.conv, nth |-> e.nth] BY Zenon, <1>5, <1>6, <2>1, <2>2, <3>2
      <3> QED BY <1>5, <1>6, <2>2, <3>1, <3>2
    <2>3. CASE e.done
      <3>1. q \in ChatAll' /\ q \in ChatAll BY <1>5, <1>6, <2>3
      <3>2. q.nth \in Chat!UnderWay' BY <3>1, ChatUnderWayNext
      <3> QED BY <1>6, <2>1, <2>3, <3>1, <3>2
    <2> QED BY <2>2, <2>3
  <1> QED BY <1>5, <1>7, <1>8, <1>9, <1>10, <1>11 DEF ChatOwns

\* No step of the page, of Go or of a stream leaves the invariant.
THEOREM ChatOwnsNext == ChatOwns /\ [Chat!Next]_Chat!vars => ChatOwns'
  <1> SUFFICES ASSUME ChatOwns, [Chat!Next]_Chat!vars PROVE ChatOwns' OBVIOUS
  <1>1. ASSUME NEW conv \in Things,
               \/ Chat!HandleSelectConv(conv) \/ Chat!HandleNewConv(conv) \/ Chat!HandleDeleteConv(conv)
               \/ Chat!HandleRename(conv)
        PROVE  ChatOwns'
    BY <1>1, ChatClicks
  <1>2. CASE Chat!HandleSaveSystemPrompt \/ Chat!ClearShown
    <2>1. CASE \E conv \in Things : TRUE BY <1>2, <2>1, ChatClicks
    <2>2. ui.active \in Things
      BY <1>2 DEF Chat!HandleSaveSystemPrompt, Chat!ClearShown, ChatOwns, ChatFields
    <2> QED BY <2>1, <2>2
  <1>3. ASSUME NEW c \in calls,
               Chat!AnswerListing(c) \/ Chat!AnswerMessages(c) \/ Chat!AnswerCreate(c) \/ Chat!ShowNew(c) \/ Chat!AnswerDelete(c)
        PROVE  ChatOwns'
    BY <1>3, ChatAnswers
  <1>4. CASE Chat!ActivityBar BY <1>4, ChatLeaves, ChatEnters DEF Chat!ActivityBar
  <1>5. CASE Chat!Input BY <1>5, ChatSpins, ChatStops DEF Chat!Input
  <1>6. ASSUME NEW c \in calls, Chat!SendMessage(c) PROVE ChatOwns' BY <1>6, ChatBegins
  <1>7. ASSUME NEW s \in back.streams, Chat!StreamToken(s) \/ Chat!StreamEnds(s) PROVE ChatOwns'
    BY <1>7, ChatTells, ChatEnds
  <1>8. CASE Chat!HandleChunk BY <1>8, ChatListens
  <1>9. CASE Chat!EventLost BY <1>9, ChatLoses
  <1>10. CASE UNCHANGED Chat!vars
    <2>1. ui' = ui /\ calls' = calls /\ back' = back BY <1>10 DEF Chat!vars
    <2>2. ChatUntouched /\ ChatShowing /\ ChatThere
      BY <2>1 DEF ChatUntouched, ChatShowing, ChatThere, ChatSends
    <2>3. ChatFields' BY <2>1 DEF ChatOwns, ChatFields
    <2> QED BY <2>2, <2>3, ChatUntouchedFits
  <1> QED
    BY <1>1, <1>2, <1>3, <1>4, <1>5, <1>6, <1>7, <1>8, <1>9, <1>10
       DEF Chat!Next, Chat!Answer, Chat!Sidebar, Chat!Header

\* As long as an answer is in the making the page offers to stop it, or it was left, and
\* but one is not told to end.
LEMMA ChatAlone == ChatOwns /\ ~ui.left => Cardinality(back.streams) <= 1
  <1> SUFFICES ASSUME ChatOwns, ~ui.left PROVE Cardinality(back.streams) <= 1 OBVIOUS
  <1>1. CASE back.streams = {}
    BY <1>1, FS_EmptySet
  <1>2. CASE back.streams # {}
    <2>1. PICK s \in back.streams : TRUE BY <1>2
    <2>2. back.streams = {s} BY <2>1 DEF ChatOwns, ChatOnePlace
    <2> QED BY <2>2, FS_Singleton
  <1> QED BY <1>1, <1>2

LEMMA ChatOwnsSays == ChatOwns => Chat!WorkOwned
  <1> SUFFICES ASSUME ChatOwns PROVE Chat!WorkOwned OBVIOUS
  <1>1. ~ui.streaming => Chat!UnderWay \subseteq ui.lost
    BY ChatUnderWay DEF ChatOwns, ChatSpinning
  <1>2. \A s, t \in back.streams : s.on /\ t.on => s = t BY DEF ChatOwns, ChatEnded
  <1>3. ~ui.left => ui.lost = {} BY DEF ChatOwns, ChatSpinning
  <1> QED BY <1>1, <1>2, <1>3, ChatAlone, ChatSize DEF Chat!WorkOwned

\* The page loads its conversations.
LEMMA ChatMoreInit == Chat!Init => ChatMore
  <1> SUFFICES ASSUME Chat!Init PROVE ChatMore OBVIOUS
  <1>1. /\ back.convs \subseteq Things /\ back.msgs = {} /\ back.streams = {} /\ back.events = <<>>
    BY DEF Chat!Init
  <1>2. /\ ui.convs = {} /\ ui.active = Nothing /\ ui.messages = {}
        /\ ui.made = back.convs /\ ui.hasty = FALSE /\ ui.orphaned = FALSE
    BY DEF Chat!Init
  <1>3. calls = {Chat!Listing} /\ Chat!Listing.op = "convs"
    BY ChatCalls DEF Chat!Init, Chat!Listing
  <1>4. ChatSends = {} BY <1>3 DEF ChatSends
  <1>6. ChatTyped BY Zenon, <1>1, <1>2 DEF ChatTyped
  <1>7. ChatMade BY <1>1, <1>2, <1>3 DEF ChatMade
  <1>8. ChatKept BY <1>1, <1>4 DEF ChatKept
  <1>10. ChatShown BY <1>2, <1>3 DEF ChatShown
  <1> QED BY <1>6, <1>7, <1>8, <1>10 DEF ChatMore

\* What neither asks for messages nor sets the page anew.
LEMMA ChatIdles ==
  ASSUME ChatMore, ChatSends' = ChatSends,
         back'.convs = back.convs, back'.msgs = back.msgs,
         back'.streams = back.streams, back'.events = back.events,
         \A c \in calls' : c \in calls \/ c.op = "convs",
         \A c \in calls : c.op = "messages" => c \in calls',
         ui'.convs \subseteq ui.made, ui'.active = ui.active, ui'.messages = ui.messages,
         ui'.made = ui.made, ui'.cleared = ui.cleared,
         ui'.hasty = ui.hasty, ui'.orphaned = ui.orphaned
  PROVE  ChatMore'
  <1>1. ChatAll' = ChatAll BY DEF ChatAll
  <1>2. ChatTyped' BY DEF ChatMore, ChatTyped
  <1>3. ChatMade' BY DEF ChatMore, ChatMade
  <1>4. ChatKept' BY DEF ChatMore, ChatKept
  <1>6. \A c \in calls' : c.op \in {"create", "listing"} /\ ChatNew(c) => ChatNew(c)'
    BY DEF ChatNew
  <1>7. ChatShown' BY <1>1, <1>6 DEF ChatMore, ChatShown
  <1> QED BY <1>2, <1>3, <1>4, <1>7 DEF ChatMore

\* The page is left: what Go has to make and to delete goes on.
LEMMA ChatGone == ASSUME ChatMore, ChatOwns, Chat!Free, Chat!Leave PROVE ChatMore'
  <1>1. /\ back' = back
        /\ calls' = Chat!CallsOf({"send"}) \cup {[c EXCEPT !.here = FALSE] : c \in Chat!CallsOf({"create", "delete"})}
        /\ ui'.convs = {} /\ ui'.active = Nothing /\ ui'.messages = {} /\ ui'.made = ui.made
        /\ ui'.hasty = ui.hasty /\ ui'.orphaned = ui.orphaned
    BY DEF Chat!Leave, ChatOwns, ChatFields
  <1>2. \A c \in calls' : \/ c.op = "send" /\ c \in calls
                          \/ \E d \in calls : /\ d.op \in {"create", "delete"} /\ c = [d EXCEPT !.here = FALSE]
                                              /\ c.op = d.op /\ c.conv = d.conv
    BY <1>1 DEF Chat!CallsOf, ChatOwns, ChatFields
  <1>3. ChatSends' = ChatSends BY <1>1, <1>2 DEF ChatSends, Chat!CallsOf
  <1>4. ChatTyped' BY <1>1 DEF ChatMore, ChatTyped
  <1>5. ChatMade' BY <1>1, <1>2 DEF ChatMore, ChatMade
  <1>6. ChatKept' BY <1>1, <1>2, <1>3 DEF ChatMore, ChatKept
  <1>7. ASSUME NEW c \in calls', c.op \in {"create", "listing"} PROVE ChatNew(c)'
    <2>1. PICK d \in calls : d.op = "create" /\ c = [d EXCEPT !.here = FALSE] /\ c.op = d.op /\ c.conv = d.conv
      BY <1>2, <1>7
    <2>2. ChatNew(d) BY <2>1 DEF ChatMore, ChatShown, Chat!Free
    <2>3. c.conv # Nothing BY <1>7, <2>1, ChatConstants DEF ChatMore, ChatMade
    <2>4. ASSUME NEW b \in calls', b.op \in {"create", "listing"}, b.conv = c.conv PROVE b = c
      <3>1. PICK a \in calls : a.op = "create" /\ b = [a EXCEPT !.here = FALSE] /\ b.conv = a.conv
        BY <1>2, <2>4
      <3>2. a = d BY <2>1, <2>2, <2>4, <3>1 DEF ChatNew
      <3> QED BY <2>1, <3>1, <3>2
    <2> QED BY <1>1, <1>3, <2>1, <2>2, <2>3, <2>4 DEF ChatNew
  <1>8. ChatShown' BY <1>1, <1>7 DEF ChatShown
  <1> QED BY <1>4, <1>5, <1>6, <1>8 DEF ChatMore

\* A conversation comes on the page.
LEMMA ChatSelects ==
  ASSUME ChatMore, ChatOwns, NEW conv \in Things, Chat!HandleSelectConv(conv) PROVE ChatMore'
  <1> DEFINE n == Chat!Loading(conv)
             quick == Chat!Unsettled
  <1>1. conv \in ui.convs /\ calls' = calls \cup {n} /\ back' = back
    BY DEF Chat!HandleSelectConv, Chat!Ask
  <1>2. n.op = "messages" /\ n.conv = conv BY ChatCalls DEF Chat!Loading
  <1>3. quick \in BOOLEAN /\ (~quick => \A c \in calls : c.op \notin {"messages", "create", "listing", "delete"})
    BY DEF Chat!Unsettled, Chat!CallsOf
  <1> HIDE DEF n
  <1>4. /\ ui'.convs = ui.convs /\ ui'.active = conv /\ ui'.messages = ui.messages
        /\ ui'.made = ui.made /\ ui'.hasty = quick /\ ui'.orphaned = ui.orphaned
    BY DEF Chat!HandleSelectConv, ChatOwns, ChatFields
  <1> HIDE DEF quick
  <1>5. ChatSends' = ChatSends BY <1>1, <1>2 DEF ChatSends
  <1>7. ChatTyped' BY <1>1, <1>3, <1>4 DEF ChatMore, ChatTyped
  <1>8. ChatMade' BY <1>1, <1>2, <1>4 DEF ChatMore, ChatMade
  <1>9. ChatKept' BY <1>1, <1>2, <1>4, <1>5 DEF ChatMore, ChatKept
  <1>11. ChatShown'
    <2> SUFFICES ASSUME ~ui'.hasty PROVE ChatShown' BY DEF ChatShown
    <2>1. \A c \in calls : c.op \notin {"messages", "create", "listing", "delete"} BY <1>3, <1>4
    <2>3. n \in calls' BY <1>1
    <2> QED BY <1>1, <1>2, <1>4, <2>1, <2>3 DEF ChatShown
  <1> QED BY <1>7, <1>8, <1>9, <1>11 DEF ChatMore

\* A conversation is made: first its ID.
LEMMA ChatMakes ==
  ASSUME ChatMore, ChatOwns, NEW conv \in Things, Chat!HandleNewConv(conv) PROVE ChatMore'
  <1> DEFINE n == Chat!Call("create", conv)
  <1>1. /\ conv \notin ui.made /\ calls' = calls \cup {n} /\ back' = back
        /\ ui' = [ui EXCEPT !.made = @ \cup {conv}]
    BY DEF Chat!HandleNewConv, Chat!Ask
  <1>2. n.op = "create" /\ n.conv = conv BY ChatCalls
  <1> HIDE DEF n
  <1>4. /\ ui'.convs = ui.convs /\ ui'.active = ui.active /\ ui'.messages = ui.messages
        /\ ui'.made = ui.made \cup {conv} /\ ui'.cleared = ui.cleared
        /\ ui'.hasty = ui.hasty /\ ui'.orphaned = ui.orphaned
    BY <1>1 DEF ChatOwns, ChatFields
  <1>5. ChatSends' = ChatSends BY <1>1, <1>2 DEF ChatSends
  <1>6. ChatAll' = ChatAll BY <1>1, <1>5 DEF ChatAll
  <1>7. ChatTyped' BY <1>1, <1>4 DEF ChatMore, ChatTyped
  <1>8. ChatMade' BY <1>1, <1>2, <1>4 DEF ChatMore, ChatMade
  <1>9. ChatKept' BY <1>1, <1>2, <1>4, <1>5 DEF ChatMore, ChatKept
  <1>11. ChatNew(n)'
    <2>1. conv # ui.active BY <1>1, ChatConstants DEF ChatMore, ChatMade
    <2>2. \A m \in back.msgs : m.conv # conv BY <1>1 DEF ChatMore, ChatMade
    <2>3. \A d \in ChatSends \cup back.streams : d.conv # conv
      BY <1>1 DEF ChatMore, ChatMade, ChatSends
    <2>4. \A d \in calls : d.op \in {"create", "listing"} => d.conv # conv
      BY <1>1 DEF ChatMore, ChatMade
    <2> QED BY <1>1, <1>2, <1>4, <1>5, <2>1, <2>2, <2>3, <2>4 DEF ChatNew
  <1>12. ASSUME NEW c \in calls, ChatNew(c), c.op \in {"create", "listing"} PROVE ChatNew(c)'
    <2>1. c.conv # conv BY <1>1, <1>12 DEF ChatMore, ChatMade
    <2> QED BY <1>1, <1>2, <1>4, <1>5, <1>12, <2>1 DEF ChatNew
  <1>13. ChatShown' BY <1>1, <1>2, <1>4, <1>6, <1>11, <1>12 DEF ChatMore, ChatShown
  <1> QED BY <1>7, <1>8, <1>9, <1>13 DEF ChatMore

\* It is made in Go.
LEMMA ChatCreates ==
  ASSUME ChatMore, ChatOwns, NEW c \in calls, Chat!AnswerCreate(c) PROVE ChatMore'
  <1>0. c.op = "create" /\ c.conv \in ui.made /\ ui' = ui
    BY DEF Chat!AnswerCreate, ChatMore, ChatMade
  <1>1. CASE Chat!Answered(c) /\ UNCHANGED back
    <2>1. calls' = calls \ {c} BY <1>1 DEF Chat!Answered
    <2>2. ChatSends' = ChatSends BY <1>0, <2>1 DEF ChatSends
    <2>3. ui.convs \subseteq ui.made BY DEF ChatMore, ChatMade
    <2> QED BY <1>0, <1>1, <2>1, <2>2, <2>3, ChatIdles
  <1>2. CASE /\ IF c.here THEN Chat!Continue(c, Chat!Call("listing", c.conv)) ELSE Chat!Answered(c)
             /\ back' = [back EXCEPT !.convs = @ \cup {c.conv}]
    <2> DEFINE n == Chat!Call("listing", c.conv)
    <2>1. calls' = (calls \ {c}) \cup {n} \/ calls' = calls \ {c}
      BY <1>2 DEF Chat!Answered, Chat!Continue
    <2>2. n.op = "listing" /\ n.conv = c.conv BY ChatCalls
    <2> HIDE DEF n
    <2>3. /\ back'.convs = back.convs \cup {c.conv} /\ back'.msgs = back.msgs
          /\ back'.streams = back.streams /\ back'.events = back.events
      BY <1>2 DEF ChatOwns, ChatFields
    <2>4. ChatSends' = ChatSends BY <1>0, <2>1, <2>2 DEF ChatSends
    <2>5. ChatAll' = ChatAll BY <2>3, <2>4 DEF ChatAll
    <2>6. ChatTyped' BY <1>0, <2>3 DEF ChatMore, ChatTyped
    <2>7. ChatMade' BY <1>0, <2>1, <2>2, <2>3 DEF ChatMore, ChatMade
    <2>8. ChatKept' BY <1>0, <2>1, <2>2, <2>3, <2>4 DEF ChatMore, ChatKept
    <2>10. ChatNew(c) => ChatNew(n)' BY <1>0, <2>1, <2>2, <2>3, <2>4 DEF ChatNew
    <2>11. ASSUME NEW d \in calls \ {c}, ChatNew(d), d.op \in {"create", "listing"} PROVE ChatNew(d)'
      <3>1. c.conv # d.conv BY <1>0, <2>11 DEF ChatNew
      <3> QED BY <1>0, <2>1, <2>2, <2>3, <2>4, <2>11, <3>1 DEF ChatNew
    <2>12. ChatShown' BY <1>0, <2>1, <2>2, <2>3, <2>5, <2>10, <2>11 DEF ChatMore, ChatShown
    <2> QED BY <2>6, <2>7, <2>8, <2>12 DEF ChatMore
  <1> QED BY <1>1, <1>2 DEF Chat!AnswerCreate

\* And then it is on the page.
LEMMA ChatShows ==
  ASSUME ChatMore, ChatOwns, Chat!Free, NEW c \in calls, Chat!ShowNew(c) PROVE ChatMore'
  <1> DEFINE quick == Chat!CallsOf({"messages", "delete"}) # {} \/ c.conv \notin back.convs
  <1>1. PICK list \in {back.convs, {}} :
           ui' = [ui EXCEPT !.convs = list, !.active = c.conv, !.messages = {}, !.content = {},
                            !.cleared = FALSE, !.moved = Chat!UnderWay, !.hasty = @ \/ quick]
    BY Zenon DEF Chat!ShowNew
  <1>2. c.op = "listing" /\ calls' = calls \ {c} /\ back' = back
    BY DEF Chat!ShowNew, Chat!Answered
  <1>3. quick \in BOOLEAN /\ (~quick => \A d \in calls : d.op \notin {"messages", "delete"})
    BY DEF Chat!CallsOf
  <1> HIDE DEF quick
  <1>4. /\ ui'.convs = list /\ ui'.active = c.conv /\ ui'.messages = {} /\ ui'.made = ui.made
        /\ ui'.hasty = (ui.hasty \/ quick) /\ ui'.orphaned = ui.orphaned
    BY <1>1 DEF ChatOwns, ChatFields
  <1>5. ChatSends' = ChatSends BY <1>2 DEF ChatSends
  <1>6. (ui.hasty \/ quick) \in BOOLEAN OBVIOUS
  <1>7. ChatTyped'
    <2>1. ui'.hasty \in BOOLEAN BY <1>4, <1>6
    <2> QED BY <1>2, <1>4, <2>1 DEF ChatMore, ChatTyped
  <1>8. ChatMade' BY <1>2, <1>4 DEF ChatMore, ChatMade
  <1>9. ChatKept' BY <1>2, <1>4, <1>5 DEF ChatMore, ChatKept
  <1>11. ChatShown'
    <2> SUFFICES ASSUME ~ui'.hasty PROVE ChatShown' BY DEF ChatShown
    <2>1. ~ui.hasty /\ ~quick BY Zenon, <1>4
    <2>2. ChatNew(c) BY <1>2, <2>1 DEF ChatMore, ChatShown
    <2>3. \A m \in back.msgs : m.conv # c.conv BY <2>2 DEF ChatNew
    <2>4. ASSUME NEW d \in calls', d.op \in {"create", "listing"} PROVE ChatNew(d)'
      <3>1. ChatNew(d) BY <1>2, <2>1, <2>4 DEF ChatMore, ChatShown
      <3>2. d.conv # c.conv BY <1>2, <2>2, <2>4 DEF ChatNew
      <3> QED BY <1>2, <1>4, <1>5, <3>1, <3>2 DEF ChatNew
    <2>6. ui'.messages = {m \in back'.msgs : m.conv = ui'.active} BY <1>2, <1>4, <2>3
    <2>7. \A d \in calls' : d.op \notin {"messages", "delete"} BY <1>2, <1>3, <2>1
    <2> QED BY <1>2, <1>4, <2>4, <2>6, <2>7 DEF ChatShown
  <1> QED BY <1>7, <1>8, <1>9, <1>11 DEF ChatMore

\* A conversation is to be deleted.
LEMMA ChatDeletes ==
  ASSUME ChatMore, ChatOwns, Chat!Free, NEW conv \in Things, Chat!HandleDeleteConv(conv) PROVE ChatMore'
  <1> DEFINE j == Chat!Call("delete", conv)
             nth == IF ui.active = conv THEN 1 ELSE 0
             asked == Chat!Asked(conv)
             quick == Chat!Loading(conv) \in calls
  <1>0. PICK n : n = [j EXCEPT !.nth = nth] OBVIOUS
  <1>1. /\ calls' = calls \cup {n} /\ back' = back
        /\ ui' = [ui EXCEPT !.orphaned = @ \/ asked, !.hasty = @ \/ quick]
    BY <1>0 DEF Chat!HandleDeleteConv, Chat!Ask
  <1>2. n.op = "delete" /\ n.conv = conv /\ n.nth = nth /\ n.here
    BY <1>0, ChatCalls
  <1>3. n.nth # 1 \/ ~n.here => n.conv # ui.active BY <1>2
  <1>15. /\ asked \in BOOLEAN /\ quick \in BOOLEAN
         /\ ~asked => \A c \in ChatSends \cup back.streams : c.conv # conv
    BY DEF Chat!Asked, Chat!CallsOf, ChatSends
  <1> HIDE DEF j, nth, asked, quick
  <1>4. /\ ui'.convs = ui.convs /\ ui'.active = ui.active /\ ui'.messages = ui.messages
        /\ ui'.made = ui.made /\ ui'.cleared = ui.cleared
        /\ ui'.hasty = (ui.hasty \/ quick) /\ ui'.orphaned = (ui.orphaned \/ asked)
    BY <1>1 DEF ChatOwns, ChatFields
  <1>13. ui'.hasty = quick /\ ui'.orphaned = asked BY <1>4, <1>15 DEF Chat!Free
  <1>5. ChatSends' = ChatSends BY <1>1, <1>2 DEF ChatSends
  <1>6. ChatAll' = ChatAll BY <1>1, <1>5 DEF ChatAll
  <1>7. ChatTyped' BY <1>1, <1>4, <1>13, <1>15 DEF ChatMore, ChatTyped
  <1>8. ChatMade' BY <1>1, <1>2, <1>4 DEF ChatMore, ChatMade
  <1>9. ChatKept' BY <1>1, <1>2, <1>4, <1>5, <1>13, <1>15 DEF ChatMore, ChatKept, Chat!Free
  <1>11. \A c \in calls : c.op \in {"create", "listing"} /\ ChatNew(c) => ChatNew(c)'
    BY <1>1, <1>2, <1>4, <1>5 DEF ChatNew
  <1>12. ChatShown' BY <1>1, <1>2, <1>3, <1>4, <1>6, <1>11 DEF ChatMore, ChatShown, Chat!Free
  <1> QED BY <1>7, <1>8, <1>9, <1>12 DEF ChatMore

\* It is, and the page is emptied if it was on it.
LEMMA ChatDeleted ==
  ASSUME ChatMore, ChatOwns, Chat!Free, NEW c \in calls, Chat!AnswerDelete(c) PROVE ChatMore'
  <1> DEFINE rest == {m \in back.msgs : m.conv # c.conv}
  <1>0. c.op = "delete" BY DEF Chat!AnswerDelete
  <1>1. CASE Chat!Answered(c) /\ UNCHANGED <<ui, back>>
    <2>1. calls' = calls \ {c} BY <1>1 DEF Chat!Answered
    <2>2. ui.convs \subseteq ui.made BY DEF ChatMore, ChatMade
    <2>3. ChatSends' = ChatSends BY <1>0, <2>1 DEF ChatSends
    <2> QED BY <1>0, <1>1, <2>1, <2>2, <2>3, ChatIdles
  <1>2. CASE /\ IF c.here THEN Chat!Continue(c, Chat!Listing) ELSE Chat!Answered(c)
             /\ back' = [back EXCEPT !.convs = @ \ {c.conv}, !.msgs = rest]
             /\ ui' = IF c.here /\ c.nth = 1 THEN [ui EXCEPT !.active = Nothing, !.messages = {}] ELSE ui
    <2>1. calls' = (calls \ {c}) \cup {Chat!Listing} \/ calls' = calls \ {c}
      BY <1>2 DEF Chat!Continue, Chat!Answered
    <2>2. Chat!Listing.op = "convs" BY ChatCalls DEF Chat!Listing
    <2>3. rest \subseteq back.msgs /\ \A m \in back.msgs : m \in rest <=> m.conv # c.conv OBVIOUS
    <2> HIDE DEF rest
    <2>4. /\ back'.convs = back.convs \ {c.conv} /\ back'.msgs = rest
          /\ back'.streams = back.streams /\ back'.events = back.events
      BY <1>2 DEF ChatOwns, ChatFields
    <2>5. /\ ui'.convs = ui.convs /\ ui'.made = ui.made /\ ui'.cleared = ui.cleared
          /\ ui'.hasty = ui.hasty /\ ui'.orphaned = ui.orphaned
          /\ \/ ui'.active = Nothing /\ ui'.messages = {}
             \/ (c.nth # 1 \/ ~c.here) /\ ui'.active = ui.active /\ ui'.messages = ui.messages
      BY <1>2 DEF ChatOwns, ChatFields
    <2>6. ChatSends' = ChatSends BY <1>0, <2>1, <2>2 DEF ChatSends
    <2>13. ChatAll' = ChatAll BY <2>4, <2>6 DEF ChatAll
    <2>7. ChatTyped' BY <2>3, <2>4, <2>5 DEF ChatMore, ChatTyped
    <2>8. ChatMade' BY <2>1, <2>2, <2>3, <2>4, <2>5 DEF ChatMore, ChatMade
    <2>9. ChatKept' BY <1>0, <2>1, <2>2, <2>3, <2>4, <2>5, <2>6 DEF ChatMore, ChatKept
    <2>11. ASSUME NEW d \in calls, d.op \in {"create", "listing"}, ChatNew(d) PROVE ChatNew(d)'
      <3>1. d.conv # Nothing BY <2>11, ChatConstants DEF ChatMore, ChatMade
      <3> QED BY <2>1, <2>2, <2>3, <2>4, <2>5, <2>6, <2>11, <3>1 DEF ChatNew
    <2>12. ChatShown'
      <3> SUFFICES ASSUME ~ui'.hasty PROVE ChatShown' BY DEF ChatShown
      <3>1. \A d \in calls' : d.op \in {"create", "listing"} => ChatNew(d)'
        BY <2>1, <2>2, <2>5, <2>11 DEF ChatMore, ChatShown
      <3>2. CASE ui'.active = Nothing BY <3>1, <3>2 DEF ChatShown
      <3>3. CASE ui'.active # Nothing
        <4>1. (c.nth # 1 \/ ~c.here) /\ ui'.active = ui.active /\ ui'.messages = ui.messages
          BY <2>5, <3>3
        <4>2. c.conv # ui.active BY <1>0, <2>5, <3>3, <4>1 DEF ChatMore, ChatShown
        <4>3. {m \in back'.msgs : m.conv = ui.active} = {m \in back.msgs : m.conv = ui.active}
          BY <2>3, <2>4, <4>2
        <4> QED BY <1>0, <2>1, <2>2, <2>5, <2>13, <3>1, <3>3, <4>1, <4>3 DEF ChatMore, ChatShown
      <3> QED BY <3>2, <3>3
    <2> QED BY <2>7, <2>8, <2>9, <2>12 DEF ChatMore
  <1> QED BY <1>1, <1>2 DEF Chat!AnswerDelete

\* The messages come, or the page is emptied.
LEMMA ChatLoaded ==
  ASSUME ChatMore, ChatOwns, NEW c \in calls, Chat!AnswerMessages(c) PROVE ChatMore'
  <1> DEFINE stored == {m \in back.msgs : m.conv = c.conv}
  <1>1. /\ c.op = "messages" /\ calls' = calls \ {c} /\ back' = back
        /\ ui'.convs = ui.convs /\ ui'.active = ui.active /\ ui'.made = ui.made
        /\ ui'.hasty = ui.hasty /\ ui'.orphaned = ui.orphaned
        /\ \/ ui'.messages = stored
           \/ ui'.messages = {} /\ ui'.cleared = TRUE
    BY Zenon DEF Chat!AnswerMessages, Chat!Answered, ChatOwns, ChatFields
  <1>2. ui'.messages \subseteq back.msgs BY <1>1
  <1>5. ChatSends' = ChatSends BY <1>1 DEF ChatSends
  <1>7. ChatTyped' BY <1>1, <1>2 DEF ChatMore, ChatTyped
  <1>8. ChatMade' BY <1>1 DEF ChatMore, ChatMade
  <1>9. ChatKept' BY <1>1, <1>5 DEF ChatMore, ChatKept
  <1>11. \A d \in calls : ChatNew(d) => ChatNew(d)' BY <1>1, <1>5 DEF ChatNew
  <1>12. ChatShown' BY <1>1, <1>11 DEF ChatMore, ChatShown
  <1> QED BY <1>7, <1>8, <1>9, <1>12 DEF ChatMore

\* The messages are cleared from the page.
LEMMA ChatClears == ASSUME ChatMore, ChatOwns, Chat!ClearShown PROVE ChatMore'
  <1>1. /\ calls' = calls /\ back' = back
        /\ ui'.convs = ui.convs /\ ui'.active = ui.active /\ ui'.made = ui.made
        /\ ui'.hasty = ui.hasty /\ ui'.orphaned = ui.orphaned
        /\ ui'.messages = {} /\ ui'.cleared = TRUE
    BY DEF Chat!ClearShown, ChatOwns, ChatFields
  <1>5. ChatSends' = ChatSends BY <1>1 DEF ChatSends
  <1>7. ChatTyped' BY <1>1 DEF ChatMore, ChatTyped
  <1>8. ChatMade' BY <1>1 DEF ChatMore, ChatMade
  <1>9. ChatKept' BY <1>1, <1>5 DEF ChatMore, ChatKept
  <1>11. \A d \in calls : ChatNew(d) => ChatNew(d)' BY <1>1, <1>5 DEF ChatNew
  <1>12. ChatShown' BY <1>1, <1>11 DEF ChatMore, ChatShown
  <1> QED BY <1>7, <1>8, <1>9, <1>12 DEF ChatMore

\* A question is asked, of the conversation on the page.
LEMMA ChatAsks == ASSUME ChatMore, ChatOwns, Chat!Free, Chat!HandleSend PROVE ChatMore'
  <1> DEFINE j == Chat!Call("send", ui.active)
             gone == \/ ui.active \notin back.convs
                     \/ \E d \in Chat!CallsOf({"delete"}) : d.conv = ui.active
  <1>0. PICK n : n = [j EXCEPT !.nth = ui.sends + 1] OBVIOUS
  <1>16. PICK m : m = Chat!Message(n, "user") OBVIOUS
  <1>1. /\ ui.active # Nothing /\ ui.sends < Bound
        /\ calls' = calls \cup {n} /\ back' = back
        /\ ui' = [ui EXCEPT !.messages = @ \cup {m}, !.sends = @ + 1, !.streaming = TRUE,
                            !.content = {}, !.orphaned = @ \/ gone]
    BY <1>0, <1>16 DEF Chat!HandleSend, Chat!Ask, Chat!More
  <1>3. n.op = "send" /\ n.conv = ui.active /\ n.nth = ui.sends + 1 BY <1>0, ChatCalls
  <1> HIDE DEF j
  <1>14. ui.active \in ui.made /\ ui.active \in Things BY <1>1 DEF ChatMore, ChatMade
  <1>17. n.nth \in 1 .. Bound BY <1>1, <1>3, ChatConstants DEF ChatOwns, ChatFields
  <1>18. m \in [conv : Things, nth : 1 .. Bound, role : {"user", "assistant"}]
    BY <1>3, <1>14, <1>16, <1>17 DEF Chat!Message
  <1>15. /\ gone \in BOOLEAN
         /\ ~gone => ui.active \in back.convs /\ \A d \in calls : d.op = "delete" => d.conv # ui.active
    BY DEF Chat!CallsOf
  <1> HIDE DEF gone
  <1>4. /\ ui'.convs = ui.convs /\ ui'.active = ui.active /\ ui'.messages = ui.messages \cup {m}
        /\ ui'.made = ui.made /\ ui'.hasty = ui.hasty /\ ui'.orphaned = (ui.orphaned \/ gone)
    BY <1>1 DEF ChatOwns, ChatFields
  <1>6. ui'.orphaned = gone BY <1>4, <1>15 DEF Chat!Free
  <1>5. ChatSends' = ChatSends \cup {n} BY <1>1, <1>3 DEF ChatSends
  <1>2. ChatAll' # {} BY <1>5 DEF ChatAll
  <1>7. ChatTyped' BY <1>1, <1>4, <1>6, <1>15, <1>18 DEF ChatMore, ChatTyped
  <1>8. ChatMade' BY <1>1, <1>3, <1>4, <1>14 DEF ChatMore, ChatMade
  <1>9. ChatKept' BY <1>1, <1>3, <1>4, <1>5, <1>6, <1>15 DEF ChatMore, ChatKept, Chat!Free
  <1>11. ASSUME NEW d \in calls, ChatNew(d) PROVE ChatNew(d)'
    <2>1. d.conv # n.conv BY <1>3, <1>11 DEF ChatNew
    <2> QED BY <1>1, <1>3, <1>4, <1>5, <1>11, <2>1 DEF ChatNew
  <1>12. ChatShown' BY <1>1, <1>2, <1>3, <1>4, <1>11 DEF ChatMore, ChatShown
  <1> QED BY <1>7, <1>8, <1>9, <1>12 DEF ChatMore

\* Go keeps a row, or refuses it if the conversation is gone.
LEMMA ChatKeeps ==
  \A m, kept : kept \in Chat!Kept(m) => kept \subseteq {m} /\ (m.conv \in back.convs => kept = {m})
  BY DEF Chat!Kept

\* What Go goes on with: rows are kept only of questions under way.
LEMMA ChatGoesOn ==
  ASSUME ChatMore, ChatOwns, ui' = ui, ChatAll' # {},
         \A c \in calls' : c \in calls, \A c \in calls : c.op # "send" => c \in calls',
         back'.convs = back.convs,
         \A m \in back'.msgs :
             \/ m \in back.msgs
             \/ \E q \in ChatSends \cup back.streams :
                   m.conv = q.conv /\ m.nth = q.nth /\ m = Chat!Message(q, m.role) /\ m.role \in {"user", "assistant"},
         \A s \in back'.streams : \E q \in ChatSends \cup back.streams : s.conv = q.conv,
         ~ui.orphaned => \A m \in back'.msgs : m.conv \in back.convs
  PROVE  ChatMore'
  <1>1. ChatSends' \subseteq ChatSends BY DEF ChatSends
  <1>3. \A q \in ChatSends \cup back.streams :
           q.conv \in Things /\ q.nth \in 1 .. Bound /\ q.conv \in ui.made
    BY DEF ChatSends, ChatOwns, ChatFields, ChatMore, ChatMade
  <1>2. \A m \in back'.msgs :
           /\ m \in [conv : Things, nth : 1 .. Bound, role : {"user", "assistant"}]
           /\ m \in back.msgs \/ \E q \in ChatSends \cup back.streams : m.conv = q.conv
    BY <1>3 DEF ChatMore, ChatTyped, Chat!Message
  <1>7. ChatTyped' BY <1>2 DEF ChatMore, ChatTyped
  <1>8. ChatMade' BY <1>2, <1>3 DEF ChatMore, ChatMade
  <1>9. ChatKept' BY <1>1 DEF ChatMore, ChatKept
  <1>11. \A d \in calls : ChatNew(d) => ChatNew(d)' BY <1>1, <1>2 DEF ChatNew
  <1>12. ChatShown' BY <1>11 DEF ChatMore, ChatShown
  <1> QED BY <1>7, <1>8, <1>9, <1>12 DEF ChatMore

\* The question is kept, and its answer streams.
LEMMA ChatSent == ASSUME ChatMore, ChatOwns, NEW c \in calls, Chat!SendMessage(c) PROVE ChatMore'
  <1> DEFINE new == [conv |-> c.conv, nth |-> c.nth, said |-> FALSE, on |-> TRUE]
             m == Chat!Message(c, "user")
             off(s) == [s EXCEPT !.on = FALSE]
  <1>1. PICK kept \in Chat!Kept(m) :
           back' = [back EXCEPT !.msgs = @ \cup kept, !.streams = {off(s) : s \in @} \cup {new}]
    BY Zenon DEF Chat!SendMessage
  <1>2. c.op = "send" /\ calls' = calls \ {c} /\ ui' = ui BY DEF Chat!SendMessage, Chat!Answered
  <1>3. c \in ChatSends BY <1>2 DEF ChatSends
  <1>4. new.conv = c.conv /\ \A s \in back.streams : off(s).conv = s.conv
    BY DEF ChatOwns, ChatFields
  <1>14. m.conv = c.conv /\ m.nth = c.nth /\ m.role = "user" /\ m = Chat!Message(c, m.role)
    BY DEF Chat!Message
  <1>15. kept \subseteq {m} /\ (c.conv \in back.convs => kept = {m}) BY <1>1, <1>14, ChatKeeps
  <1> HIDE DEF new, m, off
  <1>5. /\ back'.convs = back.convs /\ back'.msgs = back.msgs \cup kept
        /\ back'.streams = {off(s) : s \in back.streams} \cup {new}
    BY <1>1 DEF ChatOwns, ChatFields
  <1>6. new \in ChatAll' BY <1>5 DEF ChatAll
  <1>7. \A q \in back'.msgs : q \in back.msgs \/ q = m BY <1>5, <1>15
  <1>8. \A s \in back'.streams : \E q \in ChatSends \cup back.streams : s.conv = q.conv
    BY <1>3, <1>4, <1>5
  <1>9. ~ui.orphaned => \A q \in back'.msgs : q.conv \in back.convs
    BY <1>3, <1>7, <1>14 DEF ChatMore, ChatKept
  <1>10. ChatAll' # {} BY <1>6
  <1>11. \A q \in back'.msgs :
            \/ q \in back.msgs
            \/ \E r \in ChatSends \cup back.streams :
                  q.conv = r.conv /\ q.nth = r.nth /\ q = Chat!Message(r, q.role) /\ q.role \in {"user", "assistant"}
    BY <1>3, <1>7, <1>14
  <1> QED BY <1>2, <1>5, <1>8, <1>9, <1>10, <1>11, ChatGoesOn

\* A token, the end of an answer and stopping it leave the messages where they belong.
LEMMA ChatStreaming ==
  ASSUME ChatMore, ChatOwns,
         Chat!HandleStop \/ \E s \in back.streams : Chat!StreamToken(s) \/ Chat!StreamEnds(s)
  PROVE  ChatMore'
  <1>0. ChatFields BY DEF ChatOwns
  <1>2. ~ui.orphaned => \A m \in back.msgs : m.conv \in back.convs BY DEF ChatMore, ChatKept
  <1>3. CASE Chat!HandleStop
    <2> DEFINE off(s) == [s EXCEPT !.on = FALSE]
    <2>1. /\ ui' = ui /\ calls' = calls
          /\ back' = [back EXCEPT !.streams = {off(s) : s \in @}]
      BY <1>3 DEF Chat!HandleStop
    <2>2. \A s \in back.streams : off(s).conv = s.conv BY <1>0 DEF ChatFields
    <2> HIDE DEF off
    <2>3. /\ back'.convs = back.convs /\ back'.msgs = back.msgs /\ back'.events = back.events
          /\ back'.streams = {off(s) : s \in back.streams}
      BY <1>0, <2>1 DEF ChatFields
    <2>4. \A s \in back'.streams : \E t \in ChatSends \cup back.streams : s.conv = t.conv
      BY <2>2, <2>3
    <2>5. CASE ChatAll # {}
      <3>1. ChatSends' = ChatSends BY <2>1 DEF ChatSends
      <3>2. ChatAll' # {} BY <2>3, <2>5, <3>1 DEF ChatAll
      <3> QED BY <1>2, <2>1, <2>3, <2>4, <3>2, ChatGoesOn
    <2>6. CASE ChatAll = {}
      <3>1. back.streams = {} BY <2>6 DEF ChatAll
      <3>3. back'.streams = back.streams BY <2>3, <3>1
      <3>4. ChatSends' = ChatSends BY <2>1 DEF ChatSends
      <3>5. ui.convs \subseteq ui.made BY DEF ChatMore, ChatMade
      <3> QED BY <2>1, <2>3, <3>3, <3>4, <3>5, ChatIdles
    <2> QED BY <2>5, <2>6
  <1>5. ASSUME NEW s \in back.streams, Chat!StreamToken(s) PROVE ChatMore'
    <2> DEFINE t == [s EXCEPT !.said = TRUE]
    <2>1. /\ ui' = ui /\ calls' = calls /\ back'.convs = back.convs /\ back'.msgs = back.msgs
          /\ back'.streams = (back.streams \ {s}) \cup {t}
      BY Zenon, <1>0, <1>5 DEF Chat!StreamToken, Chat!Emit, ChatFields
    <2>2. t.conv = s.conv BY <1>0 DEF ChatFields
    <2> HIDE DEF t
    <2>5. \A r \in back'.streams : \E q \in ChatSends \cup back.streams : r.conv = q.conv
      BY <2>1, <2>2
    <2>6. ChatAll' # {} BY <2>1 DEF ChatAll
    <2> QED BY <1>2, <2>1, <2>5, <2>6, ChatGoesOn
  <1>6. ASSUME NEW s \in back.streams, Chat!StreamEnds(s) PROVE ChatMore'
    <2> DEFINE e == [conv |-> s.conv, nth |-> s.nth, done |-> TRUE]
               m == Chat!Message(s, "assistant")
    <2>0. PICK kept \in IF s.said THEN Chat!Kept(m) ELSE {{}} :
             back' = [Chat!Emit(s, TRUE) EXCEPT !.streams = @ \ {s}, !.msgs = @ \cup kept]
      BY Zenon, <1>6 DEF Chat!StreamEnds
    <2>1. /\ ui' = ui /\ calls' = calls /\ back'.convs = back.convs /\ back'.msgs = back.msgs \cup kept
          /\ back'.events = Append(back.events, e)
          /\ back'.streams = back.streams \ {s}
      BY Zenon, <1>0, <1>6, <2>0 DEF Chat!StreamEnds, Chat!Emit, ChatFields
    <2>2. m.conv = s.conv /\ m.nth = s.nth /\ m.role = "assistant" /\ m = Chat!Message(s, m.role)
      BY DEF Chat!Message
    <2>3. e = [conv |-> s.conv, nth |-> s.nth, done |-> TRUE] OBVIOUS
    <2> HIDE DEF e, m
    <2>4. /\ Len(back'.events) = Len(back.events) + 1 /\ Len(back.events) \in Nat
          /\ back'.events \in Seq([conv : Things, nth : 1 .. Bound, done : BOOLEAN])
      BY Zenon, <2>1, <2>3, ChatEmits
    <2>5. Len(back'.events) \in DOMAIN back'.events BY <2>4
    <2>6. ChatAll' # {} BY Zenon, <2>5 DEF ChatAll
    <2>7. kept \subseteq {m} BY <2>0, ChatKeeps
    <2>8. \A q \in back'.msgs : q \in back.msgs \/ q = m BY <2>1, <2>7
    <2>9. ~ui.orphaned => s.conv \in back.convs BY DEF ChatMore, ChatKept
    <2>10. ~ui.orphaned => \A q \in back'.msgs : q.conv \in back.convs
      BY <1>2, <2>2, <2>8, <2>9
    <2>11. \A q \in back'.msgs :
              \/ q \in back.msgs
              \/ \E r \in ChatSends \cup back.streams :
                    q.conv = r.conv /\ q.nth = r.nth /\ q = Chat!Message(r, q.role) /\ q.role \in {"user", "assistant"}
      BY <2>2, <2>8
    <2>12. \A r \in back'.streams : \E q \in ChatSends \cup back.streams : r.conv = q.conv
      BY <2>1
    <2> QED BY <2>1, <2>6, <2>10, <2>11, <2>12, ChatGoesOn
  <1> QED BY <1>3, <1>5, <1>6

\* The page hears of it, or nobody does.
LEMMA ChatHears == ASSUME ChatMore, ChatOwns, Chat!HandleChunk PROVE ChatMore'
  <1> DEFINE e == Head(back.events)
             quick == Chat!CallsOf({"messages"}) # {}
             loads == IF ui.active = Nothing THEN {} ELSE {Chat!Loading(ui.active)}
  <1>1. /\ back.events # <<>> /\ back'.events = Tail(back.events) /\ back'.streams = back.streams
        /\ back'.convs = back.convs /\ back'.msgs = back.msgs
    BY DEF Chat!HandleChunk, ChatOwns, ChatFields
  <1>5. /\ quick \in BOOLEAN /\ (~quick => \A c \in calls : c.op # "messages")
        /\ \A c \in loads : c.op = "messages" /\ c.conv = ui.active
        /\ ui.active # Nothing => \E c \in loads : c.op = "messages"
    BY ChatCalls DEF Chat!CallsOf, Chat!Loading
  <1>6. Chat!Listing.op = "convs" BY ChatCalls DEF Chat!Listing
  <1>7. /\ ui'.convs = ui.convs /\ ui'.active = ui.active /\ ui'.messages = ui.messages
        /\ ui'.made = ui.made /\ ui'.cleared = ui.cleared /\ ui'.orphaned = ui.orphaned
        /\ \/ ui'.hasty = (ui.hasty \/ quick) /\ calls' = calls \cup {Chat!Listing} \cup loads
           \/ ui'.hasty = ui.hasty /\ calls' = calls /\ ~e.done
    <2> HIDE DEF quick, loads, e
    <2>1. CASE e.done
      BY Zenon, <2>1 DEF Chat!HandleChunk, ChatOwns, ChatFields, quick, loads, e
    <2>2. CASE ~e.done
      BY <2>2 DEF Chat!HandleChunk, ChatOwns, ChatFields, e
    <2> QED BY <2>1, <2>2
  <1> HIDE DEF quick, loads
  <1>9. (ui.hasty \/ quick) \in BOOLEAN /\ ui.hasty \in BOOLEAN BY DEF ChatMore, ChatTyped
  <1>10. ui'.hasty \in BOOLEAN /\ (~ui'.hasty => ~ui.hasty) BY Zenon, <1>7, <1>9
  <1>11. \A c \in calls' \ calls : c.op = "convs" \/ (c.op = "messages" /\ c.conv = ui.active)
    BY <1>5, <1>6, <1>7
  <1>12. ChatSends' = ChatSends /\ calls \subseteq calls' BY <1>7, <1>11 DEF ChatSends
  <1>2. ASSUME ~e.done PROVE ChatAll' # {}
    <2>1. /\ back'.events \in Seq([conv : Things, nth : 1 .. Bound, done : BOOLEAN])
          /\ e = back.events[1] /\ Len(back.events) \in Nat \ {0}
          /\ Len(back'.events) = Len(back.events) - 1
      BY <1>1, <1>12, ChatTakes
    <2>2. CASE back.streams # {} BY <1>1, <2>2 DEF ChatAll
    <2>3. CASE back.streams = {}
      <3>1. back.events[Len(back.events)].done BY <1>1, <2>3 DEF ChatOwns, ChatEnded
      <3>2. Len(back.events) # 1 BY <1>2, <2>1, <3>1
      <3>3. Len(back'.events) \in Nat \ {0} BY <2>1, <3>2
      <3>4. DOMAIN back'.events = 1 .. Len(back'.events) BY <2>1
      <3>5. 1 \in DOMAIN back'.events BY <3>3, <3>4
      <3> QED BY <3>5 DEF ChatAll
    <2> QED BY <2>2, <2>3
  <1> HIDE DEF e
  <1>13. ChatTyped' BY <1>1, <1>7, <1>10 DEF ChatMore, ChatTyped
  <1>14. ChatMade' BY <1>1, <1>7, <1>11 DEF ChatMore, ChatMade
  <1>15. ChatKept' BY <1>1, <1>7, <1>11, <1>12 DEF ChatMore, ChatKept
  <1>17. ASSUME NEW d \in calls, d.op \in {"create", "listing"}, ChatNew(d) PROVE ChatNew(d)'
    BY <1>1, <1>7, <1>11, <1>12, <1>17 DEF ChatNew
  <1>18. ChatShown'
    <2> SUFFICES ASSUME ~ui'.hasty PROVE ChatShown' BY DEF ChatShown
    <2>1. \A d \in calls' : d.op \in {"create", "listing"} => ChatNew(d)'
      BY <1>10, <1>11, <1>17 DEF ChatMore, ChatShown
    <2>2. CASE ui'.active = Nothing BY <2>1, <2>2 DEF ChatShown
    <2>3. CASE ui'.active # Nothing
      <3>1. \A c \in calls' : c.op = "messages" => c.conv = ui'.active
        BY <1>7, <1>10, <1>11, <2>3 DEF ChatMore, ChatShown
      <3>2. \A c \in calls' : c.op = "delete" /\ (c.nth # 1 \/ ~c.here) => c.conv # ui'.active
        BY <1>7, <1>10, <1>11, <2>3 DEF ChatMore, ChatShown
      <3>3. ChatAll' # {} \/ \E c \in calls' : c.op = "messages" BY <1>2, <1>5, <1>7, <2>3
      <3> QED BY <2>1, <3>1, <3>2, <3>3 DEF ChatShown
    <2> QED BY <2>2, <2>3
  <1> QED BY <1>13, <1>14, <1>15, <1>18 DEF ChatMore

LEMMA ChatMisses == ASSUME ChatMore, ChatOwns, Chat!EventLost PROVE ChatMore'
  <1>1. /\ back'.streams = back.streams /\ back'.convs = back.convs /\ back'.msgs = back.msgs
        /\ calls' = calls /\ ~ui.mounted
        /\ ui'.convs = ui.convs /\ ui'.active = ui.active /\ ui'.messages = ui.messages
        /\ ui'.made = ui.made /\ ui'.hasty = ui.hasty /\ ui'.orphaned = ui.orphaned
    BY DEF Chat!EventLost, ChatOwns, ChatFields
  <1>2. ui.active = Nothing BY <1>1 DEF ChatOwns, ChatAway
  <1>3. ChatSends' = ChatSends BY <1>1 DEF ChatSends
  <1>4. ChatTyped' BY <1>1 DEF ChatMore, ChatTyped
  <1>5. ChatMade' BY <1>1 DEF ChatMore, ChatMade
  <1>6. ChatKept' BY <1>1, <1>3 DEF ChatMore, ChatKept
  <1>7. \A d \in calls : ChatNew(d) => ChatNew(d)' BY <1>1, <1>3 DEF ChatNew
  <1>8. ChatShown' BY <1>1, <1>2, <1>7 DEF ChatMore, ChatShown
  <1> QED BY <1>4, <1>5, <1>6, <1>8 DEF ChatMore

\* The page starts with nothing said and nothing under way.
THEOREM ChatInit == Chat!Init => ChatInv
  BY ChatOwnsInit, ChatMoreInit DEF ChatInv

\* No step of the page, left and entered again, of a call or of a stream leaves the
\* invariant.
THEOREM ChatNext == ChatInv /\ [Chat!Next]_Chat!vars => ChatInv'
  <1> SUFFICES ASSUME ChatOwns, ChatMore, [Chat!Next]_Chat!vars PROVE ChatMore'
    BY ChatOwnsNext DEF ChatInv
  <1>0. /\ ui.convs \subseteq ui.made /\ Chat!Listing.op = "convs"
        /\ DOMAIN ui = {"mounted", "convs", "active", "messages", "streaming", "content", "sends",
                        "made", "cleared", "left", "lost", "moved", "hasty", "orphaned"}
    BY ChatCalls DEF ChatMore, ChatMade, Chat!Listing, ChatOwns, ChatFields
  <1>1. ASSUME ui' = ui, back' = back, calls' = calls \/ calls' = calls \cup {Chat!Listing} PROVE ChatMore'
    <2>1. ChatSends' = ChatSends BY <1>0, <1>1 DEF ChatSends
    <2> QED BY <1>0, <1>1, <2>1, ChatIdles
  <1>2. ASSUME Chat!Free, NEW conv \in Things,
               Chat!HandleSelectConv(conv) \/ Chat!HandleNewConv(conv) \/ Chat!HandleDeleteConv(conv)
        PROVE  ChatMore'
    BY <1>2, ChatSelects, ChatMakes, ChatDeletes
  <1>3. ASSUME NEW conv \in Things, Chat!HandleRename(conv) PROVE ChatMore'
    BY <1>1, <1>3 DEF Chat!HandleRename, Chat!Ask
  <1>4. CASE Chat!HandleSaveSystemPrompt BY <1>1, <1>4 DEF Chat!HandleSaveSystemPrompt, Chat!Ask
  <1>5. CASE Chat!ClearShown BY <1>5, ChatClears
  <1>6. CASE Chat!Free /\ Chat!HandleSend BY <1>6, ChatAsks
  <1>7. CASE Chat!HandleStop BY <1>7, ChatStreaming
  <1>8. ASSUME NEW s \in back.streams, Chat!StreamToken(s) \/ Chat!StreamEnds(s) PROVE ChatMore'
    BY <1>8, ChatStreaming
  <1>9. ASSUME NEW c \in calls, Chat!AnswerListing(c) PROVE ChatMore'
    <2>1. PICK list \in {back.convs, {}} : ui' = [ui EXCEPT !.convs = list]
      BY <1>9 DEF Chat!AnswerListing
    <2>2. c.op = "convs" /\ calls' = calls \ {c} /\ back' = back
      BY <1>9 DEF Chat!AnswerListing, Chat!Answered
    <2>3. /\ ui'.convs = list /\ ui'.active = ui.active /\ ui'.messages = ui.messages
          /\ ui'.made = ui.made /\ ui'.cleared = ui.cleared
          /\ ui'.hasty = ui.hasty /\ ui'.orphaned = ui.orphaned
      BY <1>0, <2>1
    <2>4. list \subseteq ui.made BY DEF ChatMore, ChatMade
    <2>5. ChatSends' = ChatSends BY <2>2 DEF ChatSends
    <2> QED BY <2>2, <2>3, <2>4, <2>5, ChatIdles
  <1>10. CASE Chat!Enter
    <2>1. ui' = [ui EXCEPT !.mounted = TRUE] /\ calls' = calls \cup {Chat!Listing} /\ back' = back
      BY <1>10 DEF Chat!Enter
    <2>2. /\ ui'.convs = ui.convs /\ ui'.active = ui.active /\ ui'.messages = ui.messages
          /\ ui'.made = ui.made /\ ui'.cleared = ui.cleared
          /\ ui'.hasty = ui.hasty /\ ui'.orphaned = ui.orphaned
      BY <1>0, <2>1
    <2>3. ChatSends' = ChatSends BY <1>0, <2>1 DEF ChatSends
    <2> QED BY <1>0, <2>1, <2>2, <2>3, ChatIdles
  <1>11. ASSUME Chat!Free, NEW c \in calls,
                Chat!AnswerMessages(c) \/ Chat!AnswerCreate(c) \/ Chat!ShowNew(c) \/ Chat!AnswerDelete(c)
         PROVE  ChatMore'
    BY <1>11, ChatLoaded, ChatCreates, ChatShows, ChatDeleted
  <1>12. ASSUME NEW c \in calls, Chat!SendMessage(c) PROVE ChatMore' BY <1>12, ChatSent
  <1>13. CASE Chat!HandleChunk \/ Chat!EventLost BY <1>13, ChatHears, ChatMisses
  <1>14. CASE Chat!Free /\ Chat!Leave BY <1>14, ChatGone
  <1>15. CASE UNCHANGED Chat!vars BY <1>1, <1>15 DEF Chat!vars
  <1> QED
    BY <1>2, <1>3, <1>4, <1>5, <1>6, <1>7, <1>8, <1>9, <1>10, <1>11, <1>12, <1>13, <1>14, <1>15
       DEF Chat!Next, Chat!Answer, Chat!ActivityBar, Chat!Sidebar, Chat!Header, Chat!Input

\* What the invariant says of the page.
LEMMA ChatSays == ChatInv => Chat!TypeOK /\ Chat!WorkOwned /\ Chat!ShownBelongs /\ Chat!UntouchedKept
  <1> SUFFICES ASSUME ChatOwns, ChatMore PROVE Chat!TypeOK /\ Chat!WorkOwned /\ Chat!ShownBelongs /\ Chat!UntouchedKept
    BY DEF ChatInv
  <1>1. Chat!TypeOK BY DEF ChatMore, ChatTyped, Chat!TypeOK
  <1>2. Chat!WorkOwned BY ChatOwnsSays
  <1>3. \A q \in ui.content : ui.active # Nothing => q.conv = ui.active \/ q.nth \in ui.moved
    BY DEF ChatOwns, ChatTold
  <1>4. ASSUME ui.active # Nothing, ~ui.hasty, ~ui.cleared, calls = {}, Chat!UnderWay = {}
        PROVE  ui.messages = {m \in back.msgs : m.conv = ui.active}
    <2>1. ChatAll = {} BY Zenon, <1>4, ChatUnderWay
    <2> QED BY <1>4, <2>1 DEF ChatMore, ChatShown
  <1>5. Chat!ShownBelongs BY <1>3, <1>4 DEF Chat!ShownBelongs
  <1>6. Chat!UntouchedKept BY DEF ChatMore, ChatKept, Chat!UntouchedKept
  <1> QED BY <1>1, <1>2, <1>5, <1>6

-----------------------------------------------------------------------------
\* Pages.tla
\* Every page starts as its own module says.
THEOREM PageInit == Init => PageInv
  <1> SUFFICES ASSUME Init PROVE PageInv OBVIOUS
  <1>1. CASE page = "ssh" /\ SSH!Init BY <1>1, SSHInit DEF PageInv
  <1>2. CASE page = "local" /\ Local!Init BY <1>2, LocalInit DEF PageInv
  <1>3. CASE page = "browser" /\ Browser!Init BY <1>3, BrowserInit DEF PageInv
  <1>4. CASE page = "viewer" /\ Viewer!Init BY <1>4, ViewerInit DEF PageInv
  <1>5. CASE page = "transfers" /\ Transfers!Init BY <1>5, TransInit DEF PageInv
  <1>6. CASE page = "tree" /\ Tree!Init BY <1>6, TreeInit DEF PageInv
  <1>7. CASE page = "editor" /\ Editor!Init BY <1>7, EditorInit DEF PageInv
  <1>8. CASE page = "player" /\ Player!Init BY <1>8, PlayerInit DEF PageInv
  <1>9. CASE page = "tools" /\ Tools!Init BY <1>9, ToolsInit DEF PageInv
  <1>10. CASE page = "music" /\ Music!Init BY <1>10, MusicInit DEF PageInv
  <1>11. CASE page = "rows" /\ Rows!Init BY <1>11, RowsInit DEF PageInv
  <1>12. CASE page = "tables" /\ Tables!Init BY <1>12, TablesInit DEF PageInv
  <1>13. CASE page = "redis" /\ Redis!Init BY <1>13, RedisInit DEF PageInv
  <1>14. CASE page = "rest" /\ Rest!Init BY <1>14, RestInit DEF PageInv
  <1>15. CASE page = "todo" /\ Todo!Init BY <1>15, TodoInit DEF PageInv
  <1>16. CASE page = "chat" /\ Chat!Init BY <1>16, ChatInit DEF PageInv
  <1> QED
    BY <1>1, <1>2, <1>3, <1>4, <1>5, <1>6, <1>7, <1>8, <1>9, <1>10,
       <1>11, <1>12, <1>13, <1>14, <1>15, <1>16
       DEF Init

\* A step is one of the page a behaviour is about, or leaves it alone.
LEMMA PageSteps ==
  [Next]_vars =>
    /\ page' = page
    /\ page = "ssh" => [SSH!Next]_SSH!vars
    /\ page = "local" => [Local!Next]_Local!vars
    /\ page = "browser" => [Browser!Next]_Browser!vars
    /\ page = "viewer" => [Viewer!Next]_Viewer!vars
    /\ page = "transfers" => [Transfers!Next]_Transfers!vars
    /\ page = "tree" => [Tree!Next]_Tree!vars
    /\ page = "editor" => [Editor!Next]_Editor!vars
    /\ page = "player" => [Player!Next]_Player!vars
    /\ page = "tools" => [Tools!Next]_Tools!vars
    /\ page = "music" => [Music!Next]_Music!vars
    /\ page = "rows" => [Rows!Next]_Rows!vars
    /\ page = "tables" => [Tables!Next]_Tables!vars
    /\ page = "redis" => [Redis!Next]_Redis!vars
    /\ page = "rest" => [Rest!Next]_Rest!vars
    /\ page = "todo" => [Todo!Next]_Todo!vars
    /\ page = "chat" => [Chat!Next]_Chat!vars
  <1> SUFFICES ASSUME [Next]_vars
      PROVE  /\ page' = page
             /\ page = "ssh" => [SSH!Next]_SSH!vars
             /\ page = "local" => [Local!Next]_Local!vars
             /\ page = "browser" => [Browser!Next]_Browser!vars
             /\ page = "viewer" => [Viewer!Next]_Viewer!vars
             /\ page = "transfers" => [Transfers!Next]_Transfers!vars
             /\ page = "tree" => [Tree!Next]_Tree!vars
             /\ page = "editor" => [Editor!Next]_Editor!vars
             /\ page = "player" => [Player!Next]_Player!vars
             /\ page = "tools" => [Tools!Next]_Tools!vars
             /\ page = "music" => [Music!Next]_Music!vars
             /\ page = "rows" => [Rows!Next]_Rows!vars
             /\ page = "tables" => [Tables!Next]_Tables!vars
             /\ page = "redis" => [Redis!Next]_Redis!vars
             /\ page = "rest" => [Rest!Next]_Rest!vars
             /\ page = "todo" => [Todo!Next]_Todo!vars
             /\ page = "chat" => [Chat!Next]_Chat!vars
    OBVIOUS
  <1>1. CASE UNCHANGED vars
    BY <1>1 DEF vars,
       SSH!vars, Local!vars, Browser!vars, Viewer!vars, Transfers!vars, Tree!vars, Editor!vars,
       Player!vars, Tools!vars, Music!vars, Rows!vars, Tables!vars, Redis!vars, Rest!vars,
       Todo!vars, Chat!vars
  <1>2. CASE Next BY <1>2 DEF Next, On
  <1> QED BY <1>1, <1>2

\* No step of a page leaves its invariant.
THEOREM PageNext == PageInv /\ [Next]_vars => PageInv'
  <1> SUFFICES ASSUME PageInv, [Next]_vars PROVE PageInv' OBVIOUS
  <1>1. page = "ssh" => SSHInv' BY PageSteps, SSHNext DEF PageInv
  <1>2. page = "local" => LocalInv' BY PageSteps, LocalNext DEF PageInv
  <1>3. page = "browser" => BrowserInv' BY PageSteps, BrowserNext DEF PageInv
  <1>4. page = "viewer" => ViewerInv' BY PageSteps, ViewerNext DEF PageInv
  <1>5. page = "transfers" => TransInv' BY PageSteps, TransNext DEF PageInv
  <1>6. page = "tree" => TreeInv' BY PageSteps, TreeNext DEF PageInv
  <1>7. page = "editor" => EditorInv' BY PageSteps, EditorNext DEF PageInv
  <1>8. page = "player" => PlayerInv' BY PageSteps, PlayerNext DEF PageInv
  <1>9. page = "tools" => ToolsInv' BY PageSteps, ToolsNext DEF PageInv
  <1>10. page = "music" => MusicInv' BY PageSteps, MusicNext DEF PageInv
  <1>11. page = "rows" => RowsInv' BY PageSteps, RowsNext DEF PageInv
  <1>12. page = "tables" => TablesInv' BY PageSteps, TablesNext DEF PageInv
  <1>13. page = "redis" => RedisInv' BY PageSteps, RedisNext DEF PageInv
  <1>14. page = "rest" => RestInv' BY PageSteps, RestNext DEF PageInv
  <1>15. page = "todo" => TodoInv' BY PageSteps, TodoNext DEF PageInv
  <1>16. page = "chat" => ChatInv' BY PageSteps, ChatNext DEF PageInv
  <1>17. page' = page BY PageSteps
  <1> QED
    BY <1>1, <1>2, <1>3, <1>4, <1>5, <1>6, <1>7, <1>8, <1>9, <1>10,
       <1>11, <1>12, <1>13, <1>14, <1>15, <1>16, <1>17
       DEF PageInv

\* The invariant holds for any files, tables, keys, ... a page may show and any number
\* of answers under way.
THEOREM PagesInvariance == Spec => []PageInv
  BY PageInit, PageNext, PTL DEF Spec

\* No page's state ever has a shape its code cannot hold: one upload at a time, one read
\* per tab, a history that keeps its bound (MusicPlayer.tsx:60-75, RestClientView.tsx:35-60
\* and the other pages' hooks).
THEOREM PagesTypes == Spec => []PagesTypeOK
  <1>1. PageInv => PagesTypeOK
    <2> SUFFICES ASSUME PageInv PROVE PagesTypeOK OBVIOUS
    <2>1. CASE page = "ssh" BY <2>1, SSHSays DEF PageInv, PagesTypeOK
    <2>2. CASE page = "local" BY <2>2, LocalSays DEF PageInv, PagesTypeOK
    <2>3. CASE page = "browser" BY <2>3, BrowserSays DEF PageInv, PagesTypeOK
    <2>4. CASE page = "viewer" BY <2>4, ViewerSays DEF PageInv, PagesTypeOK
    <2>5. CASE page = "transfers" BY <2>5, TransSays DEF PageInv, PagesTypeOK
    <2>6. CASE page = "tree" BY <2>6, TreeSays DEF PageInv, PagesTypeOK
    <2>7. CASE page = "editor" BY <2>7, EditorSays DEF PageInv, PagesTypeOK
    <2>8. CASE page = "player" BY <2>8, PlayerSays DEF PageInv, PagesTypeOK
    <2>9. CASE page = "tools" BY <2>9, ToolsSays DEF PageInv, PagesTypeOK
    <2>10. CASE page = "music" BY <2>10, MusicSays DEF PageInv, PagesTypeOK
    <2>11. CASE page = "rows" BY <2>11, RowsSays DEF PageInv, PagesTypeOK
    <2>12. CASE page = "tables" BY <2>12, TablesSays DEF PageInv, PagesTypeOK
    <2>13. CASE page = "redis" BY <2>13, RedisSays DEF PageInv, PagesTypeOK
    <2>14. CASE page = "rest" BY <2>14, RestSays DEF PageInv, PagesTypeOK
    <2>15. CASE page = "todo" BY <2>15, TodoSays DEF PageInv, PagesTypeOK
    <2>16. CASE page = "chat" BY <2>16, ChatSays DEF PageInv, PagesTypeOK
    <2> QED
      BY <2>1, <2>2, <2>3, <2>4, <2>5, <2>6, <2>7, <2>8, <2>9, <2>10,
         <2>11, <2>12, <2>13, <2>14, <2>15, <2>16
         DEF PageInv
  <1> QED BY <1>1, PagesInvariance, PTL

\* Whatever order the answers come in, what runs behind a page has its place on it: no
\* shell, session, upload, search, sound or answer of the assistant goes on that the page
\* does not show, but for the countdown and the answers a page that was left went on with.
THEOREM WorkIsOwned == Spec => []WorkOwned
  <1>1. PageInv => WorkOwned
    BY SSHSays, LocalSays, TreeSays, TransSays, ToolsSays, PlayerSays, ChatSays
       DEF PageInv, WorkOwned
  <1> QED BY <1>1, PagesInvariance, PTL

\* No answer, late or overtaken, puts what is of one path, file, database, asset, track,
\* search, query or conversation under the name of another, but in the cases the
\* definitions of the pages set apart.
THEOREM ShownIsOfPage == Spec => []ShownBelongs
  <1>1. PageInv => ShownBelongs
    BY SSHSays, LocalSays, BrowserSays, ViewerSays, TreeSays, EditorSays, PlayerSays,
       MusicSays, RowsSays, TablesSays, RedisSays, RestSays, TodoSays, ChatSays
       DEF PageInv, ShownBelongs
  <1> QED BY <1>1, PagesInvariance, PTL

\* No page writes, imports, removes, updates, drops or renames anything but what the user
\* saw when asking for it.
THEOREM WritesMeant == Spec => []UntouchedKept
  <1>1. PageInv => UntouchedKept
    BY ViewerSays, TreeSays, MusicSays, RowsSays, TablesSays, RedisSays, TodoSays,
       ChatSays
       DEF PageInv, UntouchedKept
  <1> QED BY <1>1, PagesInvariance, PTL

\* An upload that ended keeps its outcome (useTransferQueue.ts), and saving a connection
\* changes only what was typed (ConnectionEditor.tsx), whatever step is taken when.
THEOREM OutcomesKept == Spec => StepsKeep
  <1>1. PageInv /\ [Next]_vars => [/\ page = "transfers" => Transfers!EndsOnce
                                   /\ page = "editor" => Editor!SavesOnlyTyped]_vars
    BY PageSteps, TransNext, EditorNext DEF PageInv
  <1> QED BY <1>1, PagesInvariance, PTL DEF Spec, StepsKeep

=============================================================================
