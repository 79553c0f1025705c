----------------------------- MODULE DBSessions -----------------------------
(***************************************************************************)
(* Database sessions: Connect, SwitchDatabase, Disconnect and              *)
(* DisconnectAll of PGService (bridge/pg/manager.go) with the SSH tunnel   *)
(* of bridge/pg/tunnel.go.  RedisService (bridge/redis/service.go) runs    *)
(* the same steps without a tunnel.  A handle is what sql.Open or          *)
(* NewClient returns: one for each Connect and one for each switch.        *)
(***************************************************************************)
CONSTANTS
    Sessions,   \* the Connect calls; session IDs come from a counter
    Switches,   \* the SwitchDatabase calls
    Tunnelled,  \* the sessions connected through an SSH tunnel
    Conns,      \* connections the pools open through a tunnel
    None

Handles == Sessions \cup Switches

ASSUME HandlesAssumption ==
    /\ Sessions \cap Switches = {}
    /\ None \notin Handles
    /\ Sessions \cap {"idle", "looping", "returned"} = {}
ASSUME TunnelledAssumption == Tunnelled \subseteq Sessions

VARIABLES
    connect,    \* how far each Connect has got
    sessions,   \* the sessions map
    db,         \* Session.DB
    handle,     \* each handle: not opened, open, closed
    switch,     \* how far each SwitchDatabase has got
    target,     \* the session it switches
    oldDB,      \* the handle it has read to close
    teardown,   \* how far a removed session, or a failed Connect, is torn down
    drain,      \* DisconnectAll: not called, looping, at a session, returned
    done,       \* the tunnels whose done channel is closed
    listener,   \* SSHTunnel.listener
    sshClient,  \* SSHTunnel.sshClient
    acceptor,   \* the accept loop of each tunnel
    conn,       \* the handler of each tunnelled connection
    via         \* the session whose tunnel it uses

vars == <<connect, sessions, db, handle, switch, target, oldDB, teardown, drain,
          done, listener, sshClient, acceptor, conn, via>>
switchVars == <<switch, target, oldDB>>
connVars == <<acceptor, conn, via>>
tunnelVars == <<done, listener, sshClient>>

Init ==
    /\ connect = [s \in Sessions |-> "idle"]
    /\ sessions = {}
    /\ db = [s \in Sessions |-> None]
    /\ handle = [h \in Handles |-> "none"]
    /\ switch = [x \in Switches |-> "idle"]
    /\ target = [x \in Switches |-> None]
    /\ oldDB = [x \in Switches |-> None]
    /\ teardown = [s \in Sessions |-> "no"]
    /\ drain = "idle"
    /\ done = {}
    /\ listener = [s \in Sessions |-> "none"]
    /\ sshClient = [s \in Sessions |-> "none"]
    /\ acceptor = [s \in Sessions |-> "none"]
    /\ conn = [c \in Conns |-> "none"]
    /\ via = [c \in Conns |-> None]

-----------------------------------------------------------------------------
(* Connect, ConnectByAssetViaSSH.                                           *)

\* What is left to tear down once the handle is closed.
AfterDB(s) == IF s \in Tunnelled THEN "done" ELSE "closed"

\* A createSSHTunnel that fails leaves nothing behind and is a stuttering step.
CreateTunnel(s) ==
    /\ s \in Tunnelled
    /\ connect[s] = "idle"
    /\ connect' = [connect EXCEPT ![s] = "tunnel"]
    /\ listener' = [listener EXCEPT ![s] = "open"]
    /\ sshClient' = [sshClient EXCEPT ![s] = "up"]
    /\ acceptor' = [acceptor EXCEPT ![s] = "accept"]
    /\ UNCHANGED <<sessions, db, handle, switchVars, teardown, drain, done, conn, via>>

Open(s) ==
    /\ connect[s] = IF s \in Tunnelled THEN "tunnel" ELSE "idle"
    /\ connect' = [connect EXCEPT ![s] = "opened"]
    /\ db' = [db EXCEPT ![s] = s]
    /\ handle' = [handle EXCEPT ![s] = "open"]
    /\ UNCHANGED <<sessions, switchVars, teardown, drain, tunnelVars, connVars>>

\* sql.Open rejects the connection string.
OpenFails(s) ==
    /\ connect[s] = IF s \in Tunnelled THEN "tunnel" ELSE "idle"
    /\ connect' = [connect EXCEPT ![s] = "failed"]
    /\ teardown' = [teardown EXCEPT ![s] = AfterDB(s)]
    /\ UNCHANGED <<sessions, db, handle, switchVars, drain, tunnelVars, connVars>>

PingFails(s) ==
    /\ connect[s] = "opened"
    /\ connect' = [connect EXCEPT ![s] = "failed"]
    /\ teardown' = [teardown EXCEPT ![s] = "db"]
    /\ UNCHANGED <<sessions, db, handle, switchVars, drain, tunnelVars, connVars>>

Register(s) ==
    /\ connect[s] = "opened"
    /\ connect' = [connect EXCEPT ![s] = "returned"]
    /\ sessions' = sessions \cup {s}
    /\ UNCHANGED <<db, handle, switchVars, teardown, drain, tunnelVars, connVars>>

-----------------------------------------------------------------------------
(* SwitchDatabase: look the session up under the lock, open and ping a new  *)
(* handle, read sess.DB after the lock was given up, put the new handle in  *)
(* its place, close what was read.                                          *)

SwitchLookup(x, s) ==
    /\ switch[x] = "idle"
    /\ s \in sessions
    /\ switch' = [switch EXCEPT ![x] = "looked"]
    /\ target' = [target EXCEPT ![x] = s]
    /\ UNCHANGED <<connect, sessions, db, handle, oldDB, teardown, drain, tunnelVars, connVars>>

SwitchOpens(x) ==
    /\ switch[x] = "looked"
    /\ switch' = [switch EXCEPT ![x] = "opened"]
    /\ handle' = [handle EXCEPT ![x] = "open"]
    /\ UNCHANGED <<connect, sessions, db, target, oldDB, teardown, drain, tunnelVars, connVars>>

\* The new handle is closed again.
SwitchPingFails(x) ==
    /\ switch[x] = "opened"
    /\ switch' = [switch EXCEPT ![x] = "failed"]
    /\ handle' = [handle EXCEPT ![x] = "closed"]
    /\ UNCHANGED <<connect, sessions, db, target, oldDB, teardown, drain, tunnelVars, connVars>>

SwitchReadsOld(x) ==
    /\ switch[x] = "opened"
    /\ switch' = [switch EXCEPT ![x] = "read"]
    /\ oldDB' = [oldDB EXCEPT ![x] = db[target[x]]]
    /\ UNCHANGED <<connect, sessions, db, handle, target, teardown, drain, tunnelVars, connVars>>

SwitchSwaps(x) ==
    /\ switch[x] = "read"
    /\ switch' = [switch EXCEPT ![x] = "swapped"]
    /\ db' = [db EXCEPT ![target[x]] = x]
    /\ UNCHANGED <<connect, sessions, handle, target, oldDB, teardown, drain, tunnelVars, connVars>>

\* Mutant: the close uses sess.DB, which the switch has just replaced.
SwitchClosesCurrent(x) ==
    /\ switch[x] = "swapped"
    /\ switch' = [switch EXCEPT ![x] = "done"]
    /\ handle' = [handle EXCEPT ![db[target[x]]] = "closed"]
    /\ UNCHANGED <<connect, sessions, db, target, oldDB, teardown, drain, tunnelVars, connVars>>

\* Mutant: the old handle is closed only while the session is listed.
SwitchClosesOldIfListed(x) ==
    /\ switch[x] = "swapped"
    /\ switch' = [switch EXCEPT ![x] = "done"]
    /\ handle' = IF target[x] \in sessions THEN [handle EXCEPT ![oldDB[x]] = "closed"] ELSE handle
    /\ UNCHANGED <<connect, sessions, db, target, oldDB, teardown, drain, tunnelVars, connVars>>

\* Close on a closed handle does nothing.
SwitchClosesOld(x) ==
    /\ switch[x] = "swapped"
    /\ switch' = [switch EXCEPT ![x] = "done"]
    /\ handle' = [handle EXCEPT ![oldDB[x]] = "closed"]
    /\ UNCHANGED <<connect, sessions, db, target, oldDB, teardown, drain, tunnelVars, connVars>>

-----------------------------------------------------------------------------
(* Disconnect and DisconnectAll: remove under the lock, then close the      *)
(* handle and the tunnel.                                                   *)

\* Mutant: the session is torn down and stays in the map.
DisconnectKeepsListed(s) ==
    /\ s \in sessions
    /\ teardown' = [teardown EXCEPT ![s] = "db"]
    /\ UNCHANGED <<connect, sessions, db, handle, switchVars, drain, tunnelVars, connVars>>

Disconnect(s) ==
    /\ s \in sessions
    /\ sessions' = sessions \ {s}
    /\ teardown' = [teardown EXCEPT ![s] = "db"]
    /\ UNCHANGED <<connect, db, handle, switchVars, drain, tunnelVars, connVars>>

DisconnectAll ==
    /\ drain = "idle"
    /\ drain' = "looping"
    /\ sessions' = {}
    /\ teardown' = [s \in Sessions |-> IF s \in sessions THEN "queued" ELSE teardown[s]]
    /\ UNCHANGED <<connect, db, handle, switchVars, tunnelVars, connVars>>

\* The sessions removed together are torn down one after the other.
DrainNext(s) ==
    /\ drain = "looping"
    /\ teardown[s] = "queued"
    /\ drain' = s
    /\ teardown' = [teardown EXCEPT ![s] = "db"]
    /\ UNCHANGED <<connect, sessions, db, handle, switchVars, tunnelVars, connVars>>

DrainContinues ==
    /\ drain \in Sessions
    /\ teardown[drain] = "closed"
    /\ drain' = "looping"
    /\ UNCHANGED <<connect, sessions, db, handle, switchVars, teardown, tunnelVars, connVars>>

DrainReturns ==
    /\ drain = "looping"
    /\ \A s \in Sessions : teardown[s] # "queued"
    /\ drain' = "returned"
    /\ UNCHANGED <<connect, sessions, db, handle, switchVars, teardown, tunnelVars, connVars>>

CloseDB(s) ==
    /\ teardown[s] = "db"
    /\ handle' = [handle EXCEPT ![db[s]] = "closed"]
    /\ teardown' = [teardown EXCEPT ![s] = AfterDB(s)]
    /\ UNCHANGED <<connect, sessions, db, switchVars, drain, tunnelVars, connVars>>

\* Mutant: Close takes the closed listener for a sufficient signal.
CloseDoneForgotten(s) ==
    /\ teardown[s] = "done"
    /\ teardown' = [teardown EXCEPT ![s] = "listener"]
    /\ UNCHANGED <<connect, sessions, db, handle, switchVars, drain, tunnelVars, connVars>>

CloseDone(s) ==
    /\ teardown[s] = "done"
    /\ done' = done \cup {s}
    /\ teardown' = [teardown EXCEPT ![s] = "listener"]
    /\ UNCHANGED <<connect, sessions, db, handle, switchVars, drain, listener, sshClient, connVars>>

CloseListener(s) ==
    /\ teardown[s] = "listener"
    /\ listener' = [listener EXCEPT ![s] = "closed"]
    /\ teardown' = [teardown EXCEPT ![s] = "wait"]
    /\ UNCHANGED <<connect, sessions, db, handle, switchVars, drain, done, sshClient, connVars>>

\* Mutant: only the accept loop is counted, not its handlers.
WaitedAcceptorOnly(s) ==
    /\ teardown[s] = "wait"
    /\ acceptor[s] = "ended"
    /\ teardown' = [teardown EXCEPT ![s] = "client"]
    /\ UNCHANGED <<connect, sessions, db, handle, switchVars, drain, tunnelVars, connVars>>

\* The wait group counts the accept loop and every handler.
Waited(s) ==
    /\ teardown[s] = "wait"
    /\ acceptor[s] = "ended"
    /\ \A c \in Conns : via[c] = s => conn[c] = "ended"
    /\ teardown' = [teardown EXCEPT ![s] = "client"]
    /\ UNCHANGED <<connect, sessions, db, handle, switchVars, drain, tunnelVars, connVars>>

CloseClient(s) ==
    /\ teardown[s] = "client"
    /\ sshClient' = [sshClient EXCEPT ![s] = "closed"]
    /\ teardown' = [teardown EXCEPT ![s] = "closed"]
    /\ UNCHANGED <<connect, sessions, db, handle, switchVars, drain, done, listener, connVars>>

-----------------------------------------------------------------------------
(* The tunnel's accept loop and its handlers.                               *)

HandlesOf(s) == {s} \cup {x \in Switches : target[x] = s}

\* A pool opens a connection; the listener is still there to accept it.
Accept(c, s) ==
    /\ conn[c] = "none"
    /\ acceptor[s] = "accept"
    /\ listener[s] = "open"
    /\ \E h \in HandlesOf(s) : handle[h] = "open"
    /\ conn' = [conn EXCEPT ![c] = "dial"]
    /\ via' = [via EXCEPT ![c] = s]
    /\ UNCHANGED <<connect, sessions, db, handle, switchVars, teardown, drain, tunnelVars, acceptor>>

\* Accept fails; without done the loop tries again.
AcceptFails(s) ==
    /\ acceptor[s] = "accept"
    /\ listener[s] = "closed"
    /\ acceptor' = IF s \in done THEN [acceptor EXCEPT ![s] = "ended"] ELSE acceptor
    /\ UNCHANGED <<connect, sessions, db, handle, switchVars, teardown, drain, tunnelVars, conn, via>>

\* sshClient.Dial answers: the remote end is reached or not.
Dial(c) ==
    /\ conn[c] = "dial"
    /\ \E answer \in {"copy", "ended"} : conn' = [conn EXCEPT ![c] = answer]
    /\ UNCHANGED <<connect, sessions, db, handle, switchVars, teardown, drain, tunnelVars, acceptor, via>>

\* Either side ends the stream.
CopyEnds(c) ==
    /\ conn[c] = "copy"
    /\ conn' = [conn EXCEPT ![c] = "ended"]
    /\ UNCHANGED <<connect, sessions, db, handle, switchVars, teardown, drain, tunnelVars, acceptor, via>>

LeaveOnDone(c) ==
    /\ conn[c] = "copy"
    /\ via[c] \in done
    /\ conn' = [conn EXCEPT ![c] = "ended"]
    /\ UNCHANGED <<connect, sessions, db, handle, switchVars, teardown, drain, tunnelVars, acceptor, via>>

-----------------------------------------------------------------------------
Closes(s) == CloseDB(s) \/ CloseDone(s) \/ CloseListener(s) \/ Waited(s) \/ CloseClient(s)
Drains == DrainContinues \/ DrainReturns \/ \E s \in Sessions : DrainNext(s)

\* Nothing is left to do: every call has returned.
Finished ==
    /\ drain = "returned"
    /\ \A s \in Sessions : connect[s] = "failed" \/ (connect[s] = "returned" /\ s \notin sessions)
    /\ \A s \in Sessions : teardown[s] = "closed"
    /\ UNCHANGED vars

Next ==
    \/ \E s \in Sessions :
        \/ CreateTunnel(s) \/ Open(s) \/ OpenFails(s) \/ PingFails(s) \/ Register(s)
        \/ Disconnect(s) \/ Closes(s) \/ AcceptFails(s)
        \/ \E c \in Conns : Accept(c, s)
        \/ \E x \in Switches : SwitchLookup(x, s)
    \/ \E x \in Switches :
        \/ SwitchOpens(x) \/ SwitchPingFails(x) \/ SwitchReadsOld(x)
        \/ SwitchSwaps(x) \/ SwitchClosesOld(x)
    \/ DisconnectAll
    \/ Drains
    \/ \E c \in Conns : Dial(c) \/ CopyEnds(c) \/ LeaveOnDone(c)
    \/ Finished

\* The scheduler runs every goroutine, and the SSH server answers a dial.
\* Nothing makes a caller call, and a healthy stream need not end.
Fairness ==
    /\ \A s \in Sessions : WF_vars(Closes(s)) /\ WF_vars(AcceptFails(s))
    /\ \A c \in Conns : WF_vars(Dial(c)) /\ WF_vars(LeaveOnDone(c))
    /\ WF_vars(Drains)

SafetySpec == Init /\ [][Next]_vars

Spec == SafetySpec /\ Fairness

-----------------------------------------------------------------------------
(* Properties.                                                              *)

TypeOK ==
    /\ connect \in [Sessions -> {"idle", "tunnel", "opened", "failed", "returned"}]
    /\ sessions \subseteq Sessions
    /\ db \in [Sessions -> Handles \cup {None}]
    /\ handle \in [Handles -> {"none", "open", "closed"}]
    /\ switch \in [Switches -> {"idle", "looked", "opened", "failed", "read", "swapped", "done"}]
    /\ target \in [Switches -> Sessions \cup {None}]
    /\ oldDB \in [Switches -> Handles \cup {None}]
    /\ teardown \in [Sessions -> {"no", "queued", "db", "done", "listener", "wait", "client", "closed"}]
    /\ drain \in {"idle", "looping", "returned"} \cup Sessions
    /\ done \subseteq Tunnelled
    /\ listener \in [Sessions -> {"none", "open", "closed"}]
    /\ sshClient \in [Sessions -> {"none", "up", "closed"}]
    /\ acceptor \in [Sessions -> {"none", "accept", "ended"}]
    /\ conn \in [Conns -> {"none", "dial", "copy", "ended"}]
    /\ via \in [Conns -> Sessions \cup {None}]

\* The stages agree: a listed session is connected and not being torn down, so
\* its tunnel is closed once (a second close of done would panic); the listener
\* closes after done, the client after the accept loop and its handlers have ended.
StagesFit ==
    /\ \A s \in sessions : connect[s] = "returned" /\ teardown[s] = "no"
    /\ \A s \in Sessions :
        /\ teardown[s] # "no" => connect[s] \in {"failed", "returned"}
        /\ teardown[s] \in {"done", "listener", "wait", "client"} => s \in Tunnelled
        /\ s \in done <=> s \in Tunnelled /\ teardown[s] \in {"listener", "wait", "client", "closed"}

TunnelsFit ==
    /\ \A s \in Sessions :
        /\ listener[s] = "closed" => s \in done
        /\ sshClient[s] = "closed" => teardown[s] = "closed"
        /\ acceptor[s] = "ended" => s \in done
        /\ acceptor[s] = "accept" => s \in Tunnelled
        /\ s \in Tunnelled /\ connect[s] # "idle" =>
              listener[s] # "none" /\ sshClient[s] # "none" /\ acceptor[s] # "none"
        /\ acceptor[s] # "none" => sshClient[s] # "none"
        /\ s \in Tunnelled /\ teardown[s] \in {"client", "closed"} =>
              acceptor[s] = "ended" /\ \A c \in Conns : via[c] = s => conn[c] = "ended"
    /\ \A c \in Conns : conn[c] # "none" => via[c] \in Sessions /\ acceptor[via[c]] # "none"

\* The switches of a session that have put their handle in place, and the handles
\* that were in place at some time.
Swapped(s) == {x \in Switches : target[x] = s /\ switch[x] \in {"swapped", "done"}}
Served(s) == {s} \cup Swapped(s)

\* Who holds which handle: the one in place is the session's own or that of a switch
\* that has swapped, and open as long as the session is listed; a switch that has read
\* the old one will close that and no other, and it is not the one in place any more.
HandlesFit ==
    /\ \A s \in Sessions :
        /\ db[s] \in Served(s) \cup {None}
        /\ connect[s] \in {"idle", "tunnel"} => db[s] = None
        /\ db[s] = None => handle[s] = "none" /\ connect[s] \notin {"opened", "returned"}
        /\ connect[s] = "opened" => db[s] = s /\ handle[s] = "open"
        /\ s \in sessions => handle[db[s]] = "open"
    /\ \A x \in Switches :
        /\ switch[x] = "idle" => target[x] = None
        /\ switch[x] # "idle" => target[x] \in Sessions /\ connect[target[x]] = "returned"
        /\ switch[x] \in {"opened", "read"} => handle[x] = "open"
        /\ switch[x] = "failed" => handle[x] = "closed"
        /\ switch[x] \in {"read", "swapped", "done"} => oldDB[x] \in Served(target[x]) \ {x}
        /\ switch[x] \in {"swapped", "done"} => oldDB[x] # db[target[x]]
        /\ switch[x] = "done" => handle[oldDB[x]] = "closed"

\* Every handle that was replaced has a switch that closes it, unless two switches
\* read the same one.
ReplacedFit == \A s \in Sessions :
    \/ \E x, y \in Swapped(s) : x # y /\ oldDB[x] = oldDB[y]
    \/ \A h \in Served(s) : db[s] # None /\ h # db[s] => \E x \in Swapped(s) : oldDB[x] = h

IInv == TypeOK /\ StagesFit /\ TunnelsFit /\ HandlesFit /\ ReplacedFit

\* A session a query can find has an open handle and a working tunnel, however
\* many switches of it run at once: the handle a switch closes, read outside
\* the lock, is never the one in place.
ListedIsOpen == \A s \in sessions :
    /\ handle[db[s]] = "open"
    /\ s \in Tunnelled => listener[s] = "open" /\ sshClient[s] = "up" /\ acceptor[s] = "accept"

\* A handler of the tunnel never dials or copies through a closed SSH client:
\* Close waits for all of them, those accepted while it runs included.
HandlersHaveClient == \A c \in Conns :
    conn[c] \in {"dial", "copy"} => sshClient[via[c]] = "up"

SwitchesOf(s) == {x \in Switches : target[x] = s}
Replaced(s) == {x \in SwitchesOf(s) : switch[x] = "done"}

\* When the switches of a session are over and no two of them read the same
\* old handle, every handle but the one in place is closed.  Two that read the
\* same one leave the handle of the first open for good.
RacelessSwitchesCloseAll == \A s \in Sessions :
    /\ \A x \in SwitchesOf(s) : switch[x] \in {"done", "failed"}
    /\ \A x, y \in Replaced(s) : x # y => oldDB[x] # oldDB[y]
    => \A h \in HandlesOf(s) \ {db[s]} : handle[h] # "open"

\* A connect that failed and a session that was removed, by Disconnect or by
\* DisconnectAll, is torn down to the end: handlers that wait on the tunnel
\* let go of it, and Close does not wait for ever.
GoneIsClosed == \A s \in Sessions :
    connect[s] = "failed" \/ (connect[s] = "returned" /\ s \notin sessions)
        ~> teardown[s] = "closed"
=============================================================================
