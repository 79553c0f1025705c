---------------------------- MODULE SSHSessions ----------------------------
(***************************************************************************)
(* The SSH session manager, bridge/ssh/session.go: terminal sessions kept  *)
(* in one map under Manager.mu, several of which may share one SSH client. *)
(*                                                                         *)
(* A call is one run of Connect or OpenNewShell; it opens at most one      *)
(* shell, so the call also names the *Session it makes, and a Connect call *)
(* names the *ssh.Client it dials.  The map lock is what makes a step      *)
(* atomic: dialling, opening a shell, inserting it, starting its           *)
(* goroutines, and the closes that follow a delete are separate steps.     *)
(***************************************************************************)
EXTENDS FiniteSets

CONSTANTS
    Calls,      \* the Connect and OpenNewShell calls of a run
    Ids,        \* the session IDs time.Now().UnixMilli() can produce
    NoCall, NoId,
    UniqueIds,  \* TRUE: no two shells are opened in the same millisecond
    ShutsDown   \* TRUE: the application shuts down at some point

ASSUME NoCallAssumption == NoCall \notin Calls
ASSUME NoIdAssumption == NoId \notin Ids
ASSUME UniqueIdsAssumption == UniqueIds \in BOOLEAN
ASSUME ShutsDownAssumption == ShutsDown \in BOOLEAN

VARIABLES
    pc,         \* how far each call has got
    client,     \* the client a session was opened on: the call that dialled it
    id,         \* Session.ID
    sessions,   \* Manager.sessions
    conn,       \* the client each Connect dialled
    shell,      \* the remote shell of each session
    waiter,     \* the waitSession goroutine of each session
    owes,       \* what the Disconnect that removed a session has yet to close
    drain,      \* DisconnectAll: not called, looping, returned
    ids,        \* DisconnectAll: the ids slice it took under the lock
    left,       \* DisconnectAll: the part of ids it has still to disconnect
    current     \* DisconnectAll: the session whose closes it is running

vars == <<pc, client, id, sessions, conn, shell, waiter, owes,
          drain, ids, left, current>>
callVars == <<pc, client, id>>
drainVars == <<drain, ids, left, current>>

PCs == {"idle", "dialed", "looked", "opened", "inserted", "returned", "failed"}
ConnStates == {"none", "up", "lost", "closed"}
ShellStates == {"none", "running", "closing", "ended"}
WaiterStates == {"none", "waiting", "emitted", "done"}

Init ==
    /\ pc = [c \in Calls |-> "idle"]
    /\ client = [c \in Calls |-> NoCall]
    /\ id = [c \in Calls |-> NoId]
    /\ sessions = [i \in Ids |-> NoCall]
    /\ conn = [c \in Calls |-> "none"]
    /\ shell = [c \in Calls |-> "none"]
    /\ waiter = [c \in Calls |-> "none"]
    /\ owes = [c \in Calls |-> {}]
    /\ drain = "idle"
    /\ ids = {}
    /\ left = {}
    /\ current = NoCall

Registered(c) == \E i \in Ids : sessions[i] = c

-----------------------------------------------------------------------------
(* Connect and OpenNewShell.  A Connect that fails before it has a client   *)
(* (no asset, bad key, host unreachable) and an OpenNewShell of an unknown  *)
(* session change nothing and are stuttering steps.                         *)

Dial(c) ==
    /\ pc[c] = "idle"
    /\ pc' = [pc EXCEPT ![c] = "dialed"]
    /\ client' = [client EXCEPT ![c] = c]
    /\ conn' = [conn EXCEPT ![c] = "up"]
    /\ UNCHANGED <<id, sessions, shell, waiter, owes, drainVars>>

LookUp(c, i) ==
    /\ pc[c] = "idle"
    /\ sessions[i] # NoCall
    /\ pc' = [pc EXCEPT ![c] = "looked"]
    /\ client' = [client EXCEPT ![c] = client[sessions[i]]]
    /\ UNCHANGED <<id, sessions, conn, shell, waiter, owes, drainVars>>

\* The ID of a new session is its asset and the millisecond it is built in.
Mintable(i) == UniqueIds => \A d \in Calls : id[d] # i

OpenShell(c, i) ==
    /\ pc[c] \in {"dialed", "looked"}
    /\ conn[client[c]] = "up"
    /\ Mintable(i)
    /\ pc' = [pc EXCEPT ![c] = "opened"]
    /\ id' = [id EXCEPT ![c] = i]
    /\ shell' = [shell EXCEPT ![c] = "running"]
    /\ UNCHANGED <<client, sessions, conn, waiter, owes, drainVars>>

\* Mutant: a refused shell closes the client even when it is shared.
OpenShellFailsClosingShared(c) ==
    /\ pc[c] \in {"dialed", "looked"}
    /\ pc' = [pc EXCEPT ![c] = "failed"]
    /\ conn' = [conn EXCEPT ![client[c]] = "closed"]
    /\ UNCHANGED <<client, id, sessions, shell, waiter, owes, drainVars>>

\* The server may refuse a channel, a PTY or the shell at any time.  Connect
\* closes the client it dialled; OpenNewShell leaves the shared one alone.
OpenShellFails(c) ==
    /\ pc[c] \in {"dialed", "looked"}
    /\ pc' = [pc EXCEPT ![c] = "failed"]
    /\ conn' = IF pc[c] = "dialed" THEN [conn EXCEPT ![c] = "closed"] ELSE conn
    /\ UNCHANGED <<client, id, sessions, shell, waiter, owes, drainVars>>

Insert(c) ==
    /\ pc[c] = "opened"
    /\ pc' = [pc EXCEPT ![c] = "inserted"]
    /\ sessions' = [sessions EXCEPT ![id[c]] = c]
    /\ UNCHANGED <<client, id, conn, shell, waiter, owes, drainVars>>

\* Mutant: the session is put in the map once more after its goroutines start.
StartGoroutinesInserting(c) ==
    /\ pc[c] = "inserted"
    /\ pc' = [pc EXCEPT ![c] = "returned"]
    /\ waiter' = [waiter EXCEPT ![c] = "waiting"]
    /\ sessions' = [sessions EXCEPT ![id[c]] = c]
    /\ UNCHANGED <<client, id, conn, shell, owes, drainVars>>

\* go readOutput twice, go waitSession, return sess.ID
StartGoroutines(c) ==
    /\ pc[c] = "inserted"
    /\ pc' = [pc EXCEPT ![c] = "returned"]
    /\ waiter' = [waiter EXCEPT ![c] = "waiting"]
    /\ UNCHANGED <<client, id, sessions, conn, shell, owes, drainVars>>

-----------------------------------------------------------------------------
(* Disconnect: one step under the lock, then the closes outside it.         *)

\* Mutant: the check counts the session that is being removed.
ClientUsedByItself(i) ==
    \E j \in Ids : /\ sessions[j] # NoCall
                   /\ client[sessions[j]] = client[sessions[i]]

\* Mutant: the check looks for another session with the same ID.
ClientUsedUnderSameId(i) ==
    \E j \in Ids \ {i} : /\ sessions[j] # NoCall
                         /\ id[sessions[j]] = id[sessions[i]]

ClientStillUsed(i) ==
    \E j \in Ids \ {i} : /\ sessions[j] # NoCall
                         /\ client[sessions[j]] = client[sessions[i]]

\* Mutant: the shell is left to end with its client.
DisconnectLeavingShell(i) ==
    IF sessions[i] = NoCall
    THEN UNCHANGED <<sessions, owes>>
    ELSE /\ sessions' = [sessions EXCEPT ![i] = NoCall]
         /\ owes' = [owes EXCEPT ![sessions[i]] =
                        IF ClientStillUsed(i) THEN {} ELSE {"client"}]

Disconnect(i) ==
    IF sessions[i] = NoCall
    THEN UNCHANGED <<sessions, owes>>
    ELSE /\ sessions' = [sessions EXCEPT ![i] = NoCall]
         /\ owes' = [owes EXCEPT ![sessions[i]] =
                        {"shell"} \cup IF ClientStillUsed(i) THEN {} ELSE {"client"}]

\* The frontend's SSHDisconnect; of an unknown ID it changes nothing.
UserDisconnect(i) ==
    /\ sessions[i] # NoCall
    /\ Disconnect(i)
    /\ UNCHANGED <<callVars, conn, shell, waiter, drainVars>>

\* Mutant: session.Close() is not called.
CloseShellCancelOnly(c) ==
    /\ "shell" \in owes[c]
    /\ owes' = [owes EXCEPT ![c] = @ \ {"shell"}]
    /\ UNCHANGED <<callVars, sessions, conn, shell, waiter, drainVars>>

\* sess.cancel(), stdin.Close(), session.Close(): the server is asked to end
\* the shell, which it may have done already.
CloseShell(c) ==
    /\ "shell" \in owes[c]
    /\ owes' = [owes EXCEPT ![c] = @ \ {"shell"}]
    /\ shell' = [shell EXCEPT ![c] = IF @ = "running" THEN "closing" ELSE @]
    /\ UNCHANGED <<callVars, sessions, conn, waiter, drainVars>>

\* Every channel of a client ends with it.
EndShellsOf(k) ==
    shell' = [d \in Calls |-> IF client[d] = k /\ shell[d] # "none"
                              THEN "ended" ELSE shell[d]]

\* Mutant: a client whose connection was lost is not closed.
CloseClientIfUp(c) ==
    /\ owes[c] = {"client"}
    /\ conn[client[c]] = "up"
    /\ owes' = [owes EXCEPT ![c] = {}]
    /\ conn' = [conn EXCEPT ![client[c]] = "closed"]
    /\ EndShellsOf(client[c])
    /\ UNCHANGED <<callVars, sessions, waiter, drainVars>>

CloseClient(c) ==
    /\ owes[c] = {"client"}
    /\ owes' = [owes EXCEPT ![c] = {}]
    /\ conn' = [conn EXCEPT ![client[c]] = "closed"]
    /\ EndShellsOf(client[c])
    /\ UNCHANGED <<callVars, sessions, waiter, drainVars>>

-----------------------------------------------------------------------------
(* waitSession: Wait returns when the shell has ended, the closed event is  *)
(* emitted, and the session is disconnected by its ID.                      *)

WaitReturns(c) ==
    /\ waiter[c] = "waiting"
    /\ shell[c] = "ended"
    /\ waiter' = [waiter EXCEPT ![c] = "emitted"]
    /\ UNCHANGED <<callVars, sessions, conn, shell, owes, drainVars>>

\* Mutant: the event is emitted and the session stays in the map, as in
\* bridge/local/terminal.go:110-113.
WaiterOnlyEmits(c) ==
    /\ waiter[c] = "emitted"
    /\ waiter' = [waiter EXCEPT ![c] = "done"]
    /\ UNCHANGED <<callVars, sessions, conn, shell, owes, drainVars>>

WaiterDisconnects(c) ==
    /\ waiter[c] = "emitted"
    /\ waiter' = [waiter EXCEPT ![c] = "done"]
    /\ Disconnect(id[c])
    /\ UNCHANGED <<callVars, conn, shell, drainVars>>

-----------------------------------------------------------------------------
(* DisconnectAll, called once, by Service.Shutdown.                         *)

DisconnectAll ==
    /\ ShutsDown
    /\ drain = "idle"
    /\ drain' = "looping"
    /\ ids' = {i \in Ids : sessions[i] # NoCall}
    /\ left' = ids'
    /\ UNCHANGED <<callVars, sessions, conn, shell, waiter, owes, current>>

\* Disconnect(id) returns after its closes, so the next one waits for them.
CurrentClosed == \A c \in Calls : current = c => owes[c] = {}

\* Mutant: an ID that somebody else disconnected is tried again.
DisconnectNextRetrying(i) ==
    /\ drain = "looping"
    /\ CurrentClosed
    /\ i \in left
    /\ left' = IF sessions[i] = NoCall THEN left ELSE left \ {i}
    /\ current' = sessions[i]
    /\ Disconnect(i)
    /\ UNCHANGED <<callVars, conn, shell, waiter, drain, ids>>

DisconnectNext(i) ==
    /\ drain = "looping"
    /\ CurrentClosed
    /\ i \in left
    /\ left' = left \ {i}
    /\ current' = sessions[i]
    /\ Disconnect(i)
    /\ UNCHANGED <<callVars, conn, shell, waiter, drain, ids>>

DisconnectAllReturns ==
    /\ drain = "looping"
    /\ CurrentClosed
    /\ left = {}
    /\ drain' = "returned"
    /\ current' = NoCall
    /\ UNCHANGED <<callVars, sessions, conn, shell, waiter, owes, ids, left>>

-----------------------------------------------------------------------------
(* The server and the network, as golang.org/x/crypto/ssh reports them.     *)

\* The user's shell exits, or the server confirms session.Close().
ShellEnds(c) ==
    /\ shell[c] \in {"running", "closing"}
    /\ shell' = [shell EXCEPT ![c] = "ended"]
    /\ UNCHANGED <<callVars, sessions, conn, waiter, owes, drainVars>>

ConnectionLost(k) ==
    /\ conn[k] = "up"
    /\ conn' = [conn EXCEPT ![k] = "lost"]
    /\ EndShellsOf(k)
    /\ UNCHANGED <<callVars, sessions, waiter, owes, drainVars>>

-----------------------------------------------------------------------------
Next ==
    \/ \E c \in Calls :
          \/ Dial(c)
          \/ \E i \in Ids : LookUp(c, i) \/ OpenShell(c, i)
          \/ OpenShellFails(c)
          \/ Insert(c)
          \/ StartGoroutines(c)
          \/ CloseShell(c)
          \/ CloseClient(c)
          \/ WaitReturns(c)
          \/ WaiterDisconnects(c)
          \/ ShellEnds(c)
          \/ ConnectionLost(c)
    \/ \E i \in Ids : UserDisconnect(i) \/ DisconnectNext(i)
    \/ DisconnectAll
    \/ DisconnectAllReturns

SafetySpec == Init /\ [][Next]_vars

\* Goroutines that can run do run, an opening shell is answered or refused, and
\* a server that was asked to close a channel confirms it or loses the
\* connection.  Users, and shells nobody closed, are under no obligation.
Fairness ==
    /\ \A c \in Calls :
          /\ WF_vars((\E i \in Ids : OpenShell(c, i)) \/ OpenShellFails(c))
          /\ WF_vars(Insert(c))
          /\ WF_vars(StartGoroutines(c))
          /\ WF_vars(CloseShell(c))
          /\ WF_vars(CloseClient(c))
          /\ WF_vars(WaitReturns(c))
          /\ WF_vars(WaiterDisconnects(c))
          /\ WF_vars(shell[c] = "closing" /\ ShellEnds(c))
    /\ WF_vars((\E i \in Ids : DisconnectNext(i)) \/ DisconnectAllReturns)

Spec == SafetySpec /\ Fairness

-----------------------------------------------------------------------------
TypeOK ==
    /\ pc \in [Calls -> PCs]
    /\ client \in [Calls -> Calls \cup {NoCall}]
    /\ id \in [Calls -> Ids \cup {NoId}]
    /\ sessions \in [Ids -> Calls \cup {NoCall}]
    /\ conn \in [Calls -> ConnStates]
    /\ shell \in [Calls -> ShellStates]
    /\ waiter \in [Calls -> WaiterStates]
    /\ owes \in [Calls -> SUBSET {"shell", "client"}]
    /\ drain \in {"idle", "looping", "returned"}
    /\ ids \in SUBSET Ids
    /\ left \in SUBSET ids
    /\ current \in Calls \cup {NoCall}

(* Properties. *)

\* A client the manager dialled and has not closed.
Held(k) == conn[k] \in {"up", "lost"}

\* A Connect that has its client and has not yet put its session in the map.
Connecting(k) == client[k] = k /\ pc[k] \in {"dialed", "opened"}

\* No client leaks: a client that is not closed belongs to a Connect under way,
\* to a session in the map, or to a Disconnect that is about to close it.
\* Several sessions share a client and only the last one out closes it
\* (Disconnect, session.go:322-341).
NoClientLeak ==
    \A k \in Calls :
        Held(k) => \/ Connecting(k)
                   \/ \E c \in Calls :
                         /\ client[c] = k
                         /\ Registered(c) \/ "client" \in owes[c]

\* The session that dialled a client keeps it: for as long as that session is
\* being connected or is in the map, no Disconnect of a session that shares the
\* client closes it or is about to.
DiallerKeepsClient ==
    \A k \in Calls :
        client[k] = k /\ (Connecting(k) \/ Registered(k)) =>
            /\ Held(k)
            /\ \A c \in Calls : client[c] = k => "client" \notin owes[c]

\* Every session in the map has a goroutine that will remove it when its shell
\* ends: the call that inserted it, which is about to start waitSession, or
\* waitSession itself.  So no entry outlives its shell for good.
EveryEntryIsWaitedFor ==
    \A i \in Ids : sessions[i] # NoCall =>
        \/ pc[sessions[i]] = "inserted"
        \/ waiter[sessions[i]] \in {"waiting", "emitted"}

\* "Manager manages all active SSH sessions" (session.go:30): a session whose
\* ID was returned and whose shell runs is in the map under that ID, or a
\* Disconnect that removed it has still to close it.
RunningIsManaged ==
    \A c \in Calls :
        pc[c] = "returned" /\ shell[c] = "running" =>
            sessions[id[c]] = c \/ "shell" \in owes[c]

\* When DisconnectAll returns it has removed every session it found under the
\* lock and nothing has put one of them back, whatever users and waiters
\* disconnected meanwhile.
DrainedAreGone ==
    drain = "returned" => \A i \in ids : sessions[i] = NoCall

\* "Only close the underlying SSH client if no other session uses it"
\* (session.go:338), at the moment of the close.
ClosesOnlyUnusedClient ==
    [][\A c \in Calls : CloseClient(c) =>
          \A d \in Calls : Registered(d) => client[d] # client[c]]_vars

\* A shell that ended leaves the map, so the tab list (ListSessions) does not
\* keep dead sessions, even one inserted after its client was closed.
EndedLeavesMap ==
    \A c \in Calls : [](Registered(c) /\ shell[c] = "ended" => <>~Registered(c))

\* Every session whose ID was returned and which was disconnected ends its
\* waitSession goroutine: none of them waits for ever.
DisconnectEndsWaiter ==
    \A c \in Calls : [](pc[c] = "returned" /\ owes[c] # {} => <>(waiter[c] = "done"))

\* Shutdown is not held up: once DisconnectAll has started it returns.
DrainReturns == (drain = "looping") ~> (drain = "returned")

-----------------------------------------------------------------------------
(* The clients, seen as the reference count of SharedClients: a client is   *)
(* held by the Connect that dials it and by every session in the map.       *)

Uses(c) == Connecting(c) \/ Registered(c)

Holders == [k \in Calls |-> {c \in Calls : client[c] = k /\ Uses(c)}]

Condemned == [k \in Calls |-> \E c \in Calls : client[c] = k /\ "client" \in owes[c]]

Shared == INSTANCE SharedClients WITH holders <- Holders, condemned <- Condemned

\* Every step of the manager is a step of the reference count or leaves it alone.
CountsReferences == Shared!SafetySpec

\* And every condemned client is closed.
ClosesCondemned == Shared!Spec

-----------------------------------------------------------------------------
(* The inductive invariant behind the safety properties.                    *)

Established == {"inserted", "returned"}

\* How a call's own variables fit together, and that a client is shared only
\* with calls that found its dialler's session in the map.
CallsFit ==
    \A c \in Calls :
        /\ pc[c] = "idle" <=> client[c] = NoCall
        /\ pc[c] = "dialed" => client[c] = c
        /\ pc[c] = "looked" => client[c] # c
        /\ conn[c] # "none" <=> client[c] = c
        /\ id[c] # NoId <=> pc[c] \in Established \cup {"opened"}
        /\ client[c] \notin {c, NoCall} =>
              client[client[c]] = client[c] /\ pc[client[c]] \in Established
        /\ waiter[c] # "none" <=> pc[c] = "returned"
        /\ waiter[c] = "done" => ~Registered(c)

IdsDiffer == \A c, d \in Calls : id[c] = id[d] /\ id[c] # NoId => c = d

MapFits ==
    \A i \in Ids : sessions[i] # NoCall =>
        id[sessions[i]] = i /\ pc[sessions[i]] \in Established

OnlyRemovedOwe ==
    \A c \in Calls : owes[c] # {} => pc[c] \in Established /\ ~Registered(c)

EstablishedIsManaged ==
    \A c \in Calls :
        pc[c] \in Established /\ shell[c] = "running" =>
            sessions[id[c]] = c \/ "shell" \in owes[c]

DrainFits ==
    /\ drain = "idle" => ids = {}
    /\ drain = "returned" => left = {}
    /\ \A i \in ids : \E c \in Calls : id[c] = i /\ pc[c] \in Established
    /\ \A i \in ids \ left : sessions[i] = NoCall

IInv ==
    /\ TypeOK
    /\ CallsFit
    /\ IdsDiffer
    /\ MapFits
    /\ OnlyRemovedOwe
    /\ EstablishedIsManaged
    /\ DrainFits
    /\ NoClientLeak
    /\ DiallerKeepsClient
=============================================================================
