--------------------------- MODULE ForwardManager ---------------------------
(***************************************************************************)
(* SSH port forwarding, bridge/ssh/forward.go.  A rule is one StartForward *)
(* call: it dials its own client, listens, runs an accept loop and hands   *)
(* each connection to a handler goroutine.  StopForward removes a rule     *)
(* under ForwardManager.mu and tears it down after the unlock; StopAll     *)
(* does so for a snapshot of the map.  Rule IDs carry a millisecond, and a *)
(* rule stands for its ID.                                                 *)
(***************************************************************************)
CONSTANTS
    Rules,      \* the StartForward calls of a run
    Kind,       \* Kind[r]: "local", "remote" or "dynamic"
    Port,       \* Port[r]: the port the rule listens on
    Conns,      \* the connections clients make
    NoRule

ASSUME KindAssumption == Kind \in [Rules -> {"local", "remote", "dynamic"}]
ASSUME NoRuleAssumption == NoRule \notin Rules

VARIABLES
    start,      \* how far each StartForward has got
    forwards,   \* ForwardManager.forwards
    client,     \* forwardState.client
    listener,   \* forwardState.listener
    cancelled,  \* the rules whose ctx is cancelled
    loop,       \* the accept loop of each rule
    stop,       \* what StopForward has still to do for a rule it removed
    conn,       \* the handler of each connection
    servedBy,   \* the rule that accepted it
    sweep,      \* StopAll: not called, looping, returned
    left,       \* StopAll: the IDs it has still to stop
    current     \* StopAll: the rule whose teardown it is running

vars == <<start, forwards, client, listener, cancelled, loop, stop, conn,
          servedBy, sweep, left, current>>
connVars == <<conn, servedBy>>
sweepVars == <<sweep, left, current>>

Init ==
    /\ start = [r \in Rules |-> "idle"]
    /\ forwards = {}
    /\ client = [r \in Rules |-> "none"]
    /\ listener = [r \in Rules |-> "none"]
    /\ cancelled = {}
    /\ loop = [r \in Rules |-> "none"]
    /\ stop = [r \in Rules |-> "no"]
    /\ conn = [c \in Conns |-> "none"]
    /\ servedBy = [c \in Conns |-> NoRule]
    /\ sweep = "idle"
    /\ left = {}
    /\ current = NoRule

-----------------------------------------------------------------------------
(* StartForward.                                                            *)

\* A failed connectSSH leaves nothing behind and is a stuttering step.
ConnectSSH(r) ==
    /\ start[r] = "idle"
    /\ start' = [start EXCEPT ![r] = "connected"]
    /\ client' = [client EXCEPT ![r] = "up"]
    /\ UNCHANGED <<forwards, listener, cancelled, loop, stop, connVars, sweepVars>>

\* A local or dynamic rule binds a port of this host.  A remote rule binds one of its
\* server's, for which the client has to be alive; the port may be taken there, by a rule
\* for the same server too, and Listen fails.
CanListen(r) ==
    IF Kind[r] = "remote" THEN client[r] = "up"
    ELSE \A q \in Rules : listener[q] = "open" /\ Port[q] = Port[r] => Kind[q] = "remote"

\* The listener is opened and its accept loop started.
Listen(r) ==
    /\ start[r] = "connected"
    /\ CanListen(r)
    /\ start' = [start EXCEPT ![r] = "listening"]
    /\ listener' = [listener EXCEPT ![r] = "open"]
    /\ loop' = [loop EXCEPT ![r] = "check"]
    /\ UNCHANGED <<forwards, client, cancelled, stop, connVars, sweepVars>>

\* Mutant: the client of a rule that cannot listen is left open.
ListenFailsKeepingClient(r) ==
    /\ start[r] = "connected"
    /\ start' = [start EXCEPT ![r] = "failed"]
    /\ cancelled' = cancelled \cup {r}
    /\ UNCHANGED <<forwards, client, listener, loop, stop, connVars, sweepVars>>

ListenFails(r) ==
    /\ start[r] = "connected"
    /\ start' = [start EXCEPT ![r] = "failed"]
    /\ cancelled' = cancelled \cup {r}
    /\ client' = [client EXCEPT ![r] = "closed"]
    /\ UNCHANGED <<forwards, listener, loop, stop, connVars, sweepVars>>

Register(r) ==
    /\ start[r] = "listening"
    /\ start' = [start EXCEPT ![r] = "returned"]
    /\ forwards' = forwards \cup {r}
    /\ UNCHANGED <<client, listener, cancelled, loop, stop, connVars, sweepVars>>

-----------------------------------------------------------------------------
(* StopForward: the delete under the lock, then cancel, listener.Close and  *)
(* client.Close in that order.  Of an unknown rule it changes nothing.      *)

Remove(r) ==
    /\ forwards' = forwards \ {r}
    /\ stop' = IF r \in forwards THEN [stop EXCEPT ![r] = "cancel"] ELSE stop

\* Mutant: the rule stays in the map.
StopForwardKeepingEntry(r) ==
    /\ r \in forwards
    /\ stop' = [stop EXCEPT ![r] = "cancel"]
    /\ UNCHANGED <<start, forwards, client, listener, cancelled, loop, connVars, sweepVars>>

StopForward(r) ==
    /\ r \in forwards
    /\ Remove(r)
    /\ UNCHANGED <<start, client, listener, cancelled, loop, connVars, sweepVars>>

\* Mutant: the context is cancelled only together with the client.
CancelLate(r) ==
    /\ stop[r] = "cancel"
    /\ stop' = [stop EXCEPT ![r] = "listener"]
    /\ UNCHANGED <<start, forwards, client, listener, cancelled, loop, connVars, sweepVars>>

Cancel(r) ==
    /\ stop[r] = "cancel"
    /\ stop' = [stop EXCEPT ![r] = "listener"]
    /\ cancelled' = cancelled \cup {r}
    /\ UNCHANGED <<start, forwards, client, listener, loop, connVars, sweepVars>>

\* Mutant: the listener is left to the accept loop, which is blocked in Accept.
CloseListenerLeft(r) ==
    /\ stop[r] = "listener"
    /\ stop' = [stop EXCEPT ![r] = "client"]
    /\ UNCHANGED <<start, forwards, client, listener, cancelled, loop, connVars, sweepVars>>

CloseListener(r) ==
    /\ stop[r] = "listener"
    /\ stop' = [stop EXCEPT ![r] = "client"]
    /\ listener' = [listener EXCEPT ![r] = "closed"]
    /\ UNCHANGED <<start, forwards, client, cancelled, loop, connVars, sweepVars>>

CloseClient(r) ==
    /\ stop[r] = "client"
    /\ stop' = [stop EXCEPT ![r] = "done"]
    /\ client' = [client EXCEPT ![r] = "closed"]
    /\ UNCHANGED <<start, forwards, listener, cancelled, loop, connVars, sweepVars>>

-----------------------------------------------------------------------------
(* The accept loop: look at ctx, then block in Accept.                      *)

LoopChecks(r) ==
    /\ loop[r] = "check"
    /\ loop' = [loop EXCEPT ![r] = IF r \in cancelled THEN "ended" ELSE "accept"]
    /\ listener' = IF r \in cancelled THEN [listener EXCEPT ![r] = "closed"] ELSE listener
    /\ UNCHANGED <<start, forwards, client, cancelled, stop, connVars, sweepVars>>

\* The listener of a remote rule lives on the client.
Accepting(r) == listener[r] = "open" /\ (Kind[r] = "remote" => client[r] = "up")

Accept(r, c) ==
    /\ loop[r] = "accept"
    /\ Accepting(r)
    /\ conn[c] = "none"
    /\ conn' = [conn EXCEPT ![c] = IF Kind[r] = "dynamic" THEN "handshake" ELSE "dial"]
    /\ servedBy' = [servedBy EXCEPT ![c] = r]
    /\ loop' = [loop EXCEPT ![r] = "check"]
    /\ UNCHANGED <<start, forwards, client, listener, cancelled, stop, sweepVars>>

AcceptFails(r) ==
    /\ loop[r] = "accept"
    /\ ~Accepting(r)
    /\ loop' = [loop EXCEPT ![r] = IF r \in cancelled THEN "ended" ELSE "check"]
    /\ listener' = IF r \in cancelled THEN [listener EXCEPT ![r] = "closed"] ELSE listener
    /\ UNCHANGED <<start, forwards, client, cancelled, stop, connVars, sweepVars>>

-----------------------------------------------------------------------------
(* handleLocalForwardConn, handleRemoteForwardConn and handleSOCKS5.        *)

HandlerStep(c, from, to) ==
    /\ conn[c] = from
    /\ conn' = [conn EXCEPT ![c] = to]
    /\ UNCHANGED <<start, forwards, client, listener, cancelled, loop, stop,
                   servedBy, sweepVars>>

\* A SOCKS5 request is read without a deadline; a bad one ends the handler.
HandshakeRead(c) == HandlerStep(c, "handshake", "dial")
HandshakeRejected(c) == HandlerStep(c, "handshake", "closed")

\* A remote rule dials this host, the others dial through the client.
DialOk(c) ==
    /\ conn[c] = "dial"
    /\ Kind[servedBy[c]] # "remote" => client[servedBy[c]] = "up"
    /\ HandlerStep(c, "dial", "copy")

DialFails(c) == HandlerStep(c, "dial", "closed")

\* One direction has ended: a peer closed, or the client is gone.
CopyEnds(c) == HandlerStep(c, "copy", "closed")

\* Mutant: the handler waits for its copies only.
CopyNeverCancelled(c) ==
    /\ servedBy[c] \in cancelled
    /\ client[servedBy[c]] = "lost"
    /\ HandlerStep(c, "copy", "closed")

CopyCancelled(c) ==
    /\ servedBy[c] \in cancelled
    /\ HandlerStep(c, "copy", "closed")

-----------------------------------------------------------------------------
(* StopAll, called by SSHService.Shutdown.                                  *)

StopAll ==
    /\ sweep = "idle"
    /\ sweep' = "looping"
    /\ left' = forwards
    /\ UNCHANGED <<start, forwards, client, listener, cancelled, loop, stop, connVars, current>>

\* StopForward returns after its closes, so StopAll tears down one rule at a time.
CurrentStopped == \A r \in Rules : current = r => stop[r] = "done"

\* Mutant: the loop gives up at the first rule somebody else has stopped.
StopNextOrGiveUp(r) ==
    /\ sweep = "looping"
    /\ CurrentStopped
    /\ r \in left
    /\ left' = IF r \in forwards THEN left \ {r} ELSE {}
    /\ current' = IF r \in forwards THEN r ELSE NoRule
    /\ Remove(r)
    /\ UNCHANGED <<start, client, listener, cancelled, loop, connVars, sweep>>

StopNext(r) ==
    /\ sweep = "looping"
    /\ CurrentStopped
    /\ r \in left
    /\ left' = left \ {r}
    /\ current' = IF r \in forwards THEN r ELSE NoRule
    /\ Remove(r)
    /\ UNCHANGED <<start, client, listener, cancelled, loop, connVars, sweep>>

StopAllReturns ==
    /\ sweep = "looping"
    /\ CurrentStopped
    /\ left = {}
    /\ sweep' = "returned"
    /\ current' = NoRule
    /\ UNCHANGED <<start, forwards, client, listener, cancelled, loop, stop, connVars, left>>

-----------------------------------------------------------------------------
ConnectionLost(r) ==
    /\ client[r] = "up"
    /\ client' = [client EXCEPT ![r] = "lost"]
    /\ UNCHANGED <<start, forwards, listener, cancelled, loop, stop, connVars, sweepVars>>

-----------------------------------------------------------------------------
Next ==
    \/ \E r \in Rules :
          \/ ConnectSSH(r) \/ Listen(r) \/ ListenFails(r) \/ Register(r)
          \/ StopForward(r) \/ Cancel(r) \/ CloseListener(r) \/ CloseClient(r)
          \/ LoopChecks(r) \/ AcceptFails(r)
          \/ \E c \in Conns : Accept(r, c)
          \/ StopNext(r)
          \/ ConnectionLost(r)
    \/ \E c \in Conns :
          \/ HandshakeRead(c) \/ HandshakeRejected(c)
          \/ DialOk(c) \/ DialFails(c)
          \/ CopyEnds(c) \/ CopyCancelled(c)
    \/ StopAll
    \/ StopAllReturns

SafetySpec == Init /\ [][Next]_vars

\* Goroutines that can run do run; a listen and a dial are answered or fail; the
\* accept loop looks at its context whenever it is at the top.  Nobody has to
\* connect, to finish a SOCKS5 request, to end a copy or to stop a rule.
Fairness ==
    /\ \A r \in Rules :
          /\ WF_vars(Listen(r) \/ ListenFails(r))
          /\ WF_vars(Register(r))
          /\ WF_vars(Cancel(r))
          /\ WF_vars(CloseListener(r))
          /\ WF_vars(CloseClient(r))
          /\ WF_vars(LoopChecks(r))
          /\ WF_vars(AcceptFails(r))
    /\ \A c \in Conns :
          /\ WF_vars(DialOk(c) \/ DialFails(c))
          /\ WF_vars(CopyCancelled(c))
    /\ WF_vars((\E r \in Rules : StopNext(r)) \/ StopAllReturns)

Spec == SafetySpec /\ Fairness

-----------------------------------------------------------------------------
(* Properties. *)

TypeOK ==
    /\ start \in [Rules -> {"idle", "connected", "listening", "returned", "failed"}]
    /\ forwards \in SUBSET Rules
    /\ client \in [Rules -> {"none", "up", "lost", "closed"}]
    /\ listener \in [Rules -> {"none", "open", "closed"}]
    /\ cancelled \in SUBSET Rules
    /\ loop \in [Rules -> {"none", "check", "accept", "ended"}]
    /\ stop \in [Rules -> {"no", "cancel", "listener", "client", "done"}]
    /\ conn \in [Conns -> {"none", "handshake", "dial", "copy", "closed"}]
    /\ servedBy \in [Conns -> Rules \cup {NoRule}]
    /\ sweep \in {"idle", "looping", "returned"}
    /\ left \in SUBSET Rules
    /\ current \in Rules \cup {NoRule}

\* A StartForward under way, a rule in the map, a StopForward under way.
Starting(r) == start[r] \in {"connected", "listening"}
Stopping(r) == stop[r] \in {"cancel", "listener", "client"}

\* No port and no client leaks: whatever a rule holds open, some call or the map
\* still accounts for it, on every error path of StartForward (forward.go:161-165)
\* and whoever stops the rule.
HoldsNothingUnlisted ==
    \A r \in Rules :
        listener[r] = "open" \/ client[r] \in {"up", "lost"} =>
            Starting(r) \/ r \in forwards \/ Stopping(r)

\* A rule in the map is whole: it listens, its loop runs and nothing of it has
\* been cancelled or closed, though its connection may be lost.
ListedIsWhole ==
    \A r \in forwards :
        /\ listener[r] = "open"
        /\ loop[r] \in {"check", "accept"}
        /\ r \notin cancelled
        /\ client[r] # "closed"

\* Accept fails on a closed listener only after the context is cancelled, so the
\* loop, which retries every other failure at once (forward.go:243-251), ends
\* instead of spinning while StopForward goes on.
ClosedListenerIsCancelled ==
    \A r \in Rules : listener[r] = "closed" => r \in cancelled

\* A stopped rule is torn down: its loop ends, its port is free and its client
\* is closed.
StopTearsDown ==
    \A r \in Rules :
        (stop[r] = "cancel") ~> /\ loop[r] = "ended"
                                /\ listener[r] = "closed"
                                /\ client[r] = "closed"

\* The connections of a stopped rule are closed, but for one whose client never
\* finishes its SOCKS5 request, which handleSOCKS5 reads without looking at ctx.
StopClosesConns ==
    \A c \in Conns :
        []((\E r \in cancelled : servedBy[c] = r) /\ conn[c] \in {"dial", "copy"}
           => <>(conn[c] = "closed"))

\* StopAll returns, and then no rule it found in the map is running.
StopAllStopsFound ==
    \A r \in Rules :
        [](sweep = "looping" /\ r \in left => <>(sweep = "returned" /\ loop[r] = "ended"))

-----------------------------------------------------------------------------
(* The inductive invariant behind the safety properties: where a rule is in *)
(* its StartForward and its StopForward fixes what it holds.                *)

RulesFit ==
    \A r \in Rules :
        /\ r \in forwards <=> start[r] = "returned" /\ stop[r] = "no"
        /\ stop[r] # "no" => start[r] = "returned"
        /\ r \in cancelled <=>
              start[r] = "failed" \/ stop[r] \in {"listener", "client", "done"}
        /\ client[r] = "none" <=> start[r] = "idle"
        /\ client[r] = "closed" <=> start[r] = "failed" \/ stop[r] = "done"

ListenersFit ==
    \A r \in Rules :
        /\ listener[r] = "none" <=> start[r] \in {"idle", "connected", "failed"}
        /\ loop[r] = "none" <=> listener[r] = "none"
        /\ loop[r] = "ended" => listener[r] = "closed"
        /\ listener[r] = "closed" => r \in cancelled
        /\ stop[r] \in {"client", "done"} => listener[r] = "closed"

IInv == TypeOK /\ RulesFit /\ ListenersFit
=============================================================================
