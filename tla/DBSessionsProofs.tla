--------------------------- MODULE DBSessionsProofs ---------------------------
(***************************************************************************)
(* Theorems about DBSessions, for any number of sessions, of switches, of  *)
(* tunnels and of connections.  IInv says how far each Connect, teardown   *)
(* and tunnel may be when another is where it is (StagesFit, TunnelsFit),  *)
(* who holds which handle (HandlesFit) and who closes the one that was     *)
(* replaced (ReplacedFit).                                                 *)
(***************************************************************************)
EXTENDS DBSessions, TLAPS

\* Nothing is connected.
THEOREM InitIInv == Init => IInv
  BY HandlesAssumption, TunnelledAssumption DEF Init, IInv, TypeOK, StagesFit, TunnelsFit, HandlesFit, ReplacedFit,
     Swapped, Served, Handles

\* No step of a Connect, a switch, a teardown, an accept loop or a handler leaves
\* the invariant.
THEOREM NextIInv == IInv /\ [Next]_vars => IInv'
  <1> SUFFICES ASSUME IInv, [Next]_vars PROVE IInv' OBVIOUS
  <1> USE HandlesAssumption, TunnelledAssumption DEF IInv, switchVars, connVars, tunnelVars
  <1>1. ASSUME NEW s \in Sessions, CreateTunnel(s) PROVE IInv'
    <2>1. TypeOK' BY <1>1 DEF CreateTunnel, TypeOK, Handles
    <2>2. StagesFit' BY <1>1 DEF CreateTunnel, TypeOK, StagesFit
    <2>3. TunnelsFit' BY <1>1 DEF CreateTunnel, TypeOK, StagesFit, TunnelsFit
    <2>4. HandlesFit'
      BY <1>1 DEF CreateTunnel, TypeOK, StagesFit, HandlesFit, Served, Swapped, Handles
    <2>5. ReplacedFit'
      BY <1>1 DEF CreateTunnel, TypeOK, HandlesFit, ReplacedFit, Served, Swapped, Handles
    <2> QED BY <2>1, <2>2, <2>3, <2>4, <2>5
  <1>2. ASSUME NEW s \in Sessions, Open(s) PROVE IInv'
    <2>1. TypeOK' BY <1>2 DEF Open, TypeOK, Handles
    <2>2. StagesFit' BY <1>2 DEF Open, TypeOK, StagesFit
    <2>3. TunnelsFit' BY <1>2 DEF Open, TypeOK, StagesFit, TunnelsFit
    <2>4. HandlesFit'
      BY <1>2 DEF Open, TypeOK, StagesFit, HandlesFit, Served, Swapped, Handles
    <2>5. ReplacedFit'
      BY <1>2 DEF Open, TypeOK, HandlesFit, ReplacedFit, Served, Swapped, Handles
    <2> QED BY <2>1, <2>2, <2>3, <2>4, <2>5
  <1>3. ASSUME NEW s \in Sessions, OpenFails(s) PROVE IInv'
    <2>1. TypeOK' BY <1>3 DEF OpenFails, AfterDB, TypeOK, Handles
    <2>2. StagesFit' BY <1>3 DEF OpenFails, AfterDB, TypeOK, StagesFit
    <2>3. TunnelsFit' BY <1>3 DEF OpenFails, AfterDB, TypeOK, StagesFit, TunnelsFit
    <2>4. HandlesFit'
      BY <1>3 DEF OpenFails, AfterDB, TypeOK, StagesFit, HandlesFit, Served, Swapped, Handles
    <2>5. ReplacedFit'
      BY <1>3 DEF OpenFails, AfterDB, TypeOK, HandlesFit, ReplacedFit, Served, Swapped, Handles
    <2> QED BY <2>1, <2>2, <2>3, <2>4, <2>5
  <1>4. ASSUME NEW s \in Sessions, PingFails(s) PROVE IInv'
    <2>1. TypeOK' BY <1>4 DEF PingFails, TypeOK, Handles
    <2>2. StagesFit' BY <1>4 DEF PingFails, TypeOK, StagesFit
    <2>3. TunnelsFit' BY <1>4 DEF PingFails, TypeOK, StagesFit, TunnelsFit
    <2>4. HandlesFit'
      BY <1>4 DEF PingFails, TypeOK, StagesFit, HandlesFit, Served, Swapped, Handles
    <2>5. ReplacedFit'
      BY <1>4 DEF PingFails, TypeOK, HandlesFit, ReplacedFit, Served, Swapped, Handles
    <2> QED BY <2>1, <2>2, <2>3, <2>4, <2>5
  <1>5. ASSUME NEW s \in Sessions, Register(s) PROVE IInv'
    <2>1. TypeOK' BY <1>5 DEF Register, TypeOK, Handles
    <2>2. StagesFit' BY <1>5 DEF Register, TypeOK, StagesFit
    <2>3. TunnelsFit' BY <1>5 DEF Register, TypeOK, StagesFit, TunnelsFit
    <2>4. HandlesFit'
      BY <1>5 DEF Register, TypeOK, StagesFit, HandlesFit, Served, Swapped, Handles
    <2>5. ReplacedFit'
      BY <1>5 DEF Register, TypeOK, HandlesFit, ReplacedFit, Served, Swapped, Handles
    <2> QED BY <2>1, <2>2, <2>3, <2>4, <2>5
  <1>6. ASSUME NEW s \in Sessions, Disconnect(s) PROVE IInv'
    <2>1. TypeOK' BY <1>6 DEF Disconnect, TypeOK, Handles
    <2>2. StagesFit' BY <1>6 DEF Disconnect, TypeOK, StagesFit
    <2>3. TunnelsFit' BY <1>6 DEF Disconnect, TypeOK, StagesFit, TunnelsFit
    <2>4. HandlesFit'
      BY <1>6 DEF Disconnect, TypeOK, StagesFit, HandlesFit, Served, Swapped, Handles
    <2>5. ReplacedFit'
      BY <1>6 DEF Disconnect, TypeOK, HandlesFit, ReplacedFit, Served, Swapped, Handles
    <2> QED BY <2>1, <2>2, <2>3, <2>4, <2>5
  <1>7. ASSUME NEW s \in Sessions, CloseDB(s) PROVE IInv'
    <2>1. TypeOK' BY <1>7 DEF CloseDB, AfterDB, TypeOK, Handles
    <2>2. StagesFit' BY <1>7 DEF CloseDB, AfterDB, TypeOK, StagesFit
    <2>3. TunnelsFit' BY <1>7 DEF CloseDB, AfterDB, TypeOK, StagesFit, TunnelsFit
    <2>4. HandlesFit'
      BY <1>7 DEF CloseDB, AfterDB, TypeOK, StagesFit, HandlesFit, Served, Swapped, Handles
    <2>5. ReplacedFit'
      BY <1>7 DEF CloseDB, AfterDB, TypeOK, HandlesFit, ReplacedFit, Served, Swapped, Handles
    <2> QED BY <2>1, <2>2, <2>3, <2>4, <2>5
  <1>8. ASSUME NEW s \in Sessions, CloseDone(s) PROVE IInv'
    <2>1. TypeOK' BY <1>8 DEF CloseDone, TypeOK, Handles, StagesFit
    <2>2. StagesFit' BY <1>8 DEF CloseDone, TypeOK, StagesFit
    <2>3. TunnelsFit' BY <1>8 DEF CloseDone, TypeOK, StagesFit, TunnelsFit
    <2>4. HandlesFit'
      BY <1>8 DEF CloseDone, TypeOK, StagesFit, HandlesFit, Served, Swapped, Handles
    <2>5. ReplacedFit'
      BY <1>8 DEF CloseDone, TypeOK, HandlesFit, ReplacedFit, Served, Swapped, Handles
    <2> QED BY <2>1, <2>2, <2>3, <2>4, <2>5
  <1>9. ASSUME NEW s \in Sessions, CloseListener(s) PROVE IInv'
    <2>1. TypeOK' BY <1>9 DEF CloseListener, TypeOK, Handles
    <2>2. StagesFit' BY <1>9 DEF CloseListener, TypeOK, StagesFit
    <2>3. TunnelsFit' BY <1>9 DEF CloseListener, TypeOK, StagesFit, TunnelsFit
    <2>4. HandlesFit'
      BY <1>9 DEF CloseListener, TypeOK, StagesFit, HandlesFit, Served, Swapped, Handles
    <2>5. ReplacedFit'
      BY <1>9 DEF CloseListener, TypeOK, HandlesFit, ReplacedFit, Served, Swapped, Handles
    <2> QED BY <2>1, <2>2, <2>3, <2>4, <2>5
  <1>10. ASSUME NEW s \in Sessions, Waited(s) PROVE IInv'
    <2>1. TypeOK' BY <1>10 DEF Waited, TypeOK, Handles
    <2>2. StagesFit' BY <1>10 DEF Waited, TypeOK, StagesFit
    <2>3. TunnelsFit' BY <1>10 DEF Waited, TypeOK, StagesFit, TunnelsFit
    <2>4. HandlesFit'
      BY <1>10 DEF Waited, TypeOK, StagesFit, HandlesFit, Served, Swapped, Handles
    <2>5. ReplacedFit'
      BY <1>10 DEF Waited, TypeOK, HandlesFit, ReplacedFit, Served, Swapped, Handles
    <2> QED BY <2>1, <2>2, <2>3, <2>4, <2>5
  <1>11. ASSUME NEW s \in Sessions, CloseClient(s) PROVE IInv'
    <2>1. TypeOK' BY <1>11 DEF CloseClient, TypeOK, Handles
    <2>2. StagesFit' BY <1>11 DEF CloseClient, TypeOK, StagesFit
    <2>3. TunnelsFit' BY <1>11 DEF CloseClient, TypeOK, StagesFit, TunnelsFit
    <2>4. HandlesFit'
      BY <1>11 DEF CloseClient, TypeOK, StagesFit, HandlesFit, Served, Swapped, Handles
    <2>5. ReplacedFit'
      BY <1>11 DEF CloseClient, TypeOK, HandlesFit, ReplacedFit, Served, Swapped, Handles
    <2> QED BY <2>1, <2>2, <2>3, <2>4, <2>5
  <1>12. ASSUME NEW s \in Sessions, AcceptFails(s) PROVE IInv'
    <2>1. TypeOK' BY <1>12 DEF AcceptFails, TypeOK, Handles
    <2>2. StagesFit' BY <1>12 DEF AcceptFails, TypeOK, StagesFit
    <2>3. TunnelsFit' BY <1>12 DEF AcceptFails, TypeOK, StagesFit, TunnelsFit
    <2>4. HandlesFit'
      BY <1>12 DEF AcceptFails, TypeOK, StagesFit, HandlesFit, Served, Swapped, Handles
    <2>5. ReplacedFit'
      BY <1>12 DEF AcceptFails, TypeOK, HandlesFit, ReplacedFit, Served, Swapped, Handles
    <2> QED BY <2>1, <2>2, <2>3, <2>4, <2>5
  <1>13. ASSUME NEW c \in Conns, NEW s \in Sessions, Accept(c, s) PROVE IInv'
    <2>1. TypeOK' BY <1>13 DEF Accept, HandlesOf, TypeOK, Handles
    <2>2. StagesFit' BY <1>13 DEF Accept, HandlesOf, TypeOK, StagesFit
    <2>3. TunnelsFit' BY <1>13 DEF Accept, HandlesOf, TypeOK, StagesFit, TunnelsFit
    <2>4. HandlesFit'
      BY <1>13 DEF Accept, HandlesOf, TypeOK, StagesFit, HandlesFit, Served, Swapped, Handles
    <2>5. ReplacedFit'
      BY <1>13 DEF Accept, HandlesOf, TypeOK, HandlesFit, ReplacedFit, Served, Swapped, Handles
    <2> QED BY <2>1, <2>2, <2>3, <2>4, <2>5
  <1>14. ASSUME NEW x \in Switches, NEW s \in Sessions, SwitchLookup(x, s) PROVE IInv'
    <2>1. TypeOK' BY <1>14 DEF SwitchLookup, TypeOK, Handles
    <2>2. StagesFit' BY <1>14 DEF SwitchLookup, TypeOK, StagesFit
    <2>3. TunnelsFit' BY <1>14 DEF SwitchLookup, TypeOK, StagesFit, TunnelsFit
    <2>4. HandlesFit'
      BY <1>14 DEF SwitchLookup, TypeOK, StagesFit, HandlesFit, Served, Swapped, Handles
    <2>5. ReplacedFit'
      BY <1>14 DEF SwitchLookup, TypeOK, HandlesFit, ReplacedFit, Served, Swapped, Handles
    <2> QED BY <2>1, <2>2, <2>3, <2>4, <2>5
  <1>15. ASSUME NEW x \in Switches, SwitchOpens(x) PROVE IInv'
    <2>1. TypeOK' BY <1>15 DEF SwitchOpens, TypeOK, Handles
    <2>2. StagesFit' BY <1>15 DEF SwitchOpens, TypeOK, StagesFit
    <2>3. TunnelsFit' BY <1>15 DEF SwitchOpens, TypeOK, StagesFit, TunnelsFit
    <2>4. HandlesFit'
      BY <1>15 DEF SwitchOpens, TypeOK, StagesFit, HandlesFit, Served, Swapped, Handles
    <2>5. ReplacedFit'
      BY <1>15 DEF SwitchOpens, TypeOK, HandlesFit, ReplacedFit, Served, Swapped, Handles
    <2> QED BY <2>1, <2>2, <2>3, <2>4, <2>5
  <1>16. ASSUME NEW x \in Switches, SwitchPingFails(x) PROVE IInv'
    <2>1. TypeOK' BY <1>16 DEF SwitchPingFails, TypeOK, Handles
    <2>2. StagesFit' BY <1>16 DEF SwitchPingFails, TypeOK, StagesFit
    <2>3. TunnelsFit' BY <1>16 DEF SwitchPingFails, TypeOK, StagesFit, TunnelsFit
    <2>4. HandlesFit'
      BY <1>16 DEF SwitchPingFails, TypeOK, StagesFit, HandlesFit, Served, Swapped, Handles
    <2>5. ReplacedFit'
      BY <1>16 DEF SwitchPingFails, TypeOK, HandlesFit, ReplacedFit, Served, Swapped, Handles
    <2> QED BY <2>1, <2>2, <2>3, <2>4, <2>5
  <1>17. ASSUME NEW x \in Switches, SwitchReadsOld(x) PROVE IInv'
    <2>1. TypeOK' BY <1>17 DEF SwitchReadsOld, TypeOK, Handles, HandlesFit
    <2>2. StagesFit' BY <1>17 DEF SwitchReadsOld, TypeOK, StagesFit
    <2>3. TunnelsFit' BY <1>17 DEF SwitchReadsOld, TypeOK, StagesFit, TunnelsFit
    <2>4. HandlesFit'
      BY <1>17 DEF SwitchReadsOld, TypeOK, StagesFit, HandlesFit, Served, Swapped, Handles
    <2>5. ReplacedFit'
      BY <1>17 DEF SwitchReadsOld, TypeOK, HandlesFit, ReplacedFit, Served, Swapped, Handles
    <2> QED BY <2>1, <2>2, <2>3, <2>4, <2>5
  <1>18. ASSUME NEW x \in Switches, SwitchSwaps(x) PROVE IInv'
    <2>1. TypeOK' BY <1>18 DEF SwitchSwaps, TypeOK, Handles
    <2>2. StagesFit' BY <1>18 DEF SwitchSwaps, TypeOK, StagesFit
    <2>3. TunnelsFit' BY <1>18 DEF SwitchSwaps, TypeOK, StagesFit, TunnelsFit
    <2>4. HandlesFit'
      BY <1>18 DEF SwitchSwaps, TypeOK, StagesFit, HandlesFit, Served, Swapped, Handles
    <2>5. ReplacedFit'
      BY <1>18 DEF SwitchSwaps, TypeOK, HandlesFit, ReplacedFit, Served, Swapped, Handles
    <2> QED BY <2>1, <2>2, <2>3, <2>4, <2>5
  <1>19. ASSUME NEW x \in Switches, SwitchClosesOld(x) PROVE IInv'
    <2>1. TypeOK' BY <1>19 DEF SwitchClosesOld, TypeOK, Handles
    <2>2. StagesFit' BY <1>19 DEF SwitchClosesOld, TypeOK, StagesFit
    <2>3. TunnelsFit' BY <1>19 DEF SwitchClosesOld, TypeOK, StagesFit, TunnelsFit
    <2>4. HandlesFit'
      BY <1>19 DEF SwitchClosesOld, TypeOK, StagesFit, HandlesFit, Served, Swapped, Handles
    <2>5. ReplacedFit'
      BY <1>19 DEF SwitchClosesOld, TypeOK, HandlesFit, ReplacedFit, Served, Swapped, Handles
    <2> QED BY <2>1, <2>2, <2>3, <2>4, <2>5
  <1>20. ASSUME DisconnectAll PROVE IInv'
    <2>1. TypeOK' BY <1>20 DEF DisconnectAll, TypeOK, Handles
    <2>2. StagesFit' BY <1>20 DEF DisconnectAll, TypeOK, StagesFit
    <2>3. TunnelsFit' BY <1>20 DEF DisconnectAll, TypeOK, StagesFit, TunnelsFit
    <2>4. HandlesFit'
      BY <1>20 DEF DisconnectAll, TypeOK, StagesFit, HandlesFit, Served, Swapped, Handles
    <2>5. ReplacedFit'
      BY <1>20 DEF DisconnectAll, TypeOK, HandlesFit, ReplacedFit, Served, Swapped, Handles
    <2> QED BY <2>1, <2>2, <2>3, <2>4, <2>5
  <1>21. ASSUME NEW s \in Sessions, DrainNext(s) PROVE IInv'
    <2>1. TypeOK' BY <1>21 DEF DrainNext, TypeOK, Handles
    <2>2. StagesFit' BY <1>21 DEF DrainNext, TypeOK, StagesFit
    <2>3. TunnelsFit' BY <1>21 DEF DrainNext, TypeOK, StagesFit, TunnelsFit
    <2>4. HandlesFit'
      BY <1>21 DEF DrainNext, TypeOK, StagesFit, HandlesFit, Served, Swapped, Handles
    <2>5. ReplacedFit'
      BY <1>21 DEF DrainNext, TypeOK, HandlesFit, ReplacedFit, Served, Swapped, Handles
    <2> QED BY <2>1, <2>2, <2>3, <2>4, <2>5
  <1>22. ASSUME DrainContinues PROVE IInv'
    <2>1. TypeOK' BY <1>22 DEF DrainContinues, TypeOK, Handles
    <2>2. StagesFit' BY <1>22 DEF DrainContinues, TypeOK, StagesFit
    <2>3. TunnelsFit' BY <1>22 DEF DrainContinues, TypeOK, StagesFit, TunnelsFit
    <2>4. HandlesFit'
      BY <1>22 DEF DrainContinues, TypeOK, StagesFit, HandlesFit, Served, Swapped, Handles
    <2>5. ReplacedFit'
      BY <1>22 DEF DrainContinues, TypeOK, HandlesFit, ReplacedFit, Served, Swapped, Handles
    <2> QED BY <2>1, <2>2, <2>3, <2>4, <2>5
  <1>23. ASSUME DrainReturns PROVE IInv'
    <2>1. TypeOK' BY <1>23 DEF DrainReturns, TypeOK, Handles
    <2>2. StagesFit' BY <1>23 DEF DrainReturns, TypeOK, StagesFit
    <2>3. TunnelsFit' BY <1>23 DEF DrainReturns, TypeOK, StagesFit, TunnelsFit
    <2>4. HandlesFit'
      BY <1>23 DEF DrainReturns, TypeOK, StagesFit, HandlesFit, Served, Swapped, Handles
    <2>5. ReplacedFit'
      BY <1>23 DEF DrainReturns, TypeOK, HandlesFit, ReplacedFit, Served, Swapped, Handles
    <2> QED BY <2>1, <2>2, <2>3, <2>4, <2>5
  <1>24. ASSUME NEW c \in Conns, Dial(c) PROVE IInv'
    <2>1. TypeOK' BY <1>24 DEF Dial, TypeOK, Handles
    <2>2. StagesFit' BY <1>24 DEF Dial, TypeOK, StagesFit
    <2>3. TunnelsFit' BY <1>24 DEF Dial, TypeOK, StagesFit, TunnelsFit
    <2>4. HandlesFit'
      BY <1>24 DEF Dial, TypeOK, StagesFit, HandlesFit, Served, Swapped, Handles
    <2>5. ReplacedFit'
      BY <1>24 DEF Dial, TypeOK, HandlesFit, ReplacedFit, Served, Swapped, Handles
    <2> QED BY <2>1, <2>2, <2>3, <2>4, <2>5
  <1>25. ASSUME NEW c \in Conns, CopyEnds(c) PROVE IInv'
    <2>1. TypeOK' BY <1>25 DEF CopyEnds, TypeOK, Handles
    <2>2. StagesFit' BY <1>25 DEF CopyEnds, TypeOK, StagesFit
    <2>3. TunnelsFit' BY <1>25 DEF CopyEnds, TypeOK, StagesFit, TunnelsFit
    <2>4. HandlesFit'
      BY <1>25 DEF CopyEnds, TypeOK, StagesFit, HandlesFit, Served, Swapped, Handles
    <2>5. ReplacedFit'
      BY <1>25 DEF CopyEnds, TypeOK, HandlesFit, ReplacedFit, Served, Swapped, Handles
    <2> QED BY <2>1, <2>2, <2>3, <2>4, <2>5
  <1>26. ASSUME NEW c \in Conns, LeaveOnDone(c) PROVE IInv'
    <2>1. TypeOK' BY <1>26 DEF LeaveOnDone, TypeOK, Handles
    <2>2. StagesFit' BY <1>26 DEF LeaveOnDone, TypeOK, StagesFit
    <2>3. TunnelsFit' BY <1>26 DEF LeaveOnDone, TypeOK, StagesFit, TunnelsFit
    <2>4. HandlesFit'
      BY <1>26 DEF LeaveOnDone, TypeOK, StagesFit, HandlesFit, Served, Swapped, Handles
    <2>5. ReplacedFit'
      BY <1>26 DEF LeaveOnDone, TypeOK, HandlesFit, ReplacedFit, Served, Swapped, Handles
    <2> QED BY <2>1, <2>2, <2>3, <2>4, <2>5
  <1>27. CASE Finished \/ UNCHANGED vars
    BY <1>27 DEF Finished, vars, TypeOK, StagesFit, TunnelsFit, HandlesFit, ReplacedFit, Served, Swapped
  <1> QED
    BY <1>1, <1>2, <1>3, <1>4, <1>5, <1>6, <1>7, <1>8, <1>9, <1>10, <1>11,
       <1>12, <1>13, <1>14, <1>15, <1>16, <1>17, <1>18, <1>19, <1>20, <1>21,
       <1>22, <1>23, <1>24, <1>25, <1>26, <1>27 DEF Next, Closes, Drains

\* The invariant holds in every reachable state of the manager and its tunnels
\* (manager.go, tunnel.go).
THEOREM Invariance == SafetySpec => []IInv
  BY InitIInv, NextIInv, PTL DEF SafetySpec

\* However many switches, disconnects and tunnels run at once, a session a query can
\* find has an open handle and a working tunnel (manager.go:207-231).
THEOREM ListedSessionsAreOpen == SafetySpec => []ListedIsOpen
  <1>1. ASSUME IInv, NEW s \in sessions
        PROVE  /\ handle[db[s]] = "open"
               /\ s \in Tunnelled =>
                     listener[s] = "open" /\ sshClient[s] = "up" /\ acceptor[s] = "accept"
    <2>1. s \in Sessions /\ connect[s] = "returned" /\ teardown[s] = "no" /\ s \notin done
      BY <1>1 DEF IInv, TypeOK, StagesFit
    <2>2. handle[db[s]] = "open"
      BY <1>1, <2>1 DEF IInv, HandlesFit
    <2>3. ASSUME s \in Tunnelled
          PROVE  listener[s] = "open" /\ sshClient[s] = "up" /\ acceptor[s] = "accept"
      BY <1>1, <2>1, <2>3 DEF IInv, TypeOK, TunnelsFit
    <2> QED BY <2>2, <2>3
  <1>2. IInv => ListedIsOpen
    BY <1>1 DEF ListedIsOpen
  <1> QED BY <1>2, Invariance, PTL

\* Close gives the SSH client up only after every handler has ended, those accepted
\* while it runs included (tunnel.go).
THEOREM HandlersKeepTheClient == SafetySpec => []HandlersHaveClient
  <1>1. IInv => HandlersHaveClient
    BY DEF IInv, TypeOK, TunnelsFit, HandlersHaveClient
  <1> QED BY <1>1, Invariance, PTL

\* Switches that are over, no two of which read the same old handle, have closed every
\* handle of their session but the one in place: the race on Session.DB is the only
\* way SwitchDatabase loses one (manager.go:207-231).
THEOREM OnlyTheRaceLeaks == SafetySpec => []RacelessSwitchesCloseAll
  <1>1. ASSUME IInv, NEW s \in Sessions,
               \A x \in SwitchesOf(s) : switch[x] \in {"done", "failed"},
               \A x, y \in Replaced(s) : x # y => oldDB[x] # oldDB[y],
               NEW h \in HandlesOf(s) \ {db[s]}
        PROVE  handle[h] # "open"
    <2>1. Swapped(s) = Replaced(s)
      BY <1>1 DEF Swapped, Replaced, SwitchesOf
    <2>2. \A g \in Served(s) : db[s] # None /\ g # db[s] => \E x \in Swapped(s) : oldDB[x] = g
      BY <1>1, <2>1 DEF IInv, ReplacedFit
    <2>3. \A x \in Swapped(s) : handle[oldDB[x]] = "closed"
      BY <1>1, <2>1 DEF IInv, HandlesFit, Replaced, SwitchesOf
    <2>4. CASE db[s] = None
      <3>1. handle[s] = "none" /\ connect[s] # "returned" BY <1>1, <2>4 DEF IInv, HandlesFit
      <3>2. SwitchesOf(s) = {}
        BY <1>1, <3>1, HandlesAssumption DEF IInv, HandlesFit, SwitchesOf, Handles
      <3> QED BY <1>1, <3>1, <3>2 DEF HandlesOf, SwitchesOf
    <2>5. CASE db[s] # None /\ h \in Served(s)
      BY <1>1, <2>2, <2>3, <2>5
    <2>6. CASE h \in SwitchesOf(s) \ Swapped(s)
      BY <1>1, <2>6 DEF IInv, HandlesFit, SwitchesOf, Swapped
    <2> QED BY <1>1, <2>4, <2>5, <2>6 DEF HandlesOf, SwitchesOf, Served
  <1>2. IInv => RacelessSwitchesCloseAll
    BY <1>1 DEF RacelessSwitchesCloseAll
  <1> QED BY <1>2, Invariance, PTL
=============================================================================
