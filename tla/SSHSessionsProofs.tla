------------------------- MODULE SSHSessionsProofs -------------------------
(***************************************************************************)
(* Theorems about SSHSessions, for any number of calls and IDs.  They rest *)
(* on IInv, which is inductive when no two shells get the same ID: one     *)
(* step of NextIInv per action of Next, and under it one per conjunct the  *)
(* action can disturb.                                                     *)
(***************************************************************************)
EXTENDS SSHSessions, TLAPS

USE NoCallAssumption, NoIdAssumption

\* The empty manager satisfies the invariant.
THEOREM InitIInv == Init => IInv
  <1> SUFFICES ASSUME Init PROVE IInv OBVIOUS
  <1>1. TypeOK
    BY DEF Init, TypeOK, PCs, ConnStates, ShellStates, WaiterStates
  <1>2. CallsFit /\ IdsDiffer /\ MapFits /\ OnlyRemovedOwe
    BY DEF Init, CallsFit, IdsDiffer, MapFits, OnlyRemovedOwe, Registered, Established
  <1>3. EstablishedIsManaged /\ DrainFits
    BY DEF Init, EstablishedIsManaged, DrainFits, Established
  <1>4. NoClientLeak /\ DiallerKeepsClient
    BY DEF Init, NoClientLeak, DiallerKeepsClient, Held, Connecting, Registered
  <1> QED BY <1>1, <1>2, <1>3, <1>4 DEF IInv

\* No step of a call, a disconnect, a waiter, DisconnectAll, the server or the
\* network leaves the invariant.
THEOREM NextIInv == ASSUME UniqueIds PROVE IInv /\ [Next]_vars => IInv'
  <1> SUFFICES ASSUME IInv, [Next]_vars PROVE IInv' OBVIOUS
  <1> USE DEF IInv
  <1>1. ASSUME NEW c \in Calls, Dial(c) PROVE IInv'
    <2>1. TypeOK'
      BY <1>1 DEF Dial, TypeOK, callVars, drainVars, PCs, ConnStates,
         ShellStates, WaiterStates
    <2>2. CallsFit'
      BY <1>1, <2>1 DEF Dial, TypeOK, CallsFit, MapFits, Registered,
         Established, callVars, drainVars
    <2>3. MapFits'
      BY <1>1, <2>1 DEF Dial, TypeOK, CallsFit, MapFits, Established,
         callVars, drainVars
    <2>4. OnlyRemovedOwe'
      BY <1>1, <2>1 DEF Dial, TypeOK, CallsFit, MapFits, OnlyRemovedOwe,
         Registered, Established, callVars, drainVars
    <2>5. EstablishedIsManaged'
      BY <1>1, <2>1 DEF Dial, TypeOK, CallsFit, IdsDiffer, MapFits,
         EstablishedIsManaged, Established, callVars, drainVars
    <2>6. DrainFits'
      BY <1>1, <2>1 DEF Dial, TypeOK, CallsFit, IdsDiffer, MapFits, DrainFits,
         Established, callVars, drainVars
    <2>7. NoClientLeak'
      BY <1>1, <2>1 DEF Dial, TypeOK, CallsFit, IdsDiffer, MapFits,
         OnlyRemovedOwe, NoClientLeak, Held, Connecting, Registered,
         Established, callVars, drainVars
    <2>8. DiallerKeepsClient'
      BY <1>1, <2>1 DEF Dial, TypeOK, CallsFit, IdsDiffer, MapFits,
         OnlyRemovedOwe, DiallerKeepsClient, Held, Connecting, Registered,
         Established, callVars, drainVars
    <2>9. IdsDiffer'
      BY <1>1 DEF Dial, IdsDiffer, callVars, drainVars
    <2> QED BY <2>1, <2>2, <2>3, <2>4, <2>5, <2>6, <2>7, <2>8, <2>9
  <1>2. ASSUME NEW c \in Calls, NEW i \in Ids, LookUp(c, i) PROVE IInv'
    <2>1. TypeOK'
      BY <1>2 DEF LookUp, TypeOK, callVars, drainVars, PCs, ConnStates,
         ShellStates, WaiterStates
    <2>2. CallsFit'
      BY <1>2, <2>1 DEF LookUp, TypeOK, CallsFit, MapFits, Registered,
         Established, callVars, drainVars
    <2>3. MapFits'
      BY <1>2, <2>1 DEF LookUp, TypeOK, CallsFit, MapFits, Established,
         callVars, drainVars
    <2>4. OnlyRemovedOwe'
      BY <1>2, <2>1 DEF LookUp, TypeOK, CallsFit, MapFits, OnlyRemovedOwe,
         Registered, Established, callVars, drainVars
    <2>5. EstablishedIsManaged'
      BY <1>2, <2>1 DEF LookUp, TypeOK, CallsFit, IdsDiffer, MapFits,
         EstablishedIsManaged, Established, callVars, drainVars
    <2>6. DrainFits'
      BY <1>2, <2>1 DEF LookUp, TypeOK, CallsFit, IdsDiffer, MapFits,
         DrainFits, Established, callVars, drainVars
    <2>7. NoClientLeak'
      BY <1>2, <2>1 DEF LookUp, TypeOK, CallsFit, IdsDiffer, MapFits,
         OnlyRemovedOwe, NoClientLeak, Held, Connecting, Registered,
         Established, callVars, drainVars
    <2>8. DiallerKeepsClient'
      BY <1>2, <2>1 DEF LookUp, TypeOK, CallsFit, IdsDiffer, MapFits,
         OnlyRemovedOwe, DiallerKeepsClient, Held, Connecting, Registered,
         Established, callVars, drainVars
    <2>9. IdsDiffer'
      BY <1>2 DEF LookUp, IdsDiffer, callVars, drainVars
    <2> QED BY <2>1, <2>2, <2>3, <2>4, <2>5, <2>6, <2>7, <2>8, <2>9
  <1>3. ASSUME NEW c \in Calls, NEW i \in Ids, OpenShell(c, i) PROVE IInv'
    <2>1. TypeOK'
      BY <1>3 DEF OpenShell, Mintable, TypeOK, callVars, drainVars, PCs,
         ConnStates, ShellStates, WaiterStates
    <2>2. CallsFit'
      BY <1>3, <2>1 DEF OpenShell, Mintable, TypeOK, CallsFit, MapFits,
         Registered, Established, callVars, drainVars
    <2>3. IdsDiffer'
      BY <1>3, <2>1 DEF OpenShell, Mintable, TypeOK, CallsFit, IdsDiffer,
         Established, callVars, drainVars
    <2>4. MapFits'
      BY <1>3, <2>1 DEF OpenShell, Mintable, TypeOK, CallsFit, MapFits,
         Established, callVars, drainVars
    <2>5. OnlyRemovedOwe'
      BY <1>3, <2>1 DEF OpenShell, Mintable, TypeOK, CallsFit, MapFits,
         OnlyRemovedOwe, Registered, Established, callVars, drainVars
    <2>6. EstablishedIsManaged'
      BY <1>3, <2>1 DEF OpenShell, Mintable, TypeOK, CallsFit, IdsDiffer,
         MapFits, EstablishedIsManaged, Established, callVars, drainVars
    <2>7. DrainFits'
      BY <1>3, <2>1 DEF OpenShell, Mintable, TypeOK, CallsFit, IdsDiffer,
         MapFits, DrainFits, Established, callVars, drainVars
    <2>8. NoClientLeak'
      BY <1>3, <2>1 DEF OpenShell, Mintable, TypeOK, CallsFit, IdsDiffer,
         MapFits, OnlyRemovedOwe, NoClientLeak, Held, Connecting, Registered,
         Established, callVars, drainVars
    <2>9. DiallerKeepsClient'
      BY <1>3, <2>1 DEF OpenShell, Mintable, TypeOK, CallsFit, IdsDiffer,
         MapFits, OnlyRemovedOwe, DiallerKeepsClient, Held, Connecting,
         Registered, Established, callVars, drainVars
    <2> QED BY <2>1, <2>2, <2>3, <2>4, <2>5, <2>6, <2>7, <2>8, <2>9
  <1>4. ASSUME NEW c \in Calls, OpenShellFails(c) PROVE IInv'
    <2>1. TypeOK'
      BY <1>4 DEF OpenShellFails, TypeOK, callVars, drainVars, PCs,
         ConnStates, ShellStates, WaiterStates
    <2>2. CallsFit'
      BY <1>4, <2>1 DEF OpenShellFails, TypeOK, CallsFit, MapFits, Registered,
         Established, callVars, drainVars
    <2>3. MapFits'
      BY <1>4, <2>1 DEF OpenShellFails, TypeOK, CallsFit, MapFits,
         Established, callVars, drainVars
    <2>4. OnlyRemovedOwe'
      BY <1>4, <2>1 DEF OpenShellFails, TypeOK, CallsFit, MapFits,
         OnlyRemovedOwe, Registered, Established, callVars, drainVars
    <2>5. EstablishedIsManaged'
      BY <1>4, <2>1 DEF OpenShellFails, TypeOK, CallsFit, IdsDiffer, MapFits,
         EstablishedIsManaged, Established, callVars, drainVars
    <2>6. DrainFits'
      BY <1>4, <2>1 DEF OpenShellFails, TypeOK, CallsFit, IdsDiffer, MapFits,
         DrainFits, Established, callVars, drainVars
    <2>7. NoClientLeak'
      BY <1>4, <2>1 DEF OpenShellFails, TypeOK, CallsFit, IdsDiffer, MapFits,
         OnlyRemovedOwe, NoClientLeak, Held, Connecting, Registered,
         Established, callVars, drainVars
    <2>8. DiallerKeepsClient'
      BY <1>4, <2>1 DEF OpenShellFails, TypeOK, CallsFit, IdsDiffer, MapFits,
         OnlyRemovedOwe, DiallerKeepsClient, Held, Connecting, Registered,
         Established, callVars, drainVars
    <2>9. IdsDiffer'
      BY <1>4 DEF OpenShellFails, IdsDiffer, callVars, drainVars
    <2> QED BY <2>1, <2>2, <2>3, <2>4, <2>5, <2>6, <2>7, <2>8, <2>9
  <1>5. ASSUME NEW c \in Calls, Insert(c) PROVE IInv'
    <2>1. TypeOK'
      BY <1>5 DEF Insert, TypeOK, callVars, drainVars, PCs, ConnStates,
         ShellStates, WaiterStates
    <2>2. CallsFit'
      BY <1>5, <2>1 DEF Insert, TypeOK, CallsFit, MapFits, Registered,
         Established, callVars, drainVars
    <2>3. MapFits'
      BY <1>5, <2>1 DEF Insert, TypeOK, CallsFit, MapFits, Established,
         callVars, drainVars
    <2>4. OnlyRemovedOwe'
      BY <1>5, <2>1 DEF Insert, TypeOK, CallsFit, MapFits, OnlyRemovedOwe,
         Registered, Established, callVars, drainVars
    <2>5. EstablishedIsManaged'
      BY <1>5, <2>1 DEF Insert, TypeOK, CallsFit, IdsDiffer, MapFits,
         EstablishedIsManaged, Established, callVars, drainVars
    <2>6. DrainFits'
      BY <1>5, <2>1 DEF Insert, TypeOK, CallsFit, IdsDiffer, MapFits,
         DrainFits, Established, callVars, drainVars
    <2>7. NoClientLeak'
      BY <1>5, <2>1 DEF Insert, TypeOK, CallsFit, IdsDiffer, MapFits,
         OnlyRemovedOwe, NoClientLeak, Held, Connecting, Registered,
         Established, callVars, drainVars
    <2>8. DiallerKeepsClient'
      BY <1>5, <2>1 DEF Insert, TypeOK, CallsFit, IdsDiffer, MapFits,
         OnlyRemovedOwe, DiallerKeepsClient, Held, Connecting, Registered,
         Established, callVars, drainVars
    <2>9. IdsDiffer'
      BY <1>5 DEF Insert, IdsDiffer, callVars, drainVars
    <2> QED BY <2>1, <2>2, <2>3, <2>4, <2>5, <2>6, <2>7, <2>8, <2>9
  <1>6. ASSUME NEW c \in Calls, StartGoroutines(c) PROVE IInv'
    <2>1. TypeOK'
      BY <1>6 DEF StartGoroutines, TypeOK, callVars, drainVars, PCs,
         ConnStates, ShellStates, WaiterStates
    <2>2. CallsFit'
      BY <1>6, <2>1 DEF StartGoroutines, TypeOK, CallsFit, MapFits,
         Registered, Established, callVars, drainVars
    <2>3. MapFits'
      BY <1>6, <2>1 DEF StartGoroutines, TypeOK, CallsFit, MapFits,
         Established, callVars, drainVars
    <2>4. OnlyRemovedOwe'
      BY <1>6, <2>1 DEF StartGoroutines, TypeOK, CallsFit, MapFits,
         OnlyRemovedOwe, Registered, Established, callVars, drainVars
    <2>5. EstablishedIsManaged'
      BY <1>6, <2>1 DEF StartGoroutines, TypeOK, CallsFit, IdsDiffer, MapFits,
         EstablishedIsManaged, Established, callVars, drainVars
    <2>6. DrainFits'
      BY <1>6, <2>1 DEF StartGoroutines, TypeOK, CallsFit, IdsDiffer, MapFits,
         DrainFits, Established, callVars, drainVars
    <2>7. NoClientLeak'
      BY <1>6, <2>1 DEF StartGoroutines, TypeOK, CallsFit, IdsDiffer, MapFits,
         OnlyRemovedOwe, NoClientLeak, Held, Connecting, Registered,
         Established, callVars, drainVars
    <2>8. DiallerKeepsClient'
      BY <1>6, <2>1 DEF StartGoroutines, TypeOK, CallsFit, IdsDiffer, MapFits,
         OnlyRemovedOwe, DiallerKeepsClient, Held, Connecting, Registered,
         Established, callVars, drainVars
    <2>9. IdsDiffer'
      BY <1>6 DEF StartGoroutines, IdsDiffer, callVars, drainVars
    <2> QED BY <2>1, <2>2, <2>3, <2>4, <2>5, <2>6, <2>7, <2>8, <2>9
  <1>7. ASSUME NEW i \in Ids, UserDisconnect(i) PROVE IInv'
    <2>1. TypeOK'
      BY <1>7 DEF UserDisconnect, Disconnect, ClientStillUsed, TypeOK,
         callVars, drainVars, PCs, ConnStates, ShellStates, WaiterStates
    <2>2. CallsFit'
      BY <1>7, <2>1 DEF UserDisconnect, Disconnect, ClientStillUsed, TypeOK,
         CallsFit, MapFits, Registered, Established, callVars, drainVars
    <2>3. MapFits'
      BY <1>7, <2>1 DEF UserDisconnect, Disconnect, ClientStillUsed, TypeOK,
         CallsFit, MapFits, Established, callVars, drainVars
    <2>4. OnlyRemovedOwe'
      BY <1>7, <2>1 DEF UserDisconnect, Disconnect, ClientStillUsed, TypeOK,
         CallsFit, MapFits, OnlyRemovedOwe, Registered, Established, callVars,
         drainVars
    <2>5. EstablishedIsManaged'
      BY <1>7, <2>1 DEF UserDisconnect, Disconnect, ClientStillUsed, TypeOK,
         CallsFit, IdsDiffer, MapFits, EstablishedIsManaged, Established,
         callVars, drainVars
    <2>6. DrainFits'
      BY <1>7, <2>1 DEF UserDisconnect, Disconnect, ClientStillUsed, TypeOK,
         CallsFit, IdsDiffer, MapFits, DrainFits, Established, callVars,
         drainVars
    <2>7. NoClientLeak'
      BY <1>7, <2>1 DEF UserDisconnect, Disconnect, ClientStillUsed, TypeOK,
         CallsFit, IdsDiffer, MapFits, OnlyRemovedOwe, NoClientLeak, Held,
         Connecting, Registered, Established, callVars, drainVars
    <2>8. DiallerKeepsClient'
      BY <1>7, <2>1 DEF UserDisconnect, Disconnect, ClientStillUsed, TypeOK,
         CallsFit, IdsDiffer, MapFits, OnlyRemovedOwe, DiallerKeepsClient,
         Held, Connecting, Registered, Established, callVars, drainVars
    <2>9. IdsDiffer'
      BY <1>7 DEF UserDisconnect, Disconnect, ClientStillUsed, IdsDiffer,
         callVars, drainVars
    <2> QED BY <2>1, <2>2, <2>3, <2>4, <2>5, <2>6, <2>7, <2>8, <2>9
  <1>8. ASSUME NEW c \in Calls, CloseShell(c) PROVE IInv'
    <2>1. TypeOK'
      BY <1>8 DEF CloseShell, TypeOK, callVars, drainVars, PCs, ConnStates,
         ShellStates, WaiterStates
    <2>2. OnlyRemovedOwe'
      BY <1>8, <2>1 DEF CloseShell, TypeOK, CallsFit, MapFits, OnlyRemovedOwe,
         Registered, Established, callVars, drainVars
    <2>3. EstablishedIsManaged'
      BY <1>8, <2>1 DEF CloseShell, TypeOK, CallsFit, IdsDiffer, MapFits,
         EstablishedIsManaged, Established, callVars, drainVars
    <2>4. NoClientLeak'
      BY <1>8, <2>1 DEF CloseShell, TypeOK, CallsFit, IdsDiffer, MapFits,
         OnlyRemovedOwe, NoClientLeak, Held, Connecting, Registered,
         Established, callVars, drainVars
    <2>5. DiallerKeepsClient'
      BY <1>8, <2>1 DEF CloseShell, TypeOK, CallsFit, IdsDiffer, MapFits,
         OnlyRemovedOwe, DiallerKeepsClient, Held, Connecting, Registered,
         Established, callVars, drainVars
    <2>6. CallsFit' /\ IdsDiffer' /\ MapFits' /\ DrainFits'
      BY <1>8 DEF CloseShell, CallsFit, IdsDiffer, MapFits, DrainFits,
         Established, Registered, callVars, drainVars
    <2> QED BY <2>1, <2>2, <2>3, <2>4, <2>5, <2>6
  <1>9. ASSUME NEW c \in Calls, CloseClient(c) PROVE IInv'
    <2>1. TypeOK'
      BY <1>9 DEF CloseClient, EndShellsOf, TypeOK, callVars, drainVars, PCs,
         ConnStates, ShellStates, WaiterStates
    <2>2. CallsFit'
      BY <1>9, <2>1 DEF CloseClient, EndShellsOf, TypeOK, CallsFit, MapFits,
         Registered, Established, callVars, drainVars
    <2>3. OnlyRemovedOwe'
      BY <1>9, <2>1 DEF CloseClient, EndShellsOf, TypeOK, CallsFit, MapFits,
         OnlyRemovedOwe, Registered, Established, callVars, drainVars
    <2>4. EstablishedIsManaged'
      BY <1>9, <2>1 DEF CloseClient, EndShellsOf, TypeOK, CallsFit, IdsDiffer,
         MapFits, EstablishedIsManaged, Established, callVars, drainVars
    <2>5. NoClientLeak'
      BY <1>9, <2>1 DEF CloseClient, EndShellsOf, TypeOK, CallsFit, IdsDiffer,
         MapFits, OnlyRemovedOwe, NoClientLeak, Held, Connecting, Registered,
         Established, callVars, drainVars
    <2>6. DiallerKeepsClient'
      BY <1>9, <2>1 DEF CloseClient, EndShellsOf, TypeOK, CallsFit, IdsDiffer,
         MapFits, OnlyRemovedOwe, DiallerKeepsClient, Held, Connecting,
         Registered, Established, callVars, drainVars
    <2>7. IdsDiffer' /\ MapFits' /\ DrainFits'
      BY <1>9 DEF CloseClient, IdsDiffer, MapFits, DrainFits, Established,
         callVars, drainVars
    <2> QED BY <2>1, <2>2, <2>3, <2>4, <2>5, <2>6, <2>7
  <1>10. ASSUME NEW c \in Calls, WaitReturns(c) PROVE IInv'
    <2>1. TypeOK'
      BY <1>10 DEF WaitReturns, TypeOK, callVars, drainVars, PCs, ConnStates,
         ShellStates, WaiterStates
    <2>2. CallsFit'
      BY <1>10, <2>1 DEF WaitReturns, TypeOK, CallsFit, MapFits, Registered,
         Established, callVars, drainVars
    <2>3. IdsDiffer' /\ MapFits' /\ OnlyRemovedOwe' /\ EstablishedIsManaged' /\ DrainFits' /\ NoClientLeak' /\ DiallerKeepsClient'
      BY <1>10 DEF WaitReturns, IdsDiffer, MapFits, OnlyRemovedOwe,
         EstablishedIsManaged, DrainFits, NoClientLeak, DiallerKeepsClient,
         Connecting, Established, Held, Registered, callVars, drainVars
    <2> QED BY <2>1, <2>2, <2>3
  <1>11. ASSUME NEW c \in Calls, WaiterDisconnects(c) PROVE IInv'
    <2>1. TypeOK'
      BY <1>11 DEF WaiterDisconnects, Disconnect, ClientStillUsed, TypeOK,
         callVars, drainVars, PCs, ConnStates, ShellStates, WaiterStates
    <2>2. CallsFit'
      BY <1>11, <2>1 DEF WaiterDisconnects, Disconnect, ClientStillUsed,
         TypeOK, CallsFit, MapFits, Registered, Established, callVars,
         drainVars
    <2>3. MapFits'
      BY <1>11, <2>1 DEF WaiterDisconnects, Disconnect, ClientStillUsed,
         TypeOK, CallsFit, MapFits, Established, callVars, drainVars
    <2>4. OnlyRemovedOwe'
      BY <1>11, <2>1 DEF WaiterDisconnects, Disconnect, ClientStillUsed,
         TypeOK, CallsFit, MapFits, OnlyRemovedOwe, Registered, Established,
         callVars, drainVars
    <2>5. EstablishedIsManaged'
      BY <1>11, <2>1 DEF WaiterDisconnects, Disconnect, ClientStillUsed,
         TypeOK, CallsFit, IdsDiffer, MapFits, EstablishedIsManaged,
         Established, callVars, drainVars
    <2>6. DrainFits'
      BY <1>11, <2>1 DEF WaiterDisconnects, Disconnect, ClientStillUsed,
         TypeOK, CallsFit, IdsDiffer, MapFits, DrainFits, Established,
         callVars, drainVars
    <2>7. NoClientLeak'
      BY <1>11, <2>1 DEF WaiterDisconnects, Disconnect, ClientStillUsed,
         TypeOK, CallsFit, IdsDiffer, MapFits, OnlyRemovedOwe, NoClientLeak,
         Held, Connecting, Registered, Established, callVars, drainVars
    <2>8. DiallerKeepsClient'
      BY <1>11, <2>1 DEF WaiterDisconnects, Disconnect, ClientStillUsed,
         TypeOK, CallsFit, IdsDiffer, MapFits, OnlyRemovedOwe,
         DiallerKeepsClient, Held, Connecting, Registered, Established,
         callVars, drainVars
    <2>9. IdsDiffer'
      BY <1>11 DEF WaiterDisconnects, Disconnect, ClientStillUsed, IdsDiffer,
         callVars, drainVars
    <2> QED BY <2>1, <2>2, <2>3, <2>4, <2>5, <2>6, <2>7, <2>8, <2>9
  <1>12. ASSUME DisconnectAll PROVE IInv'
    <2>1. TypeOK'
      BY <1>12 DEF DisconnectAll, TypeOK, callVars, drainVars, PCs,
         ConnStates, ShellStates, WaiterStates
    <2>2. DrainFits'
      BY <1>12, <2>1 DEF DisconnectAll, TypeOK, CallsFit, IdsDiffer, MapFits,
         DrainFits, Established, callVars, drainVars
    <2>3. CallsFit' /\ IdsDiffer' /\ MapFits' /\ OnlyRemovedOwe' /\ EstablishedIsManaged' /\ NoClientLeak' /\ DiallerKeepsClient'
      BY <1>12 DEF DisconnectAll, CallsFit, IdsDiffer, MapFits,
         OnlyRemovedOwe, EstablishedIsManaged, NoClientLeak,
         DiallerKeepsClient, Connecting, Established, Held, Registered,
         callVars, drainVars
    <2> QED BY <2>1, <2>2, <2>3
  <1>13. ASSUME NEW i \in Ids, DisconnectNext(i) PROVE IInv'
    <2>1. TypeOK'
      BY <1>13 DEF DisconnectNext, Disconnect, ClientStillUsed, TypeOK,
         callVars, drainVars, PCs, ConnStates, ShellStates, WaiterStates
    <2>2. CallsFit'
      BY <1>13, <2>1 DEF DisconnectNext, Disconnect, ClientStillUsed, TypeOK,
         CallsFit, MapFits, Registered, Established, callVars, drainVars
    <2>3. MapFits'
      BY <1>13, <2>1 DEF DisconnectNext, Disconnect, ClientStillUsed, TypeOK,
         CallsFit, MapFits, Established, callVars, drainVars
    <2>4. OnlyRemovedOwe'
      BY <1>13, <2>1 DEF DisconnectNext, Disconnect, ClientStillUsed, TypeOK,
         CallsFit, MapFits, OnlyRemovedOwe, Registered, Established, callVars,
         drainVars
    <2>5. EstablishedIsManaged'
      BY <1>13, <2>1 DEF DisconnectNext, Disconnect, ClientStillUsed, TypeOK,
         CallsFit, IdsDiffer, MapFits, EstablishedIsManaged, Established,
         callVars, drainVars
    <2>6. DrainFits'
      BY <1>13, <2>1 DEF DisconnectNext, Disconnect, ClientStillUsed, TypeOK,
         CallsFit, IdsDiffer, MapFits, DrainFits, Established, callVars,
         drainVars
    <2>7. NoClientLeak'
      BY <1>13, <2>1 DEF DisconnectNext, Disconnect, ClientStillUsed, TypeOK,
         CallsFit, IdsDiffer, MapFits, OnlyRemovedOwe, NoClientLeak, Held,
         Connecting, Registered, Established, callVars, drainVars
    <2>8. DiallerKeepsClient'
      BY <1>13, <2>1 DEF DisconnectNext, Disconnect, ClientStillUsed, TypeOK,
         CallsFit, IdsDiffer, MapFits, OnlyRemovedOwe, DiallerKeepsClient,
         Held, Connecting, Registered, Established, callVars, drainVars
    <2>9. IdsDiffer'
      BY <1>13 DEF DisconnectNext, Disconnect, ClientStillUsed, IdsDiffer,
         callVars, drainVars
    <2> QED BY <2>1, <2>2, <2>3, <2>4, <2>5, <2>6, <2>7, <2>8, <2>9
  <1>14. ASSUME DisconnectAllReturns PROVE IInv'
    <2>1. TypeOK'
      BY <1>14 DEF DisconnectAllReturns, TypeOK, callVars, drainVars, PCs,
         ConnStates, ShellStates, WaiterStates
    <2>2. DrainFits'
      BY <1>14, <2>1 DEF DisconnectAllReturns, TypeOK, CallsFit, IdsDiffer,
         MapFits, DrainFits, Established, callVars, drainVars
    <2>3. CallsFit' /\ IdsDiffer' /\ MapFits' /\ OnlyRemovedOwe' /\ EstablishedIsManaged' /\ NoClientLeak' /\ DiallerKeepsClient'
      BY <1>14 DEF DisconnectAllReturns, CallsFit, IdsDiffer, MapFits,
         OnlyRemovedOwe, EstablishedIsManaged, NoClientLeak,
         DiallerKeepsClient, Connecting, Established, Held, Registered,
         callVars, drainVars
    <2> QED BY <2>1, <2>2, <2>3
  <1>15. ASSUME NEW c \in Calls, ShellEnds(c) PROVE IInv'
    <2>1. TypeOK'
      BY <1>15 DEF ShellEnds, TypeOK, callVars, drainVars, PCs, ConnStates,
         ShellStates, WaiterStates
    <2>2. EstablishedIsManaged'
      BY <1>15, <2>1 DEF ShellEnds, TypeOK, CallsFit, IdsDiffer, MapFits,
         EstablishedIsManaged, Established, callVars, drainVars
    <2>3. CallsFit' /\ IdsDiffer' /\ MapFits' /\ OnlyRemovedOwe' /\ DrainFits' /\ NoClientLeak' /\ DiallerKeepsClient'
      BY <1>15 DEF ShellEnds, CallsFit, IdsDiffer, MapFits, OnlyRemovedOwe,
         DrainFits, NoClientLeak, DiallerKeepsClient, Connecting, Established,
         Held, Registered, callVars, drainVars
    <2> QED BY <2>1, <2>2, <2>3
  <1>16. ASSUME NEW c \in Calls, ConnectionLost(c) PROVE IInv'
    <2>1. TypeOK'
      BY <1>16 DEF ConnectionLost, EndShellsOf, TypeOK, callVars, drainVars,
         PCs, ConnStates, ShellStates, WaiterStates
    <2>2. CallsFit'
      BY <1>16, <2>1 DEF ConnectionLost, EndShellsOf, TypeOK, CallsFit,
         MapFits, Registered, Established, callVars, drainVars
    <2>3. EstablishedIsManaged'
      BY <1>16, <2>1 DEF ConnectionLost, EndShellsOf, TypeOK, CallsFit,
         IdsDiffer, MapFits, EstablishedIsManaged, Established, callVars,
         drainVars
    <2>4. NoClientLeak'
      BY <1>16, <2>1 DEF ConnectionLost, EndShellsOf, TypeOK, CallsFit,
         IdsDiffer, MapFits, OnlyRemovedOwe, NoClientLeak, Held, Connecting,
         Registered, Established, callVars, drainVars
    <2>5. DiallerKeepsClient'
      BY <1>16, <2>1 DEF ConnectionLost, EndShellsOf, TypeOK, CallsFit,
         IdsDiffer, MapFits, OnlyRemovedOwe, DiallerKeepsClient, Held,
         Connecting, Registered, Established, callVars, drainVars
    <2>6. IdsDiffer' /\ MapFits' /\ OnlyRemovedOwe' /\ DrainFits'
      BY <1>16 DEF ConnectionLost, IdsDiffer, MapFits, OnlyRemovedOwe,
         DrainFits, Established, Registered, callVars, drainVars
    <2> QED BY <2>1, <2>2, <2>3, <2>4, <2>5, <2>6
  <1>17. CASE UNCHANGED vars
    <2>1. /\ TypeOK' /\ CallsFit' /\ IdsDiffer' /\ MapFits'
          /\ OnlyRemovedOwe' /\ EstablishedIsManaged' /\ DrainFits'
      BY <1>17 DEF vars, TypeOK, CallsFit, IdsDiffer, MapFits, OnlyRemovedOwe,
         EstablishedIsManaged, DrainFits, Registered, Established
    <2>2. NoClientLeak' /\ DiallerKeepsClient'
      BY <1>17 DEF vars, NoClientLeak, DiallerKeepsClient, Held, Connecting,
         Registered
    <2> QED BY <2>1, <2>2
  <1> QED
    BY <1>1, <1>2, <1>3, <1>4, <1>5, <1>6, <1>7, <1>8, <1>9, <1>10, <1>11,
       <1>12, <1>13, <1>14, <1>15, <1>16, <1>17 DEF Next

\* The invariant holds in every reachable state of the manager (session.go).
THEOREM Invariance == ASSUME UniqueIds PROVE SafetySpec => []IInv
  <1>1. Init => IInv BY InitIInv
  <1>2. IInv /\ [Next]_vars => IInv' BY NextIInv
  <1> QED BY <1>1, <1>2, PTL DEF SafetySpec

\* No client leaks, however many shells share it and in whatever order they are
\* opened and disconnected (Disconnect, session.go:316-343).
THEOREM ClientOwnership == ASSUME UniqueIds PROVE SafetySpec => []NoClientLeak
  <1>1. IInv => NoClientLeak BY DEF IInv
  <1> QED BY <1>1, Invariance, PTL

\* The session that dialled a client is not left on a closed one by the
\* Disconnect of a session that shares it (session.go:338).
THEOREM DialledClientIsKept == ASSUME UniqueIds PROVE SafetySpec => []DiallerKeepsClient
  <1>1. IInv => DiallerKeepsClient BY DEF IInv
  <1> QED BY <1>1, Invariance, PTL

\* Every session in the map has a waitSession that will remove it, and every
\* running shell whose ID Connect or OpenNewShell returned is in the map.
THEOREM MapMatchesShells ==
    ASSUME UniqueIds PROVE SafetySpec => [](EveryEntryIsWaitedFor /\ RunningIsManaged)
  <1>1. IInv => EveryEntryIsWaitedFor
    BY DEF IInv, TypeOK, CallsFit, MapFits, Registered, Established, WaiterStates,
       EveryEntryIsWaitedFor
  <1>2. IInv => RunningIsManaged
    BY DEF IInv, EstablishedIsManaged, Established, RunningIsManaged
  <1> QED BY <1>1, <1>2, Invariance, PTL

\* DisconnectAll (session.go:346-357) returns with every session it found removed.
THEOREM DrainRemovesSnapshot ==
    ASSUME UniqueIds PROVE SafetySpec => []DrainedAreGone
  <1>1. IInv => DrainedAreGone BY DEF IInv, DrainFits, DrainedAreGone
  <1> QED BY <1>1, Invariance, PTL

\* The manager implements the reference count: under the invariant each of its
\* steps is a step of SharedClients or leaves the count alone.
THEOREM StepRefines ==
    ASSUME UniqueIds PROVE IInv /\ IInv' /\ [Next]_vars => [Shared!Next]_(Shared!vars)
  <1> SUFFICES ASSUME IInv, IInv', [Next]_vars PROVE [Shared!Next]_(Shared!vars)
    OBVIOUS
  <1> USE DEF IInv, Shared!vars, Shared!Next
  <1>1. ASSUME NEW c \in Calls, Dial(c) PROVE Shared!Dial(c)
    <2>0. /\ \A d \in Calls \ {c} : client'[d] = client[d] /\ (Uses(d)' <=> Uses(d))
          /\ client[c] = NoCall /\ client'[c] = c /\ Uses(c)'
          /\ \A d \in Calls : client[d] # c
      BY <1>1 DEF Dial, Uses, Connecting, Registered, TypeOK, CallsFit, Established
    <2>1. Holders' = [Holders EXCEPT ![c] = {c}]
      <3>1. \A k \in Calls : Holders'[k] = IF k = c THEN {c} ELSE Holders[k]
        BY <2>0 DEF Holders
      <3> QED BY <3>1 DEF Holders
    <2>2. Condemned' = Condemned
      BY <1>1 DEF Dial, Condemned, TypeOK, CallsFit, OnlyRemovedOwe, Established
    <2> QED BY <1>1, <2>1, <2>2 DEF Dial, Shared!Dial, CallsFit
  <1>2. ASSUME NEW c \in Calls, NEW i \in Ids, LookUp(c, i) \/ OpenShell(c, i)
        PROVE UNCHANGED Shared!vars
    <2>1. Holders' = Holders
      BY <1>2 DEF LookUp, OpenShell, Holders, Uses, Connecting, Registered, TypeOK, CallsFit, MapFits, Established
    <2>2. Condemned' = Condemned
      BY <1>2 DEF LookUp, OpenShell, Condemned, TypeOK, CallsFit, OnlyRemovedOwe, Established
    <2> QED BY <1>2, <2>1, <2>2 DEF LookUp, OpenShell
  <1>3. ASSUME NEW c \in Calls, OpenShellFails(c)
        PROVE Shared!Abandon(c) \/ UNCHANGED Shared!vars
    <2>1. CASE pc[c] = "dialed"
      <3>1. Holders[c] = {c}
        BY <1>3, <2>1 DEF Holders, Uses, Connecting, Registered, TypeOK, CallsFit, MapFits, Established
      <3>0. /\ \A d \in Calls \ {c} : Uses(d)' <=> Uses(d)
            /\ ~Uses(c)' /\ client[c] = c /\ client' = client
        BY <1>3, <2>1 DEF OpenShellFails, Uses, Connecting, Registered, TypeOK, CallsFit, MapFits, Established
      <3>2. Holders' = [Holders EXCEPT ![c] = {}]
        <4>1. \A k \in Calls : Holders'[k] = IF k = c THEN {} ELSE Holders[k]
          BY <3>0, <3>1 DEF Holders
        <4> QED BY <4>1 DEF Holders
      <3>3. Condemned' = Condemned
        BY <1>3 DEF OpenShellFails, Condemned
      <3> QED BY <1>3, <2>1, <3>1, <3>2, <3>3 DEF OpenShellFails, Shared!Abandon
    <2>2. CASE pc[c] = "looked"
      <3>1. Holders' = Holders
        BY <1>3, <2>2 DEF OpenShellFails, Holders, Uses, Connecting, Registered, TypeOK, CallsFit
      <3>2. Condemned' = Condemned /\ conn' = conn
        BY <1>3, <2>2 DEF OpenShellFails, Condemned
      <3> QED BY <3>1, <3>2
    <2> QED BY <1>3, <2>1, <2>2 DEF OpenShellFails
  <1>4. ASSUME NEW c \in Calls, Insert(c)
        PROVE Shared!Join(client[c], c) \/ UNCHANGED Shared!vars
    <2>1. Condemned' = Condemned /\ conn' = conn
      BY <1>4 DEF Insert, Condemned
    <2>2. client[c] \in Calls
      BY <1>4 DEF Insert, TypeOK, CallsFit
    <2>3. CASE client[c] = c
      <3>1. Holders' = Holders
        BY <1>4, <2>3 DEF Insert, Holders, Uses, Connecting, Registered, TypeOK, CallsFit, IdsDiffer, MapFits, Established
      <3> QED BY <2>1, <3>1
    <2>4. CASE client[c] # c
      <3>0. /\ \A d \in Calls \ {c} : Uses(d)' <=> Uses(d)
            /\ Uses(c)' /\ client' = client
        BY <1>4, <2>2, <2>4 DEF Insert, Uses, Connecting, Registered, TypeOK, CallsFit, IdsDiffer, MapFits, Established
      <3>1. Holders' = [Holders EXCEPT ![client[c]] = @ \cup {c}]
        <4>1. \A k \in Calls :
                 Holders'[k] = IF k = client[c] THEN Holders[k] \cup {c} ELSE Holders[k]
          BY <3>0 DEF Holders
        <4> QED BY <2>2, <4>1 DEF Holders
      <3>2. c \notin Holders[client[c]] \cup {client[c]}
        BY <1>4, <2>2, <2>4 DEF Insert, Holders, Uses, Connecting, Registered, TypeOK, CallsFit, MapFits, Established
      <3>3. conn[client[c]] # "none"
        BY <1>4, <2>2, <2>4 DEF Insert, CallsFit
      <3> QED BY <2>1, <3>1, <3>2, <3>3 DEF Shared!Join
    <2> QED BY <2>3, <2>4
  <1>5. ASSUME NEW i \in Ids, NEW c \in Calls, sessions[i] = c,
               Disconnect(i), UNCHANGED <<pc, client, id, conn>>
        PROVE Shared!Leave(client[c], c)
    <2>1. client[c] \in Calls
      BY <1>5 DEF TypeOK, CallsFit, MapFits, Established
    <2>2. /\ \A d \in Calls \ {c} : (Uses(d)' <=> Uses(d)) /\ owes'[d] = owes[d]
          /\ Uses(c) /\ ~Uses(c)'
      BY <1>5 DEF Disconnect, Uses, Connecting, Registered, TypeOK, CallsFit, MapFits, Established
    <2>3. Holders' = [Holders EXCEPT ![client[c]] = @ \ {c}]
      <3>1. \A m \in Calls :
               Holders'[m] = IF m = client[c] THEN Holders[m] \ {c} ELSE Holders[m]
        BY <1>5, <2>2 DEF Holders
      <3> QED BY <2>1, <3>1 DEF Holders
    <2>4. c \in Holders[client[c]]
      BY <2>1, <2>2 DEF Holders
    <2>5. ClientStillUsed(i) <=> \E d \in Calls \ {c} : client[d] = client[c] /\ Uses(d)
      <3>1. ASSUME NEW j \in Ids \ {i}, sessions[j] # NoCall
            PROVE sessions[j] \in Calls \ {c} /\ Uses(sessions[j])
        BY <1>5, <3>1 DEF TypeOK, MapFits, Uses, Registered
      <3>2. ASSUME NEW d \in Calls \ {c}, client[d] = client[c], Uses(d)
            PROVE \E j \in Ids \ {i} : sessions[j] = d
        <4>1. ~Connecting(d)
          BY <1>5, <3>2 DEF Connecting, TypeOK, CallsFit, MapFits, Established
        <4> QED BY <1>5, <3>2, <4>1 DEF Uses, Registered
      <3> QED BY <1>5, <3>1, <3>2 DEF ClientStillUsed
    <2>6. Holders[client[c]] = {c} <=> ~ClientStillUsed(i)
      BY <2>1, <2>2, <2>5 DEF Holders
    <2>7. Condemned' = [Condemned EXCEPT ![client[c]] = @ \/ Holders[client[c]] = {c}]
      <3>1. owes[c] = {} /\ ("client" \in owes'[c] <=> Holders[client[c]] = {c})
        BY <1>5, <2>6 DEF Disconnect, OnlyRemovedOwe, Registered, TypeOK
      <3>2. \A m \in Calls :
               Condemned'[m] = IF m = client[c] THEN Condemned[m] \/ Holders[m] = {c}
                                                ELSE Condemned[m]
        BY <1>5, <2>2, <3>1 DEF Condemned
      <3> QED BY <2>1, <3>2 DEF Condemned
    <2> QED BY <1>5, <2>3, <2>4, <2>7 DEF Shared!Leave
  <1>6. ASSUME NEW i \in Ids, Disconnect(i), UNCHANGED <<pc, client, id, conn>>
        PROVE [Shared!Next]_(Shared!vars)
    <2>1. CASE sessions[i] = NoCall
      BY <1>6, <2>1 DEF Disconnect, Holders, Uses, Condemned, Connecting, Registered
    <2>2. CASE sessions[i] # NoCall
      <3>1. PICK c \in Calls : sessions[i] = c
        BY <2>2 DEF TypeOK
      <3>2. client[c] \in Calls
        BY <2>2, <3>1 DEF TypeOK, CallsFit, MapFits, Established
      <3> QED BY <1>5, <1>6, <3>1, <3>2
    <2> QED BY <2>1, <2>2
  <1>7. ASSUME NEW c \in Calls, CloseClient(c) PROVE Shared!Close(client[c])
    <2>1. client[c] \in Calls
      BY <1>7 DEF CloseClient, TypeOK, CallsFit, OnlyRemovedOwe, Established
    <2>2. Holders' = Holders
      BY <1>7 DEF CloseClient, callVars, Holders, Uses, Connecting, Registered
    <2>3. Condemned[client[c]]
      BY <1>7, <2>1 DEF CloseClient, Condemned
    <2>4. Condemned' = [Condemned EXCEPT ![client[c]] = Condemned'[client[c]]]
      BY <1>7, <2>1 DEF CloseClient, callVars, Condemned, TypeOK
    <2>5. Condemned'[client[c]] \in BOOLEAN
      BY <2>1 DEF Condemned
    <2> QED BY <1>7, <2>1, <2>2, <2>3, <2>4, <2>5 DEF CloseClient, Shared!Close
  <1>8. ASSUME NEW c \in Calls, CloseShell(c) PROVE UNCHANGED Shared!vars
    BY <1>8 DEF CloseShell, Holders, Uses, Condemned, Connecting, Registered, TypeOK, callVars
  <1>9. ASSUME NEW c \in Calls, ConnectionLost(c) PROVE Shared!Lose(c)
    BY <1>9 DEF ConnectionLost, Shared!Lose, Holders, Uses, Condemned, Connecting, Registered, callVars
  <1>10. ASSUME UNCHANGED <<client, sessions, conn, owes>>,
                pc' = pc \/ \E c \in Calls : StartGoroutines(c)
         PROVE UNCHANGED Shared!vars
    <2>1. \A c \in Calls : Connecting(c)' <=> Connecting(c)
      BY <1>10 DEF StartGoroutines, Connecting, TypeOK
    <2>2. Holders' = Holders
      BY <1>10, <2>1 DEF Holders, Uses, Registered
    <2> QED BY <1>10, <2>2 DEF Condemned
  <1>11. ASSUME NEW c \in Calls,
                StartGoroutines(c) \/ WaitReturns(c) \/ ShellEnds(c)
         PROVE UNCHANGED Shared!vars
    BY <1>10, <1>11 DEF StartGoroutines, WaitReturns, ShellEnds, callVars
  <1>12. DisconnectAll \/ DisconnectAllReturns \/ UNCHANGED vars => UNCHANGED Shared!vars
    BY <1>10 DEF DisconnectAll, DisconnectAllReturns, vars, callVars, drainVars
  <1>13. ASSUME NEW c \in Calls, WaiterDisconnects(c)
         PROVE [Shared!Next]_(Shared!vars)
    <2>1. id[c] \in Ids
      BY <1>13 DEF WaiterDisconnects, TypeOK, CallsFit, Established
    <2> QED BY <1>6, <1>13, <2>1 DEF WaiterDisconnects, callVars
  <1>14. ASSUME NEW i \in Ids, UserDisconnect(i) \/ DisconnectNext(i)
         PROVE [Shared!Next]_(Shared!vars)
    BY <1>6, <1>14 DEF UserDisconnect, DisconnectNext, callVars
  <1>15. ASSUME NEW c \in Calls, Insert(c) \/ CloseClient(c)
         PROVE [Shared!Next]_(Shared!vars)
    <2>1. client[c] \in Calls
      <3>1. pc[c] # "idle"
        BY <1>15 DEF Insert, CloseClient, OnlyRemovedOwe, Established
      <3> QED BY <3>1 DEF TypeOK, CallsFit
    <2> QED BY <1>4, <1>7, <1>15, <2>1
  <1> QED
    BY <1>1, <1>2, <1>3, <1>8, <1>9, <1>11, <1>12, <1>13, <1>14, <1>15 DEF Next

\* Connect, OpenNewShell and Disconnect together implement the reference count.
THEOREM Refinement == ASSUME UniqueIds PROVE SafetySpec => CountsReferences
  <1>1. Init => Shared!Init
    BY DEF Init, Shared!Init, Holders, Uses, Condemned, Connecting, Registered
  <1>2. IInv /\ IInv' /\ [Next]_vars => [Shared!Next]_(Shared!vars)
    BY StepRefines
  <1> QED BY <1>1, <1>2, Invariance, PTL DEF SafetySpec, CountsReferences, Shared!SafetySpec
=============================================================================
