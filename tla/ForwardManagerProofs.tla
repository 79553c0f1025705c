------------------------ MODULE ForwardManagerProofs ------------------------
(***************************************************************************)
(* Theorems about ForwardManager, for any number of rules, of any kinds    *)
(* and ports, and of connections.  IInv says what a rule holds at each     *)
(* point of its StartForward and StopForward; the handlers and StopAll's   *)
(* bookkeeping do not touch it.                                            *)
(***************************************************************************)
EXTENDS ForwardManager, TLAPS

\* No rule has been started.
THEOREM InitIInv == Init => IInv
  BY NoRuleAssumption DEF Init, IInv, TypeOK, RulesFit, ListenersFit

\* No step of a rule, its accept loop, its handlers, StopAll or the network
\* leaves the invariant.
THEOREM NextIInv == IInv /\ [Next]_vars => IInv'
  <1> SUFFICES ASSUME IInv, [Next]_vars PROVE IInv' OBVIOUS
  <1> USE NoRuleAssumption, KindAssumption DEF IInv
  <1>1. ASSUME NEW r \in Rules, ConnectSSH(r) PROVE IInv'
    <2>1. TypeOK' BY <1>1 DEF ConnectSSH, TypeOK, connVars, sweepVars
    <2>2. RulesFit' BY <1>1 DEF ConnectSSH, TypeOK, RulesFit, connVars
    <2>3. ListenersFit' BY <1>1 DEF ConnectSSH, TypeOK, RulesFit, ListenersFit, connVars
    <2> QED BY <2>1, <2>2, <2>3
  <1>2. ASSUME NEW r \in Rules, Listen(r) PROVE IInv'
    <2>1. TypeOK' BY <1>2 DEF Listen, CanListen, TypeOK, connVars, sweepVars
    <2>2. RulesFit' BY <1>2 DEF Listen, CanListen, TypeOK, RulesFit, connVars
    <2>3. ListenersFit' BY <1>2 DEF Listen, CanListen, TypeOK, RulesFit, ListenersFit, connVars
    <2> QED BY <2>1, <2>2, <2>3
  <1>3. ASSUME NEW r \in Rules, ListenFails(r) PROVE IInv'
    <2>1. TypeOK' BY <1>3 DEF ListenFails, TypeOK, connVars, sweepVars
    <2>2. RulesFit' BY <1>3 DEF ListenFails, TypeOK, RulesFit, connVars
    <2>3. ListenersFit' BY <1>3 DEF ListenFails, TypeOK, RulesFit, ListenersFit, connVars
    <2> QED BY <2>1, <2>2, <2>3
  <1>4. ASSUME NEW r \in Rules, Register(r) PROVE IInv'
    <2>1. TypeOK' BY <1>4 DEF Register, TypeOK, connVars, sweepVars
    <2>2. RulesFit' BY <1>4 DEF Register, TypeOK, RulesFit, connVars
    <2>3. ListenersFit' BY <1>4 DEF Register, TypeOK, RulesFit, ListenersFit, connVars
    <2> QED BY <2>1, <2>2, <2>3
  <1>5. ASSUME NEW r \in Rules, StopForward(r) PROVE IInv'
    <2>1. TypeOK' BY <1>5 DEF StopForward, Remove, TypeOK, connVars, sweepVars
    <2>2. RulesFit' BY <1>5 DEF StopForward, Remove, TypeOK, RulesFit, connVars
    <2>3. ListenersFit' BY <1>5 DEF StopForward, Remove, TypeOK, RulesFit, ListenersFit, connVars
    <2> QED BY <2>1, <2>2, <2>3
  <1>6. ASSUME NEW r \in Rules, Cancel(r) PROVE IInv'
    <2>1. TypeOK' BY <1>6 DEF Cancel, TypeOK, connVars, sweepVars
    <2>2. RulesFit' BY <1>6 DEF Cancel, TypeOK, RulesFit, connVars
    <2>3. ListenersFit' BY <1>6 DEF Cancel, TypeOK, RulesFit, ListenersFit, connVars
    <2> QED BY <2>1, <2>2, <2>3
  <1>7. ASSUME NEW r \in Rules, CloseListener(r) PROVE IInv'
    <2>1. TypeOK' BY <1>7 DEF CloseListener, TypeOK, connVars, sweepVars
    <2>2. RulesFit' BY <1>7 DEF CloseListener, TypeOK, RulesFit, connVars
    <2>3. ListenersFit' BY <1>7 DEF CloseListener, TypeOK, RulesFit, ListenersFit, connVars
    <2> QED BY <2>1, <2>2, <2>3
  <1>8. ASSUME NEW r \in Rules, CloseClient(r) PROVE IInv'
    <2>1. TypeOK' BY <1>8 DEF CloseClient, TypeOK, connVars, sweepVars
    <2>2. RulesFit' BY <1>8 DEF CloseClient, TypeOK, RulesFit, connVars
    <2>3. ListenersFit' BY <1>8 DEF CloseClient, TypeOK, RulesFit, ListenersFit, connVars
    <2> QED BY <2>1, <2>2, <2>3
  <1>9. ASSUME NEW r \in Rules, LoopChecks(r) PROVE IInv'
    <2>1. TypeOK' BY <1>9 DEF LoopChecks, TypeOK, connVars, sweepVars
    <2>2. RulesFit' BY <1>9 DEF LoopChecks, TypeOK, RulesFit, connVars
    <2>3. ListenersFit' BY <1>9 DEF LoopChecks, TypeOK, RulesFit, ListenersFit, connVars
    <2> QED BY <2>1, <2>2, <2>3
  <1>10. ASSUME NEW r \in Rules, AcceptFails(r) PROVE IInv'
    <2>1. TypeOK' BY <1>10 DEF AcceptFails, Accepting, TypeOK, connVars, sweepVars
    <2>2. RulesFit' BY <1>10 DEF AcceptFails, Accepting, TypeOK, RulesFit, connVars
    <2>3. ListenersFit' BY <1>10 DEF AcceptFails, Accepting, TypeOK, RulesFit, ListenersFit, connVars
    <2> QED BY <2>1, <2>2, <2>3
  <1>11. ASSUME NEW r \in Rules, NEW c \in Conns, Accept(r, c) PROVE IInv'
    <2>1. TypeOK' BY <1>11 DEF Accept, Accepting, TypeOK, connVars, sweepVars
    <2>2. RulesFit' BY <1>11 DEF Accept, Accepting, TypeOK, RulesFit, connVars
    <2>3. ListenersFit' BY <1>11 DEF Accept, Accepting, TypeOK, RulesFit, ListenersFit, connVars
    <2> QED BY <2>1, <2>2, <2>3
  <1>12. ASSUME NEW r \in Rules, StopNext(r) PROVE IInv'
    <2>1. TypeOK' BY <1>12 DEF StopNext, Remove, CurrentStopped, TypeOK, connVars, sweepVars
    <2>2. RulesFit' BY <1>12 DEF StopNext, Remove, CurrentStopped, TypeOK, RulesFit, connVars
    <2>3. ListenersFit' BY <1>12 DEF StopNext, Remove, CurrentStopped, TypeOK, RulesFit, ListenersFit, connVars
    <2> QED BY <2>1, <2>2, <2>3
  <1>13. ASSUME NEW r \in Rules, ConnectionLost(r) PROVE IInv'
    <2>1. TypeOK' BY <1>13 DEF ConnectionLost, TypeOK, connVars, sweepVars
    <2>2. RulesFit' BY <1>13 DEF ConnectionLost, TypeOK, RulesFit, connVars
    <2>3. ListenersFit' BY <1>13 DEF ConnectionLost, TypeOK, RulesFit, ListenersFit, connVars
    <2> QED BY <2>1, <2>2, <2>3
  <1>14. ASSUME NEW c \in Conns, NEW from, NEW to \in {"dial", "copy", "closed"},
                HandlerStep(c, from, to)
         PROVE IInv'
    BY <1>14 DEF HandlerStep, TypeOK, RulesFit, ListenersFit, sweepVars
  <1>15. ASSUME NEW c \in Conns,
                \/ HandshakeRead(c) \/ HandshakeRejected(c) \/ DialOk(c)
                \/ DialFails(c) \/ CopyEnds(c) \/ CopyCancelled(c)
         PROVE IInv'
    BY <1>14, <1>15 DEF HandshakeRead, HandshakeRejected, DialOk, DialFails,
       CopyEnds, CopyCancelled
  <1>16. CASE StopAll \/ StopAllReturns \/ UNCHANGED vars
    BY <1>16 DEF StopAll, StopAllReturns, vars, TypeOK, RulesFit, ListenersFit,
       connVars, sweepVars
  <1> QED
    BY <1>1, <1>2, <1>3, <1>4, <1>5, <1>6, <1>7, <1>8, <1>9, <1>10, <1>11,
       <1>12, <1>13, <1>15, <1>16 DEF Next

\* The invariant holds in every reachable state of the manager (forward.go).
THEOREM Invariance == SafetySpec => []IInv
  BY InitIInv, NextIInv, PTL DEF SafetySpec

\* No StartForward, StopForward or StopAll, in any order, leaves a port bound or
\* a client open that nothing accounts for (forward.go:121-193).
THEOREM NothingLeaks == SafetySpec => []HoldsNothingUnlisted
  <1>1. IInv => HoldsNothingUnlisted
    BY DEF IInv, TypeOK, RulesFit, ListenersFit, HoldsNothingUnlisted, Starting, Stopping
  <1> QED BY <1>1, Invariance, PTL

\* A listed rule is whole (forward.go:121-167).
THEOREM ListedRulesAreWhole == SafetySpec => []ListedIsWhole
  <1>1. IInv => ListedIsWhole
    BY DEF IInv, TypeOK, RulesFit, ListenersFit, ListedIsWhole
  <1> QED BY <1>1, Invariance, PTL

\* A closed listener belongs to a cancelled rule, so no accept loop of a stopped
\* rule spins (forward.go:243-251).
THEOREM NoLoopSpins == SafetySpec => []ClosedListenerIsCancelled
  <1>1. IInv => ClosedListenerIsCancelled
    BY DEF IInv, TypeOK, RulesFit, ListenersFit, ClosedListenerIsCancelled
  <1> QED BY <1>1, Invariance, PTL
=============================================================================
