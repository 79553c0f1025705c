-------------------------- MODULE BreakpointsProofs --------------------------
(***************************************************************************)
(* Theorems about Breakpoints, for any number of requests and of clicks.   *)
(* IInv ties each request to its entry in the pending map and each click   *)
(* to the request it was made for; that an answer never reaches another    *)
(* request follows, whatever the dialog shows in between.                  *)
(***************************************************************************)
EXTENDS Breakpoints, TLAPS

\* No request is paused and nobody has clicked.
THEOREM InitIInv == Init => IInv
  BY NoRequestAssumption DEF Init, IInv, TypeOK, PendingFits, DroppedOnRequest,
     AbortWasAsked, CallsFit, HandlersFit, Answers

\* No step of a handler, of the timer, of the page or of a ReleaseBreakpoint call
\* leaves the invariant.
THEOREM NextIInv == IInv /\ [Next]_vars => IInv'
  <1> SUFFICES ASSUME IInv, [Next]_vars PROVE IInv' OBVIOUS
  <1> USE NoRequestAssumption DEF IInv, callVars, Answers
  <1>1. ASSUME NEW r \in Requests, Emit(r) PROVE IInv'
    <2>1. TypeOK' BY <1>1 DEF Emit, TypeOK
    <2>2. PendingFits' BY <1>1 DEF Emit, TypeOK, PendingFits
    <2>3. DroppedOnRequest'
      BY <1>1 DEF Emit, TypeOK, DroppedOnRequest, AbortWasAsked, CallsFit, HandlersFit
    <2>4. CallsFit' BY <1>1 DEF Emit, TypeOK, PendingFits, CallsFit
    <2>5. HandlersFit' BY <1>1 DEF Emit, TypeOK, CallsFit, HandlersFit
    <2> QED BY <2>1, <2>2, <2>3, <2>4, <2>5
  <1>2. ASSUME NEW r \in Requests, Register(r) PROVE IInv'
    <2>1. TypeOK' BY <1>2 DEF Register, TypeOK
    <2>2. PendingFits' BY <1>2 DEF Register, TypeOK, PendingFits
    <2>3. DroppedOnRequest'
      BY <1>2 DEF Register, TypeOK, DroppedOnRequest, AbortWasAsked, CallsFit, HandlersFit
    <2>4. CallsFit' BY <1>2 DEF Register, TypeOK, PendingFits, CallsFit
    <2>5. HandlersFit' BY <1>2 DEF Register, TypeOK, CallsFit, HandlersFit
    <2> QED BY <2>1, <2>2, <2>3, <2>4, <2>5
  <1>3. ASSUME NEW r \in Requests, ReceiveResult(r) PROVE IInv'
    <2>1. TypeOK' BY <1>3 DEF ReceiveResult, TypeOK
    <2>2. PendingFits' BY <1>3 DEF ReceiveResult, TypeOK, PendingFits
    <2>3. DroppedOnRequest'
      BY <1>3 DEF ReceiveResult, TypeOK, DroppedOnRequest, AbortWasAsked, CallsFit, HandlersFit
    <2>4. CallsFit' BY <1>3 DEF ReceiveResult, TypeOK, PendingFits, CallsFit
    <2>5. HandlersFit' BY <1>3 DEF ReceiveResult, TypeOK, CallsFit, HandlersFit
    <2> QED BY <2>1, <2>2, <2>3, <2>4, <2>5
  <1>4. ASSUME NEW r \in Requests, AutoRelease(r) PROVE IInv'
    <2>1. TypeOK' BY <1>4 DEF AutoRelease, TypeOK
    <2>2. PendingFits' BY <1>4 DEF AutoRelease, TypeOK, PendingFits
    <2>3. DroppedOnRequest'
      BY <1>4 DEF AutoRelease, TypeOK, DroppedOnRequest, AbortWasAsked, CallsFit, HandlersFit
    <2>4. CallsFit' BY <1>4 DEF AutoRelease, TypeOK, PendingFits, CallsFit
    <2>5. HandlersFit' BY <1>4 DEF AutoRelease, TypeOK, CallsFit, HandlersFit
    <2> QED BY <2>1, <2>2, <2>3, <2>4, <2>5
  <1>5. ASSUME NEW r \in Requests, Unregister(r) PROVE IInv'
    <2>1. TypeOK' BY <1>5 DEF Unregister, TypeOK
    <2>2. PendingFits' BY <1>5 DEF Unregister, TypeOK, PendingFits
    <2>3. DroppedOnRequest'
      BY <1>5 DEF Unregister, TypeOK, DroppedOnRequest, AbortWasAsked, CallsFit, HandlersFit
    <2>4. CallsFit' BY <1>5 DEF Unregister, TypeOK, PendingFits, CallsFit
    <2>5. HandlersFit' BY <1>5 DEF Unregister, TypeOK, CallsFit, HandlersFit
    <2> QED BY <2>1, <2>2, <2>3, <2>4, <2>5
  <1>6. ASSUME NEW r \in Requests, ShowRequest(r) PROVE IInv'
    <2>1. TypeOK' BY <1>6 DEF ShowRequest, TypeOK
    <2>2. PendingFits' BY <1>6 DEF ShowRequest, TypeOK, PendingFits
    <2>3. DroppedOnRequest'
      BY <1>6 DEF ShowRequest, TypeOK, DroppedOnRequest, AbortWasAsked, CallsFit, HandlersFit
    <2>4. CallsFit' BY <1>6 DEF ShowRequest, TypeOK, PendingFits, CallsFit
    <2>5. HandlersFit' BY <1>6 DEF ShowRequest, TypeOK, CallsFit, HandlersFit
    <2> QED BY <2>1, <2>2, <2>3, <2>4, <2>5
  <1>7. ASSUME NEW k \in Calls, NEW a \in Answers, Click(k, a) PROVE IInv'
    <2>1. TypeOK' BY <1>7 DEF Click, TypeOK
    <2>2. PendingFits' BY <1>7 DEF Click, TypeOK, PendingFits
    <2>3. DroppedOnRequest'
      BY <1>7 DEF Click, TypeOK, DroppedOnRequest, AbortWasAsked, CallsFit, HandlersFit
    <2>4. CallsFit' BY <1>7 DEF Click, TypeOK, PendingFits, CallsFit
    <2>5. HandlersFit' BY <1>7 DEF Click, TypeOK, CallsFit, HandlersFit
    <2> QED BY <2>1, <2>2, <2>3, <2>4, <2>5
  <1>8. ASSUME NEW k \in Calls, Lookup(k) PROVE IInv'
    <2>1. TypeOK' BY <1>8 DEF Lookup, TypeOK
    <2>2. PendingFits' BY <1>8 DEF Lookup, TypeOK, PendingFits
    <2>3. DroppedOnRequest'
      BY <1>8 DEF Lookup, TypeOK, DroppedOnRequest, AbortWasAsked, CallsFit, HandlersFit
    <2>4. CallsFit' BY <1>8 DEF Lookup, TypeOK, PendingFits, CallsFit
    <2>5. HandlersFit' BY <1>8 DEF Lookup, TypeOK, CallsFit, HandlersFit
    <2> QED BY <2>1, <2>2, <2>3, <2>4, <2>5
  <1>9. ASSUME NEW k \in Calls, Send(k) PROVE IInv'
    <2>1. TypeOK' BY <1>9 DEF Send, TypeOK
    <2>2. PendingFits' BY <1>9 DEF Send, TypeOK, PendingFits
    <2>3. DroppedOnRequest'
      BY <1>9 DEF Send, TypeOK, DroppedOnRequest, AbortWasAsked, CallsFit, HandlersFit
    <2>4. CallsFit' BY <1>9 DEF Send, TypeOK, PendingFits, CallsFit
    <2>5. HandlersFit' BY <1>9 DEF Send, TypeOK, CallsFit, HandlersFit
    <2> QED BY <2>1, <2>2, <2>3, <2>4, <2>5
  <1>10. ASSUME NEW k \in Calls, CloseDialog(k) PROVE IInv'
    <2>1. TypeOK' BY <1>10 DEF CloseDialog, TypeOK
    <2>2. PendingFits' BY <1>10 DEF CloseDialog, TypeOK, PendingFits
    <2>3. DroppedOnRequest'
      BY <1>10 DEF CloseDialog, TypeOK, DroppedOnRequest, AbortWasAsked, CallsFit, HandlersFit
    <2>4. CallsFit' BY <1>10 DEF CloseDialog, TypeOK, PendingFits, CallsFit
    <2>5. HandlersFit' BY <1>10 DEF CloseDialog, TypeOK, CallsFit, HandlersFit
    <2> QED BY <2>1, <2>2, <2>3, <2>4, <2>5
  <1>11. ASSUME NEW k \in Calls, ShowError(k) PROVE IInv'
    <2>1. TypeOK' BY <1>11 DEF ShowError, TypeOK
    <2>2. PendingFits' BY <1>11 DEF ShowError, TypeOK, PendingFits
    <2>3. DroppedOnRequest'
      BY <1>11 DEF ShowError, TypeOK, DroppedOnRequest, AbortWasAsked, CallsFit, HandlersFit
    <2>4. CallsFit' BY <1>11 DEF ShowError, TypeOK, PendingFits, CallsFit
    <2>5. HandlersFit' BY <1>11 DEF ShowError, TypeOK, CallsFit, HandlersFit
    <2> QED BY <2>1, <2>2, <2>3, <2>4, <2>5
  <1>12. CASE UNCHANGED vars
    BY <1>12 DEF vars, TypeOK, PendingFits, DroppedOnRequest, AbortWasAsked, CallsFit, HandlersFit
  <1> QED
    BY <1>1, <1>2, <1>3, <1>4, <1>5, <1>6, <1>7, <1>8, <1>9, <1>10, <1>11, <1>12 DEF Next

\* The invariant holds in every reachable state of the breakpoint manager and its
\* page (proxy.go, breakpoint.go, ProxyView.tsx).
THEOREM Invariance == SafetySpec => []IInv
  BY InitIInv, NextIInv, PTL DEF SafetySpec

\* A request is dropped only when the user aborted that request: no answer reaches
\* another one, however requests, timeouts and clicks interleave.
THEOREM AbortsAreAsked == SafetySpec => []DroppedOnRequest
  <1>1. IInv => DroppedOnRequest BY DEF IInv
  <1> QED BY <1>1, Invariance, PTL
=============================================================================
