----------------------------- MODULE Breakpoints -----------------------------
(***************************************************************************)
(* Requests paused at a breakpoint: the request handler of                 *)
(* bridge/proxy/proxy.go:270-297, BreakpointManager of                     *)
(* bridge/proxy/breakpoint.go and the one dialog of ProxyView.tsx that     *)
(* shows a paused request and sends the user's answer back.                *)
(***************************************************************************)
EXTENDS FiniteSets

CONSTANTS
    Requests,   \* the requests that match a breakpoint rule
    Calls,      \* the user's clicks, each a ReleaseBreakpoint call
    NoRequest

ASSUME NoRequestAssumption == NoRequest \notin Requests

Answers == {"release", "abort"}

VARIABLES
    handler,    \* how far the handler of each request has got
    outcome,    \* the action PauseRequest has returned
    pending,    \* BreakpointManager.pending
    buffer,     \* the result each request's channel holds, if any
    events,     \* proxy:breakpoint events the page has not seen yet
    shown,      \* breakpointReq, the request in the dialog
    call,       \* how far each ReleaseBreakpoint call has got
    about,      \* the request it was clicked for
    answer      \* and the action it carries

vars == <<handler, outcome, pending, buffer, events, shown, call, about, answer>>
callVars == <<call, about, answer>>

Init ==
    /\ handler = [r \in Requests |-> "new"]
    /\ outcome = [r \in Requests |-> "none"]
    /\ pending = {}
    /\ buffer = [r \in Requests |-> {}]
    /\ events = {}
    /\ shown = NoRequest
    /\ call = [k \in Calls |-> "idle"]
    /\ about = [k \in Calls |-> NoRequest]
    /\ answer = [k \in Calls |-> "release"]

-----------------------------------------------------------------------------
(* The handler: emit the event, register, wait, unregister.                 *)

Emit(r) ==
    /\ handler[r] = "new"
    /\ handler' = [handler EXCEPT ![r] = "emitted"]
    /\ events' = events \cup {r}
    /\ UNCHANGED <<outcome, pending, buffer, shown, callVars>>

Register(r) ==
    /\ handler[r] = "emitted"
    /\ handler' = [handler EXCEPT ![r] = "waiting"]
    /\ pending' = pending \cup {r}
    /\ UNCHANGED <<outcome, buffer, events, shown, callVars>>

ReceiveResult(r) ==
    /\ handler[r] = "waiting"
    /\ \E a \in buffer[r] : outcome' = [outcome EXCEPT ![r] = a]
    /\ buffer' = [buffer EXCEPT ![r] = {}]
    /\ handler' = [handler EXCEPT ![r] = "leaving"]
    /\ UNCHANGED <<pending, events, shown, callVars>>

\* Mutant: a request without an answer waits for ever.
AutoReleaseAnswered(r) ==
    /\ handler[r] = "waiting"
    /\ buffer[r] # {}
    /\ outcome' = [outcome EXCEPT ![r] = "release"]
    /\ handler' = [handler EXCEPT ![r] = "leaving"]
    /\ UNCHANGED <<pending, buffer, events, shown, callVars>>

\* Mutant: a request nobody answers in time is dropped.
AutoAbort(r) ==
    /\ handler[r] = "waiting"
    /\ outcome' = [outcome EXCEPT ![r] = "abort"]
    /\ handler' = [handler EXCEPT ![r] = "leaving"]
    /\ UNCHANGED <<pending, buffer, events, shown, callVars>>

\* The timer or the context; select may take it with a result in the channel.
AutoRelease(r) ==
    /\ handler[r] = "waiting"
    /\ outcome' = [outcome EXCEPT ![r] = "release"]
    /\ handler' = [handler EXCEPT ![r] = "leaving"]
    /\ UNCHANGED <<pending, buffer, events, shown, callVars>>

\* Mutant: only an aborted request is taken out of the map.
UnregisterAborted(r) ==
    /\ handler[r] = "leaving"
    /\ handler' = [handler EXCEPT ![r] = "done"]
    /\ pending' = IF outcome[r] = "abort" THEN pending \ {r} ELSE pending
    /\ UNCHANGED <<outcome, buffer, events, shown, callVars>>

\* The deferred delete; the request is then forwarded or answered with 499.
Unregister(r) ==
    /\ handler[r] = "leaving"
    /\ handler' = [handler EXCEPT ![r] = "done"]
    /\ pending' = pending \ {r}
    /\ UNCHANGED <<outcome, buffer, events, shown, callVars>>

-----------------------------------------------------------------------------
(* The page: one dialog, which the next event takes over.                   *)

ShowRequest(r) ==
    /\ r \in events
    /\ events' = events \ {r}
    /\ shown' = r
    /\ UNCHANGED <<handler, outcome, pending, buffer, callVars>>

\* handleBreakpointRelease or handleBreakpointAbort, up to the await.  The
\* buttons stay enabled while a call is under way.
Click(k, a) ==
    /\ shown # NoRequest
    /\ call[k] = "idle"
    /\ call' = [call EXCEPT ![k] = "lookup"]
    /\ about' = [about EXCEPT ![k] = shown]
    /\ answer' = [answer EXCEPT ![k] = a]
    /\ UNCHANGED <<handler, outcome, pending, buffer, events, shown>>

\* ReleaseRequest, under the lock ...
Lookup(k) ==
    /\ call[k] = "lookup"
    /\ call' = [call EXCEPT ![k] = IF about[k] \in pending THEN "send" ELSE "failed"]
    /\ UNCHANGED <<handler, outcome, pending, buffer, events, shown, about, answer>>

\* Mutant: the send blocks while the channel is full.
SendBlocking(k) ==
    /\ call[k] = "send"
    /\ buffer[about[k]] = {}
    /\ buffer' = [buffer EXCEPT ![about[k]] = {answer[k]}]
    /\ call' = [call EXCEPT ![k] = "ok"]
    /\ UNCHANGED <<handler, outcome, pending, events, shown, about, answer>>

\* ... and after it: a send that does not wait, on a channel of one place.
Send(k) ==
    /\ call[k] = "send"
    /\ IF buffer[about[k]] = {}
       THEN /\ buffer' = [buffer EXCEPT ![about[k]] = {answer[k]}]
            /\ call' = [call EXCEPT ![k] = "ok"]
       ELSE /\ call' = [call EXCEPT ![k] = "failed"]
            /\ UNCHANGED buffer
    /\ UNCHANGED <<handler, outcome, pending, events, shown, about, answer>>

\* Past the await the dialog is closed, whichever request it shows by now.
CloseDialog(k) ==
    /\ call[k] = "ok"
    /\ call' = [call EXCEPT ![k] = "done"]
    /\ shown' = NoRequest
    /\ UNCHANGED <<handler, outcome, pending, buffer, events, about, answer>>

\* A failed call leaves the dialog as it is, and the user may click again.
ShowError(k) ==
    /\ call[k] = "failed"
    /\ call' = [call EXCEPT ![k] = "idle"]
    /\ about' = [about EXCEPT ![k] = NoRequest]
    /\ UNCHANGED <<handler, outcome, pending, buffer, events, shown, answer>>

Next ==
    \/ \E r \in Requests :
          \/ Emit(r) \/ Register(r) \/ ReceiveResult(r) \/ AutoRelease(r)
          \/ Unregister(r) \/ ShowRequest(r)
    \/ \E k \in Calls :
          \/ \E a \in Answers : Click(k, a)
          \/ Lookup(k) \/ Send(k) \/ CloseDialog(k) \/ ShowError(k)

SafetySpec == Init /\ [][Next]_vars

\* The handler and the calls run on; the five-minute timer fires; the page
\* gets its events.  The user need not click.
Fairness ==
    /\ \A r \in Requests :
          /\ WF_vars(Register(r))
          /\ WF_vars(ReceiveResult(r) \/ AutoRelease(r))
          /\ WF_vars(Unregister(r))
          /\ WF_vars(ShowRequest(r))
    /\ \A k \in Calls :
          WF_vars(Lookup(k) \/ Send(k) \/ CloseDialog(k) \/ ShowError(k))

Spec == SafetySpec /\ Fairness

-----------------------------------------------------------------------------
(* Properties. *)

TypeOK ==
    /\ handler \in [Requests -> {"new", "emitted", "waiting", "leaving", "done"}]
    /\ outcome \in [Requests -> Answers \cup {"none"}]
    /\ pending \in SUBSET Requests
    /\ buffer \in [Requests -> {{}, {"release"}, {"abort"}}]
    /\ events \in SUBSET Requests
    /\ shown \in Requests \cup {NoRequest}
    /\ call \in [Calls -> {"idle", "lookup", "send", "ok", "failed", "done"}]
    /\ about \in [Calls -> Requests \cup {NoRequest}]
    /\ answer \in [Calls -> Answers]

\* ListBreakpoints shows exactly the requests that are paused or on their way
\* out, however they were let go.
PendingFits == pending = {r \in Requests : handler[r] \in {"waiting", "leaving"}}

\* An answer reaches the request it was clicked for: a request is dropped only
\* if some call that returned nil carried an abort for it, whatever the dialog
\* has shown since.
AbortWasAsked(r) ==
    \E k \in Calls : about[k] = r /\ answer[k] = "abort" /\ call[k] \in {"ok", "done"}

DroppedOnRequest ==
    \A r \in Requests : outcome[r] = "abort" \/ buffer[r] = {"abort"} => AbortWasAsked(r)

\* Every paused request goes on, answered or not.
EveryPauseEnds == \A r \in Requests : (handler[r] = "emitted") ~> (handler[r] = "done")

\* Every ReleaseBreakpoint call returns, also the second one for a request whose
\* handler has stopped listening.
EveryCallReturns ==
    \A k \in Calls : (call[k] = "lookup") ~> (call[k] \in {"idle", "done"})

\* "Block until user releases" (proxy.go:287): while a request whose event has
\* arrived is paused, the dialog shows it or an answer to it is on its way.
PausedIsOffered ==
    \A r \in Requests :
        handler[r] = "waiting" /\ r \notin events =>
            shown = r \/ \E k \in Calls : about[k] = r

-----------------------------------------------------------------------------
\* Who answers what: an inductive invariant behind the safety properties.
CallsFit ==
    \A k \in Calls :
        /\ call[k] = "idle" <=> about[k] = NoRequest
        /\ call[k] \in {"send", "ok", "done"} => handler[about[k]] \notin {"new", "emitted"}

HandlersFit ==
    \A r \in Requests :
        /\ outcome[r] # "none" <=> handler[r] \in {"leaving", "done"}
        /\ buffer[r] # {} => handler[r] \notin {"new", "emitted"}

IInv == TypeOK /\ PendingFits /\ DroppedOnRequest /\ CallsFit /\ HandlersFit
=============================================================================
