------------------------------ MODULE PageCalls ------------------------------
(***************************************************************************)
(* The Go calls a page has under way.  Wails runs each on a goroutine of   *)
(* its own and answers with a promise, so the answers come in any order,   *)
(* and also after the page that asked has been unmounted; React then drops *)
(* what they set.  A call is a record of what its handler captured.        *)
(***************************************************************************)
EXTENDS Naturals, FiniteSets, Sequences, Lists

CONSTANT MaxCalls   \* bound: calls of a page under way at once

VARIABLE calls

\* A click up to the await of its call.
Ask(c) ==
    /\ c \notin calls /\ Cardinality(calls) < MaxCalls
    /\ calls' = calls \cup {c}

\* The end of a call, and the step from one await of a handler to its next.
Answered(c) == c \in calls /\ calls' = calls \ {c}
Continue(c, d) == c \in calls /\ calls' = (calls \ {c}) \cup {d}

CallsOf(ops) == {c \in calls : c.op \in ops}

=============================================================================
