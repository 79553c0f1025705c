--------------------------- MODULE SharedClients ---------------------------
(***************************************************************************)
(* What the SSH session manager promises about the clients its sessions    *)
(* share (bridge/ssh/session.go:338, "Only close the underlying SSH client *)
(* if no other session uses it"): a reference count.  A client is held by  *)
(* the calls that dialled or joined it; when the last holder leaves it is  *)
(* condemned, and a condemned client is closed.  A holder may still join a *)
(* condemned client, and then holds a client that will be closed under it. *)
(***************************************************************************)
CONSTANT Calls

VARIABLES
    conn,       \* the client each call dialled
    holders,    \* the calls that use a client
    condemned   \* its last holder has left: it is to be closed

vars == <<conn, holders, condemned>>

Init ==
    /\ conn = [k \in Calls |-> "none"]
    /\ holders = [k \in Calls |-> {}]
    /\ condemned = [k \in Calls |-> FALSE]

Dial(k) ==
    /\ conn[k] = "none"
    /\ conn' = [conn EXCEPT ![k] = "up"]
    /\ holders' = [holders EXCEPT ![k] = {k}]
    /\ UNCHANGED condemned

\* The dialler could not use its client and closed it at once.
Abandon(k) ==
    /\ holders[k] = {k}
    /\ conn' = [conn EXCEPT ![k] = "closed"]
    /\ holders' = [holders EXCEPT ![k] = {}]
    /\ UNCHANGED condemned

Join(k, c) ==
    /\ conn[k] # "none"
    /\ c \notin holders[k] \cup {k}
    /\ holders' = [holders EXCEPT ![k] = @ \cup {c}]
    /\ UNCHANGED <<conn, condemned>>

Leave(k, c) ==
    /\ c \in holders[k]
    /\ holders' = [holders EXCEPT ![k] = @ \ {c}]
    /\ condemned' = [condemned EXCEPT ![k] = @ \/ holders[k] = {c}]
    /\ UNCHANGED conn

\* A client condemned twice, because a late joiner left it too, is closed twice.
Close(k) ==
    /\ condemned[k]
    /\ conn' = [conn EXCEPT ![k] = "closed"]
    /\ \E again \in BOOLEAN : condemned' = [condemned EXCEPT ![k] = again]
    /\ UNCHANGED holders

Lose(k) ==
    /\ conn[k] = "up"
    /\ conn' = [conn EXCEPT ![k] = "lost"]
    /\ UNCHANGED <<holders, condemned>>

Next ==
    \E k \in Calls :
        \/ Dial(k) \/ Abandon(k) \/ Close(k) \/ Lose(k)
        \/ \E c \in Calls : Join(k, c) \/ Leave(k, c)

SafetySpec == Init /\ [][Next]_vars

Spec == SafetySpec /\ \A k \in Calls : WF_vars(Close(k))
=============================================================================
