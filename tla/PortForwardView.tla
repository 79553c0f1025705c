-------------------------- MODULE PortForwardView --------------------------
(***************************************************************************)
(* The port-forwarding page, frontend features/proxy/ui/PortForwardView,   *)
(* over the forward manager and the forward_rules table (forward_store.go).*)
(* A row of the page is a saved rule, or a running one that is not saved;  *)
(* a saved rule shows as running when a running rule has its ID.           *)
(***************************************************************************)
EXTENDS ForwardManager

VARIABLES
    saved,      \* the IDs in forward_rules
    startedFor, \* the row whose button started each rule
    creating,   \* handleCreate: the rules it has started and not yet saved
    deleting    \* handleDelete: the rows it has stopped and not yet deleted

viewVars == <<saved, startedFor, creating, deleting>>

ViewInit ==
    /\ Init
    /\ saved = {}
    /\ startedFor = [r \in Rules |-> NoRule]
    /\ creating = {}
    /\ deleting = {}

Running(row) == row \in forwards

\* handleCreate: StartForward, then SaveForwardRuleDB under the rule's own ID.
Create(r) ==
    /\ ConnectSSH(r)
    /\ startedFor' = [startedFor EXCEPT ![r] = r]
    /\ creating' = creating \cup {r}
    /\ UNCHANGED <<saved, deleting>>

SaveCreated(r) ==
    /\ r \in creating
    /\ start[r] = "returned"
    /\ saved' = saved \cup {r}
    /\ creating' = creating \ {r}
    /\ UNCHANGED <<vars, startedFor, deleting>>

\* handleStart of a saved rule that shows as stopped: a new rule, with a new ID.
Start(row, r) ==
    /\ row \in saved
    /\ ~Running(row)
    /\ ConnectSSH(r)
    /\ startedFor' = [startedFor EXCEPT ![r] = row]
    /\ UNCHANGED <<saved, creating, deleting>>

Stop(row) ==
    /\ StopForward(row)
    /\ UNCHANGED viewVars

\* handleDelete: StopForward, whose error is ignored, then the table.
Delete(row) ==
    /\ row \in saved \cup forwards
    /\ row \notin deleting
    /\ IF Running(row) THEN StopForward(row) ELSE UNCHANGED vars
    /\ deleting' = deleting \cup {row}
    /\ UNCHANGED <<saved, startedFor, creating>>

DeleteSaved(row) ==
    /\ row \in deleting
    /\ stop[row] \in {"no", "done"}
    /\ saved' = saved \ {row}
    /\ deleting' = deleting \ {row}
    /\ UNCHANGED <<vars, startedFor, creating>>

ManagerSteps ==
    /\ \E r \in Rules :
          \/ Listen(r) \/ ListenFails(r) \/ Register(r)
          \/ Cancel(r) \/ CloseListener(r) \/ CloseClient(r) \/ LoopChecks(r)
    /\ UNCHANGED viewVars

ViewNext ==
    \/ \E r \in Rules :
          \/ Create(r) \/ SaveCreated(r) \/ Stop(r) \/ Delete(r) \/ DeleteSaved(r)
          \/ \E row \in Rules : Start(row, r)
    \/ ManagerSteps

ViewSpec == ViewInit /\ [][ViewNext]_<<vars, viewVars>>

-----------------------------------------------------------------------------
\* "Stop if running" (PortForwardView.tsx:186): deleting a rule on the page stops
\* every forward that was started from its row.
DeleteStopsRow ==
    [][\A row \in Rules : Delete(row) =>
          \A r \in forwards' : startedFor[r] # row]_<<vars, viewVars>>
=============================================================================
