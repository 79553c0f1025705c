------------------------- MODULE MCPortForwardView -------------------------
(* One rule that is created and one start of it from its saved row.          *)
EXTENDS PortForwardView

CONSTANTS r1, r2

MCRules == {r1, r2}
MCConns == {}
MCKind == [r \in MCRules |-> "local"]
MCPort == [r \in MCRules |-> 8080]
=============================================================================
