-------------------------- MODULE MCForwardManager --------------------------
(* A dynamic and a remote rule on one port number, which do not collide, and *)
(* one connection, which either may accept.                                  *)
EXTENDS ForwardManager

CONSTANTS r1, r2, c1

MCRules == {r1, r2}
MCConns == {c1}
MCDynamicRemote == [r \in MCRules |-> IF r = r1 THEN "dynamic" ELSE "remote"]
MCPort == [r \in MCRules |-> 8080]
=============================================================================
