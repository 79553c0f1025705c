----------------------------- MODULE MCWorkspace -----------------------------
(* Two groups and a host that moves between them, with two reloads that can   *)
(* overtake each other.                                                       *)
EXTENDS Workspace, TLC

CONSTANTS g1, g2, h1, l1, l2

MCGroups == {g1, g2}
MCHosts == {h1}
MCKind == [h \in MCHosts |-> "ssh"]
MCStart == {(g1 :> Root) @@ (g2 :> g1) @@ (h1 :> g2), (g1 :> Root)}
MCLoads == {l1, l2}
Symmetry == Permutations(MCLoads)
MCVisits == {"assets", "toolbox", "chat"}
=============================================================================
