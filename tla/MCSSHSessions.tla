--------------------------- MODULE MCSSHSessions ---------------------------
(* Three calls, so two sessions can share a client while a third opens a     *)
(* shell on it or dials another.                                             *)
EXTENDS SSHSessions, TLC

CONSTANTS c1, c2, c3, i1, i2, i3

MCCalls == {c1, c2, c3}
MCTwoCalls == {c1, c2}
MCIds == {i1, i2, i3}
MCTwoIds == {i1, i2}
MCSymmetry == Permutations(MCCalls) \cup Permutations(MCIds)
=============================================================================
