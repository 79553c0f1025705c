---------------------------- MODULE MCDBSessions ----------------------------
(* One PostgreSQL session through a tunnel and one session without, two     *)
(* switches that may target the same one, one pooled connection.            *)
EXTENDS DBSessions
=============================================================================
