------------------------------- MODULE MCPages -------------------------------
(* A page of each kind, its calls and answers in every order. *)
EXTENDS Pages

=============================================================================
