------------------------ MODULE MCAccountCredentials ------------------------
(* AccountCredentials with a worker, an operator and short times for TLC. *)
EXTENDS AccountCredentials
=============================================================================
