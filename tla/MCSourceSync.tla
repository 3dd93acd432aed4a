---------------------------- MODULE MCSourceSync ----------------------------
(* SourceSync with a few workers and short times for TLC. *)
EXTENDS SourceSync
=============================================================================
