------------------------------ MODULE MCQrLogin ------------------------------
(* QrLogin with a few requests on two attempts for TLC. *)
EXTENDS QrLogin
=============================================================================
