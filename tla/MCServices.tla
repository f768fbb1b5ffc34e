----------------------------- MODULE MCServices ------------------------------
(* An instance of Services for TLC.                                         *)
EXTENDS Services
=============================================================================
