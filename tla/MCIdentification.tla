-------------------------- MODULE MCIdentification --------------------------
(* Identification for TLC.                                                 *)
EXTENDS Identification
=============================================================================
