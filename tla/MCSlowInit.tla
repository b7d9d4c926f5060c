----------------------------- MODULE MCSlowInit -----------------------------
(* SlowInit for TLC: its constants are numbers and flags.                  *)
EXTENDS SlowInit
=============================================================================
