---------------------------- MODULE MCEcuExchange ----------------------------
(* EcuExchange for TLC: the modules on the line are alike unless one is    *)
(* pinned.                                                                 *)
EXTENDS EcuExchange, TLC

ModuleSymmetry == Permutations(Modules)
=============================================================================
