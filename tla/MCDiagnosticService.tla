------------------------ MODULE MCDiagnosticService ------------------------
(* DiagnosticService for TLC: operators are interchangeable.               *)
EXTENDS DiagnosticService, TLC

OperatorSymmetry == Permutations(Operators)
=============================================================================
