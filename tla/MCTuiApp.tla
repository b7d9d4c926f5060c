------------------------------ MODULE MCTuiApp ------------------------------
(* TuiApp for TLC: the workers of the exclusive group are alike.           *)
EXTENDS TuiApp, TLC

UiWorkerSymmetry == Permutations(EcuWorkers)
=============================================================================
