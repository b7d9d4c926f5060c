----------------------- MODULE MCSessionController -------------------------
(* SessionController for TLC: read and clear workers are alike.    *)
EXTENDS SessionController, TLC

WorkerSymmetry == Permutations(EcuWorkers)
=============================================================================
