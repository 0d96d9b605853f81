-------------------------- MODULE MCRollbackStack --------------------------
(* Bounds for RollbackStack: three nodes, a limit of two (so the limit is  *)
(* hit), an asynchronous signal and the one abort() raises.                *)
EXTENDS RollbackStack, FiniteSets, TLC

CONSTANTS s1, s2, s3, SIGINT, SIGABRT

MCSteps == {s1, s2, s3}
MCSignals == {SIGINT, SIGABRT}
MCFaults == {SIGABRT}
MCMaxNest == Cardinality(MCSignals)
=============================================================================
