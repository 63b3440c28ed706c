--------------------------- MODULE MCEvalAttempts ---------------------------
\* EvalAttempts for TLC; miners and patches are interchangeable.
EXTENDS EvalAttempts, TLC

Interchangeable == Permutations(Miners) \cup Permutations(Patches)
=============================================================================
