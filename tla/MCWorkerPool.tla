---------------------------- MODULE MCWorkerPool ----------------------------
\* WorkerPool for TLC: two workers at first, two replacements.
EXTENDS WorkerPool

CONSTANTS w1, w2, w3, w4

AllWorkers == {w1, w2, w3, w4}
TwoWorkers == {w1, w2}
=============================================================================
