---------------------------- MODULE MCMatrixRun ----------------------------
EXTENDS MatrixRun, TLC

\* Invocations differ in their arguments only.
Interchangeable == Permutations(Runs)
=============================================================================
