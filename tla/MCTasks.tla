------------------------------- MODULE MCTasks -------------------------------
EXTENDS Tasks, TLC

\* Processes are interchangeable: no definition tells one from another.
Symmetry == Permutations(Tasks)
=============================================================================
