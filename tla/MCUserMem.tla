------------------------------ MODULE MCUserMem ------------------------------
EXTENDS UserMem, TLC

\* Processes are interchangeable: no definition tells one from another.
Symmetry == Permutations(Procs)

\* Bound: slots that have a pointer and hold no memory.
MaxEmpty == 1

\* What TLC continues from.  Nothing is claimed of what follows a stray free,
\* and states with more than MaxEmpty such slots are checked but not left.
Explored ==
  /\ stray = {}
  /\ Cardinality({s \in Procs \X AllocSlots :
                    mem_allocs[s[1]][s[2]].ptr # Null /\ ~Holds(s[1], s[2])}) <= MaxEmpty
=============================================================================
