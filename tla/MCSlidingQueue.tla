--------------------------- MODULE MCSlidingQueue ---------------------------
EXTENDS SlidingQueue, TLC

\* Threads and elements are interchangeable: no action orders either.
Symmetry == Permutations(Thread) \cup Permutations(Elem)
=============================================================================
