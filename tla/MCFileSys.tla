------------------------------ MODULE MCFileSys ------------------------------
(* The names of the files, and the descriptors, are interchangeable.       *)
EXTENDS FileSys, TLC

Symmetry == Permutations(Names) \cup Permutations(Fds)

\* None; a header and the data of the free map and of the directory, two of
\* the sectors that files get.
SomeSectors == {-1, 0, 3, 4, 8, 12}
=============================================================================
