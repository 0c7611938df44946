-------------------------------- MODULE MCMesh --------------------------------
EXTENDS Mesh, TLC
CONSTANTS n1, n2, n3
MCNode == {n1, n2, n3}
MCInitial == {n1, n2}
\* The two first nodes are interchangeable.
MCSymmetry == Permutations(MCInitial)
=============================================================================
