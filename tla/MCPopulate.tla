------------------------------ MODULE MCPopulate ------------------------------
EXTENDS Populate
CONSTANTS n1, n2, n3
MCNode == {n1, n2, n3}
MCInitial == {n1, n2}
=============================================================================
