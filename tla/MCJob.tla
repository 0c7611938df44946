--------------------------------- MODULE MCJob ---------------------------------
EXTENDS Job
CONSTANTS n1, n2, n3, t1
MCOrder == <<n1, n2>>
MCLeaving == {n3}
=============================================================================
