------------------------------ MODULE MCTopoSort ------------------------------
(***************************************************************************)
(* Every dependency graph over four identifiers.  Five events: k5 carries  *)
(* the Identifier() and the dependencies of k1, as two orphan SpockNode    *)
(* objects of refresh.go do, and k2 also depends on a resource that is not *)
(* among the events, as most creates do.                                   *)
(***************************************************************************)
EXTENDS TopoSort

CONSTANTS k1, k2, k3, k4, k5, i1, i2, i3, i4, outside

MCKey  == {k1, k2, k3, k4, k5}
MCId   == {i1, i2, i3, i4, outside}
MCIdOf == [k \in MCKey |->
             CASE k \in {k1, k5} -> i1 [] k = k2 -> i2 [] k = k3 -> i3
               [] OTHER -> i4]

MCGraphs ==
  {[k \in MCKey |->
      CASE k = k5 -> g[k1] [] k = k2 -> g[k2] \union {outside} [] OTHER -> g[k]] :
     g \in [MCKey \ {k5} -> SUBSET (MCId \ {outside})]}
=============================================================================
