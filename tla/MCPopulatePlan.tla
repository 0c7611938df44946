---------------------------- MODULE MCPopulatePlan ----------------------------
(***************************************************************************)
(* Configurations of two to four of the nodes n1..n4.  MCOneNew: at most   *)
(* one new node, from any source.  MCTwoNew: two new nodes at once, from   *)
(* any of the old nodes, in either order of the newNodes map.              *)
(***************************************************************************)
EXTENDS PopulatePlan, FiniteSets

CONSTANTS n1, n2, n3, n4

MCNode == {n1, n2, n3, n4}

MCMembers == {N \in SUBSET MCNode : Cardinality(N) >= 2}

MCOneNew ==
  UNION {
    {[nodes |-> N, source |-> [n \in N |-> NoSource], order |-> <<>>]}
      \union {[nodes |-> N,
               source |-> [n \in N |-> IF n = pr[1] THEN pr[2] ELSE NoSource],
               order |-> <<pr[1]>>] : pr \in Pairs(N)} : N \in MCMembers}

MCTwoNew ==
  UNION {
    {[nodes |-> N,
      source |-> [n \in N |-> CASE n = a[1] -> a[2] [] n = b[1] -> b[2]
                                [] OTHER -> NoSource],
      order |-> <<a[1], b[1]>>] :
       <<a, b>> \in {q \in Pairs(N) \X Pairs(N) :
                       /\ q[1][1] # q[2][1]
                       /\ {q[1][1], q[2][1]} \intersect {q[1][2], q[2][2]} = {}}} :
    N \in {M \in MCMembers : Cardinality(M) >= 3}}
=============================================================================
