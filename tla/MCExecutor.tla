------------------------------ MODULE MCExecutor ------------------------------
(***************************************************************************)
(* Every plan that puts three events, or some of them, in any number of    *)
(* phases, with every order the plan respects.                             *)
(***************************************************************************)
EXTENDS OrderedExecutor

CONSTANTS e1, e2, e3

MCEvent == {e1, e2, e3}

MCPlans ==
  LET Seqs == UNION {[1 .. n -> (SUBSET MCEvent) \ {{}}] : n \in 0 .. 3}
  IN  {p \in Seqs : \A n \in DOMAIN p, m \in DOMAIN p :
                      m # n => p[m] \intersect p[n] = {}}

MCPriors == [MCEvent -> SUBSET MCEvent]
=============================================================================
