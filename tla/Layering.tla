------------------------------- MODULE Layering -------------------------------
(***************************************************************************)
(* What topoSort computes, said without its counters: what follows nothing *)
(* comes first, what only follows that comes second, and so on; what is on *)
(* or behind a cycle goes last, in one piece.  TopoSort.tla is the         *)
(* algorithm of the code and is checked against this definition; the mesh  *)
(* model plans with it.                                                    *)
(***************************************************************************)
EXTENDS Naturals, Sequences, FiniteSets

\* The elements of S some other element of S must precede.
Blocked(S, before) == {x \in S : \E y \in S : <<y, x>> \in before}

\* What follows an element of P.
Followers(P, before) == {b[2] : b \in {a \in before : a[1] \in P}}

\* Chains(S, before)[n][m] is what m - 1 pairs in a row lead to, m <= n + 1:
\* it shrinks until it is all cycles.
Chains(S, before) ==
  LET Longer[n \in Nat] ==
        IF n = 0 THEN <<S>>
        ELSE LET prev == Longer[n - 1] IN Append(prev, Followers(prev[n], before))
  IN  Longer

\* The phases of S under before, a set of pairs of elements of S.
Layers(S, before) ==
  LET chain == Chains(S, before)[Cardinality(S)]
      depth == Cardinality({n \in 1 .. Cardinality(S) : chain[n] # chain[n + 1]})
      cycle == chain[depth + 1]
  IN  [n \in 1 .. depth |-> chain[n] \ chain[n + 1]]
        \o (IF cycle = {} THEN <<>> ELSE <<cycle>>)
=============================================================================
