----------------------------- MODULE PlanProofs -----------------------------
(***************************************************************************)
(* What a plan of Plan() is, for every finite set of resources whose       *)
(* dependencies have no cycle: each event once, deletes before updates     *)
(* before creates, dependents deleted before and created after what they   *)
(* depend on.  The proofs about PopulatePlan and Mesh rest on it.          *)
(***************************************************************************)
EXTENDS Desired, ResourcePlan, LayeringProofs

\* The order topoSort makes its phases from.
Order(events, reverse, idOf, deps) ==
  IF reverse THEN {<<e[2], e[1]>> : e \in Edges(events, idOf, deps)}
             ELSE Edges(events, idOf, deps)

LEMMA EdgesAre ==
  ASSUME NEW events, NEW idOf, NEW deps
  PROVE  /\ Edges(events, idOf, deps) \in SUBSET (events \X events)
         /\ \A j, k : <<j, k>> \in Edges(events, idOf, deps)
                        <=> j \in events /\ k \in events /\ idOf[j] \in deps[k]
<1>1. ASSUME NEW e
      PROVE  e \in Edges(events, idOf, deps)
               <=> \E k \in events : \E j \in events : idOf[j] \in deps[k] /\ e = <<j, k>>
    BY DEF Edges
<1>2. Edges(events, idOf, deps) \in SUBSET (events \X events)
    BY <1>1
<1>3. ASSUME NEW j, NEW k
      PROVE  <<j, k>> \in Edges(events, idOf, deps)
               <=> j \in events /\ k \in events /\ idOf[j] \in deps[k]
    BY <1>1
<1> QED
    BY <1>2, <1>3

LEMMA OrderIs ==
  ASSUME NEW events, NEW idOf, NEW deps, NEW reverse \in BOOLEAN
  PROVE  /\ Order(events, reverse, idOf, deps) \in SUBSET (events \X events)
         /\ \A j, k : <<j, k>> \in Order(events, reverse, idOf, deps)
                        <=> /\ j \in events /\ k \in events
                            /\ IF reverse THEN idOf[k] \in deps[j] ELSE idOf[j] \in deps[k]
<1> DEFINE E == Edges(events, idOf, deps)
<1>1. E \in SUBSET (events \X events)
    BY EdgesAre
<1>2. \A j, k : <<j, k>> \in E <=> j \in events /\ k \in events /\ idOf[j] \in deps[k]
    BY EdgesAre
<1> HIDE DEF E
<1>3. CASE ~reverse
  <2>1. Order(events, reverse, idOf, deps) = E
      BY <1>3 DEF Order, E
  <2> QED
      BY <1>1, <1>2, <1>3, <2>1
<1>4. CASE reverse
  <2>1. Order(events, reverse, idOf, deps) = {<<e[2], e[1]>> : e \in E}
      BY <1>4 DEF Order, E
  <2>2. ASSUME NEW j, NEW k PROVE <<j, k>> \in {<<e[2], e[1]>> : e \in E} <=> <<k, j>> \in E
    <3>1. ASSUME <<k, j>> \in E PROVE <<j, k>> \in {<<e[2], e[1]>> : e \in E}
      <4> DEFINE e == <<k, j>>
      <4>1. e \in E /\ <<j, k>> = <<e[2], e[1]>>
          BY <3>1
      <4> QED
          BY <4>1
    <3>2. ASSUME <<j, k>> \in {<<e[2], e[1]>> : e \in E} PROVE <<k, j>> \in E
      <4>1. PICK e \in E : <<j, k>> = <<e[2], e[1]>>
          BY <3>2
      <4>2. e = <<e[1], e[2]>>
          BY <1>1
      <4>3. e[2] = j /\ e[1] = k
          BY <4>1
      <4> QED
          BY <4>2, <4>3
    <3> QED
        BY <3>1, <3>2
  <2>3. {<<e[2], e[1]>> : e \in E} \in SUBSET (events \X events)
      BY <1>1
  <2> QED
      BY <1>2, <1>4, <2>1, <2>2, <2>3
<1> QED
    BY <1>3, <1>4

-----------------------------------------------------------------------------
(* The phases of one action.                                               *)

\* P runs each of the events once.
Runs(P, action, events) ==
  /\ P \in Seq(SUBSET ({action} \X events))
  /\ \A k \in events : \E n \in DOMAIN P : <<action, k>> \in P[n]
  /\ \A n \in DOMAIN P, m \in DOMAIN P : m < n => P[m] \intersect P[n] = {}

\* P keeps the order, and makes no phase that is not needed.
Keeps(P, action, before) ==
  /\ \A j, k : <<j, k>> \in before =>
       \A n \in DOMAIN P : <<action, k>> \in P[n] =>
         \E m \in 1 .. n - 1 : <<action, j>> \in P[m]
  /\ \A n \in DOMAIN P : \A k : n > 1 /\ <<action, k>> \in P[n] =>
       \E j : <<j, k>> \in before /\ <<action, j>> \in P[n - 1]

LEMMA PhasesRun ==
  ASSUME NEW action, NEW events, IsFiniteSet(events), NEW reverse \in BOOLEAN,
         NEW idOf, NEW deps
  PROVE  /\ Runs(Phases(action, events, reverse, idOf, deps), action, events)
         /\ \A n, k : <<action, k>> \in Phases(action, events, reverse, idOf, deps)[n]
                        /\ n \in DOMAIN Phases(action, events, reverse, idOf, deps)
              => k \in Layers(events, Order(events, reverse, idOf, deps))[n]
         /\ DOMAIN Phases(action, events, reverse, idOf, deps)
              = DOMAIN Layers(events, Order(events, reverse, idOf, deps))
         /\ \A n \in DOMAIN Phases(action, events, reverse, idOf, deps) :
              \A k \in Layers(events, Order(events, reverse, idOf, deps))[n] :
                <<action, k>> \in Phases(action, events, reverse, idOf, deps)[n]
<1> DEFINE before == Order(events, reverse, idOf, deps)
           L == Layers(events, before)
           P == Phases(action, events, reverse, idOf, deps)
<1>1. P = [n \in DOMAIN L |-> {<<action, k>> : k \in L[n]}]
    BY DEF Phases, Order
<1>2. before \in SUBSET (events \X events)
    BY OrderIs
<1> HIDE DEF before, P
<1>3. /\ L \in Seq(SUBSET events)
      /\ \A x \in events : \E n \in DOMAIN L : x \in L[n]
      /\ \A n \in DOMAIN L : \A m \in 1 .. n - 1 : L[m] \intersect L[n] = {}
    BY <1>2, LayersPartition
<1> HIDE DEF L
<1>4. DOMAIN P = DOMAIN L /\ DOMAIN L = 1 .. Len(L) /\ Len(L) \in Nat
    BY <1>1, <1>3
<1>5. \A n \in DOMAIN L : \A k : <<action, k>> \in P[n] <=> k \in L[n]
    BY <1>1
<1>6. \A n \in DOMAIN L : P[n] \in SUBSET ({action} \X events)
  <2> TAKE n \in DOMAIN L
  <2>1. P[n] = {<<action, k>> : k \in L[n]} /\ L[n] \in SUBSET events
      BY <1>1, <1>3
  <2> QED
      BY <2>1
<1>7. P \in Seq(SUBSET ({action} \X events))
  <2>1. P \in [1 .. Len(L) -> SUBSET ({action} \X events)]
      BY <1>1, <1>4, <1>6
  <2> QED
      BY <1>4, <2>1
<1>8. ASSUME NEW n \in DOMAIN P, NEW m \in DOMAIN P, m < n, NEW e \in P[m], e \in P[n]
      PROVE  FALSE
  <2>1. PICK k \in L[m] : e = <<action, k>>
      BY <1>1, <1>4
  <2>2. k \in L[n]
      BY <1>4, <1>5, <1>8, <2>1
  <2>3. m \in 1 .. n - 1
      BY <1>4, <1>8
  <2> QED
      BY <1>3, <1>4, <2>1, <2>2, <2>3
<1>9. Runs(P, action, events)
    BY <1>3, <1>4, <1>5, <1>7, <1>8 DEF Runs
<1> QED
    BY <1>4, <1>5, <1>9 DEF P, L, before

LEMMA PhasesKeep ==
  ASSUME NEW action, NEW events, IsFiniteSet(events), NEW reverse \in BOOLEAN,
         NEW idOf, NEW deps, NEW rank \in [events -> Nat],
         \A a, b : <<a, b>> \in Order(events, reverse, idOf, deps) => rank[a] < rank[b]
  PROVE  Keeps(Phases(action, events, reverse, idOf, deps), action,
               Order(events, reverse, idOf, deps))
<1> DEFINE before == Order(events, reverse, idOf, deps)
           L == Layers(events, before)
           P == Phases(action, events, reverse, idOf, deps)
<1>1. before \in SUBSET (events \X events)
    BY OrderIs
<1>2. /\ DOMAIN P = DOMAIN L
      /\ \A n \in DOMAIN P : \A k : <<action, k>> \in P[n] <=> k \in L[n]
    BY PhasesRun
<1>3. L \in Seq(SUBSET events)
    BY <1>1, LayersPartition
<1>4. \A a, b : <<a, b>> \in before => rank[a] < rank[b]
    OBVIOUS
<1> HIDE DEF P, before
<1>5. ASSUME NEW j, NEW k, <<j, k>> \in before, NEW n \in DOMAIN P, <<action, k>> \in P[n]
      PROVE  \E m \in 1 .. n - 1 : <<action, j>> \in P[m]
  <2>1. n \in DOMAIN L /\ k \in L[n]
      BY <1>2, <1>5
  <2>2. PICK m \in 1 .. n - 1 : j \in L[m]
      BY <1>1, <1>4, <1>5, <2>1, LayersKeepRank
  <2>3. m \in DOMAIN L
      BY <1>3, <2>1
  <2> QED
      BY <1>2, <2>2, <2>3
<1>6. ASSUME NEW n \in DOMAIN P, NEW k, n > 1, <<action, k>> \in P[n]
      PROVE  \E j : <<j, k>> \in before /\ <<action, j>> \in P[n - 1]
  <2>1. n \in DOMAIN L /\ k \in L[n] /\ L[n] \in SUBSET events
      BY <1>2, <1>3, <1>6
  <2>2. Blocked(L[n], before) # L[n]
    <3> HIDE DEF L
    <3> QED
        BY <1>4, <2>1, RankedIsNotBlocked
  <2>3. PICK j \in L[n - 1] : <<j, k>> \in before
      BY <1>1, <1>6, <2>1, <2>2, LayersHaveNoGap
  <2>4. n - 1 \in DOMAIN L
      BY <1>3, <1>6, <2>1
  <2> QED
      BY <1>2, <2>3, <2>4
<1> QED
    BY <1>5, <1>6 DEF Keeps, P, before

-----------------------------------------------------------------------------
(* The plan.                                                               *)

\* p deletes del, then updates upd, then creates cre, in the orders given.
IsPlan(p, del, upd, cre, down, up) ==
  /\ p \in Seq(SUBSET (({"delete"} \X del) \union ({"update"} \X upd)
                         \union ({"create"} \X cre)))
  /\ \A k \in del : \E n \in DOMAIN p : <<"delete", k>> \in p[n]
  /\ \A k \in upd : \E n \in DOMAIN p : <<"update", k>> \in p[n]
  /\ \A k \in cre : \E n \in DOMAIN p : <<"create", k>> \in p[n]
  /\ \A n \in DOMAIN p, m \in DOMAIN p : m < n => p[m] \intersect p[n] = {}
  /\ \A j, k : <<j, k>> \in down =>
       \A n \in DOMAIN p : <<"delete", k>> \in p[n] =>
         \E m \in 1 .. n - 1 : <<"delete", j>> \in p[m]
  /\ \A j, k : <<j, k>> \in up =>
       \A n \in DOMAIN p : <<"create", k>> \in p[n] =>
         \E m \in 1 .. n - 1 : <<"create", j>> \in p[m]
  /\ \A j, k : \A n \in DOMAIN p, m \in DOMAIN p :
       <<"delete", j>> \in p[m] /\ <<"create", k>> \in p[n] => m < n
  /\ \A k : \A n \in DOMAIN p : <<"create", k>> \in p[n] =>
       \/ \E j : n > 1 /\ <<j, k>> \in up /\ <<"create", j>> \in p[n - 1]
       \/ \A m \in 1 .. n - 1 : \A i : <<"create", i>> \notin p[m]

LEMMA Concatenated ==
  ASSUME NEW del, NEW upd, NEW cre, NEW down, NEW up,
         NEW D, NEW U, NEW C,
         Runs(D, "delete", del), Keeps(D, "delete", down),
         Runs(U, "update", upd),
         Runs(C, "create", cre), Keeps(C, "create", up)
  PROVE  IsPlan(D \o U \o C, del, upd, cre, down, up)
<1> DEFINE X == ({"delete"} \X del) \union ({"update"} \X upd) \union ({"create"} \X cre)
           p == D \o U \o C
           d == Len(D)
           u == d + Len(U)
           c == u + Len(C)
<1>1. D \in Seq(SUBSET X) /\ U \in Seq(SUBSET X) /\ C \in Seq(SUBSET X)
  <2>1. D \in Seq(SUBSET ({"delete"} \X del)) /\ U \in Seq(SUBSET ({"update"} \X upd))
          /\ C \in Seq(SUBSET ({"create"} \X cre))
      BY DEF Runs
  <2>2. \A A, B : A \subseteq B => \A q \in Seq(SUBSET A) : q \in Seq(SUBSET B)
    <3> TAKE A, B
    <3> HAVE A \subseteq B
    <3> TAKE q \in Seq(SUBSET A)
    <3>1. Len(q) \in Nat /\ q \in [1 .. Len(q) -> SUBSET A]
        OBVIOUS
    <3>2. q \in [1 .. Len(q) -> SUBSET B]
        BY <3>1
    <3> QED
        BY <3>1, <3>2
  <2>3. ({"delete"} \X del) \subseteq X /\ ({"update"} \X upd) \subseteq X
          /\ ({"create"} \X cre) \subseteq X
      OBVIOUS
  <2> HIDE DEF X
  <2> QED
      BY <2>1, <2>2, <2>3
<1> HIDE DEF X
<1>2. /\ d \in Nat /\ u \in Nat /\ c \in Nat /\ d <= u /\ u <= c
      /\ p \in Seq(SUBSET X) /\ DOMAIN p = 1 .. c
      /\ DOMAIN D = 1 .. d /\ DOMAIN U = 1 .. u - d /\ DOMAIN C = 1 .. c - u
      /\ \A n \in 1 .. d : p[n] = D[n]
      /\ \A n \in 1 .. u - d : p[n + d] = U[n]
      /\ \A n \in 1 .. c - u : p[n + u] = C[n]
  <2> DEFINE DU == D \o U
  <2>1. DU \in Seq(SUBSET X) /\ Len(DU) = u /\ d \in Nat /\ u \in Nat /\ d <= u
      BY <1>1
  <2>2. \A n \in 1 .. d : DU[n] = D[n]
      BY <1>1
  <2>3. \A n \in 1 .. u - d : DU[n + d] = U[n]
      BY <1>1
  <2>4. p = DU \o C
      BY <1>1
  <2> HIDE DEF DU, p
  <2>5. p \in Seq(SUBSET X) /\ Len(p) = c /\ c \in Nat /\ u <= c
    <3>1. p \in Seq(SUBSET X) /\ Len(p) = Len(DU) + Len(C) /\ Len(C) \in Nat
      <4>1. C \in Seq(SUBSET X) /\ DU \in Seq(SUBSET X)
          BY <1>1, <2>1
      <4>2. DU \o C \in Seq(SUBSET X) /\ Len(DU \o C) = Len(DU) + Len(C)
          BY <4>1
      <4> QED
          BY <2>4, <4>1, <4>2
    <3>2. Len(p) = c
        BY <2>1, <3>1
    <3> HIDE DEF u
    <3> QED
        BY <2>1, <3>1, <3>2
  <2>11. DU \in Seq(SUBSET X) /\ C \in Seq(SUBSET X)
      BY <1>1, <2>1
  <2>12. /\ \A n \in 1 .. Len(DU) : (DU \o C)[n] = DU[n]
         /\ \A n \in 1 .. Len(C) : (DU \o C)[n + Len(DU)] = C[n]
    <3> HIDE DEF X
    <3>1. ASSUME NEW n \in 1 .. Len(DU) PROVE (DU \o C)[n] = DU[n]
        BY <2>11, <3>1, Joined
    <3>2. ASSUME NEW n \in 1 .. Len(C) PROVE (DU \o C)[n + Len(DU)] = C[n]
        BY <2>11, <3>2, Joined
    <3> QED
        BY Zenon, <3>1, <3>2
  <2>13. Len(DU) = u /\ Len(C) = c - u
      BY <1>1, <2>1
  <2>6. \A n \in 1 .. u : p[n] = DU[n]
      BY Zenon, <2>4, <2>12, <2>13
  <2>7. \A n \in 1 .. c - u : p[n + u] = C[n]
      BY Zenon, <2>4, <2>12, <2>13
  <2>8. \A n \in 1 .. d : p[n] = D[n]
      BY <2>1, <2>2, <2>6
  <2>9. \A n \in 1 .. u - d : p[n + d] = U[n]
    <3> TAKE n \in 1 .. u - d
    <3>1. n + d \in 1 .. u
        BY <2>1
    <3> QED
        BY <2>3, <2>6, <3>1
  <2>10. DOMAIN D = 1 .. d /\ DOMAIN U = 1 .. u - d /\ DOMAIN C = 1 .. c - u
      BY <1>1
  <2> QED
      BY <2>1, <2>5, <2>7, <2>8, <2>9, <2>10
<1> HIDE DEF p, d, u, c
<1>0. d \in Nat /\ u \in Nat /\ c \in Nat /\ d <= u /\ u <= c
    BY <1>2
<1>3. /\ \A n \in 1 .. d : D[n] \in SUBSET ({"delete"} \X del)
      /\ \A n \in 1 .. u - d : U[n] \in SUBSET ({"update"} \X upd)
      /\ \A n \in 1 .. c - u : C[n] \in SUBSET ({"create"} \X cre)
    BY <1>2 DEF Runs
\* Where a phase of p comes from.
<1>4. ASSUME NEW n \in 1 .. c
      PROVE  \/ n <= d /\ p[n] = D[n] /\ n \in 1 .. d
             \/ d < n /\ n <= u /\ p[n] = U[n - d] /\ n - d \in 1 .. u - d
             \/ u < n /\ p[n] = C[n - u] /\ n - u \in 1 .. c - u
  <2>1. CASE n <= d
      BY <1>2, <2>1
  <2>2. CASE d < n /\ n <= u
    <3>1. n - d \in 1 .. u - d /\ (n - d) + d = n
        BY <1>2, <2>2
    <3> QED
        BY <1>2, <2>2, <3>1
  <2>3. CASE u < n
    <3>1. n - u \in 1 .. c - u /\ (n - u) + u = n
        BY <1>2, <2>3
    <3> QED
        BY <1>2, <2>3, <3>1
  <2> QED
      BY <1>2, <2>1, <2>2, <2>3
<1>5. ASSUME NEW n \in 1 .. c, NEW k
      PROVE  /\ <<"delete", k>> \in p[n] => n <= d /\ p[n] = D[n] /\ n \in 1 .. d
             /\ <<"update", k>> \in p[n] => d < n /\ n <= u
             /\ <<"create", k>> \in p[n] => u < n /\ p[n] = C[n - u] /\ n - u \in 1 .. c - u
  <2>1. CASE n <= d /\ p[n] = D[n] /\ n \in 1 .. d
    <3>1. \A e \in p[n] : e[1] = "delete"
        BY <1>3, <2>1
    <3> QED
        BY <2>1, <3>1
  <2>2. CASE d < n /\ n <= u /\ p[n] = U[n - d] /\ n - d \in 1 .. u - d
    <3>1. \A e \in p[n] : e[1] = "update"
        BY <1>3, <2>2
    <3> QED
        BY <2>2, <3>1
  <2>3. CASE u < n /\ p[n] = C[n - u] /\ n - u \in 1 .. c - u
    <3>1. \A e \in p[n] : e[1] = "create"
        BY <1>3, <2>3
    <3> QED
        BY <2>3, <3>1
  <2> QED
      BY <1>4, <2>1, <2>2, <2>3
<1>6. ASSUME NEW k \in del PROVE \E n \in 1 .. c : <<"delete", k>> \in p[n]
  <2>1. PICK n \in 1 .. d : <<"delete", k>> \in D[n]
      BY <1>2 DEF Runs
  <2> QED
      BY <1>2, <2>1
<1>7. ASSUME NEW k \in upd PROVE \E n \in 1 .. c : <<"update", k>> \in p[n]
  <2>1. PICK n \in 1 .. u - d : <<"update", k>> \in U[n]
      BY <1>2 DEF Runs
  <2>2. n + d \in 1 .. c
      BY <1>2
  <2> QED
      BY <1>2, <2>1, <2>2
<1>8. ASSUME NEW k \in cre PROVE \E n \in 1 .. c : <<"create", k>> \in p[n]
  <2>1. PICK n \in 1 .. c - u : <<"create", k>> \in C[n]
      BY <1>2 DEF Runs
  <2>2. n + u \in 1 .. c
      BY <1>2
  <2> QED
      BY <1>2, <2>1, <2>2
<1>9. ASSUME NEW n \in 1 .. c, NEW m \in 1 .. c, m < n, NEW e \in p[m], e \in p[n]
      PROVE  FALSE
  <2>1. CASE n <= d /\ p[n] = D[n] /\ n \in 1 .. d
    <3>1. m \in 1 .. d /\ p[m] = D[m]
        BY <1>2, <1>9, <2>1
    <3> QED
        BY <1>2, <1>9, <2>1, <3>1 DEF Runs
  <2>2. CASE d < n /\ n <= u /\ p[n] = U[n - d] /\ n - d \in 1 .. u - d
    <3>1. e[1] = "update"
        BY <1>3, <1>9, <2>2
    <3>2. CASE m <= d /\ p[m] = D[m] /\ m \in 1 .. d
      <4>1. e[1] = "delete"
          BY <1>3, <3>2
      <4> QED
          BY <3>1, <4>1
    <3>3. CASE d < m /\ m <= u /\ p[m] = U[m - d] /\ m - d \in 1 .. u - d
      <4>1. m - d < n - d
          BY <1>2, <1>9
      <4>2. U[m - d] \intersect U[n - d] = {}
          BY <1>2, <2>2, <3>3, <4>1 DEF Runs
      <4> QED
          BY <1>9, <2>2, <3>3, <4>2
    <3>4. m <= u
        BY <1>2, <1>9, <2>2
    <3> QED
        BY <1>2, <1>4, <3>2, <3>3, <3>4
  <2>3. CASE u < n /\ p[n] = C[n - u] /\ n - u \in 1 .. c - u
    <3>1. e[1] = "create"
        BY <1>3, <1>9, <2>3
    <3>2. CASE m <= d /\ p[m] = D[m] /\ m \in 1 .. d
      <4>1. e[1] = "delete"
          BY <1>3, <3>2
      <4> QED
          BY <3>1, <4>1
    <3>3. CASE d < m /\ m <= u /\ p[m] = U[m - d] /\ m - d \in 1 .. u - d
      <4>1. e[1] = "update"
          BY <1>3, <3>3
      <4> QED
          BY <3>1, <4>1
    <3>4. CASE u < m /\ p[m] = C[m - u] /\ m - u \in 1 .. c - u
      <4>1. m - u < n - u
          BY <1>2, <1>9
      <4>2. C[m - u] \intersect C[n - u] = {}
          BY <1>2, <2>3, <3>4, <4>1 DEF Runs
      <4> QED
          BY <1>9, <2>3, <3>4, <4>2
    <3> QED
        BY <1>4, <3>2, <3>3, <3>4
  <2> QED
      BY <1>4, <2>1, <2>2, <2>3
<1>10. ASSUME NEW j, NEW k, <<j, k>> \in down, NEW n \in 1 .. c, <<"delete", k>> \in p[n]
       PROVE  \E m \in 1 .. n - 1 : <<"delete", j>> \in p[m]
  <2>1. n \in 1 .. d /\ <<"delete", k>> \in D[n]
      BY <1>5, <1>10
  <2>2. PICK m \in 1 .. n - 1 : <<"delete", j>> \in D[m]
      BY <1>2, <1>10, <2>1 DEF Keeps
  <2>3. m \in 1 .. d
      BY <1>2, <2>1
  <2> QED
      BY <1>2, <2>2, <2>3
<1>11. ASSUME NEW j, NEW k, <<j, k>> \in up, NEW n \in 1 .. c, <<"create", k>> \in p[n]
       PROVE  \E m \in 1 .. n - 1 : <<"create", j>> \in p[m]
  <2>1. u < n /\ n - u \in 1 .. c - u /\ <<"create", k>> \in C[n - u]
      BY <1>5, <1>11
  <2>2. PICK m \in 1 .. (n - u) - 1 : <<"create", j>> \in C[m]
      BY <1>2, <1>11, <2>1 DEF Keeps
  <2>3. m \in 1 .. c - u /\ m + u \in 1 .. n - 1
      BY <1>2, <2>1
  <2> QED
      BY <1>2, <2>2, <2>3
<1>12. ASSUME NEW j, NEW k, NEW n \in 1 .. c, NEW m \in 1 .. c,
              <<"delete", j>> \in p[m], <<"create", k>> \in p[n]
       PROVE  m < n
  <2>1. m <= d /\ u < n
      BY <1>5, <1>12
  <2> QED
      BY <1>0, <2>1
<1>13. ASSUME NEW k, NEW n \in 1 .. c, <<"create", k>> \in p[n]
       PROVE  \/ \E j : n > 1 /\ <<j, k>> \in up /\ <<"create", j>> \in p[n - 1]
              \/ \A m \in 1 .. n - 1 : \A i : <<"create", i>> \notin p[m]
  <2>1. u < n /\ n - u \in 1 .. c - u /\ <<"create", k>> \in C[n - u]
      BY <1>5, <1>13
  <2>2. CASE n - u > 1
    <3>1. PICK j : <<j, k>> \in up /\ <<"create", j>> \in C[(n - u) - 1]
        BY <1>2, <2>1, <2>2 DEF Keeps
    <3>2. (n - u) - 1 \in 1 .. c - u /\ ((n - u) - 1) + u = n - 1 /\ n > 1
        BY <1>0, <2>1, <2>2
    <3>3. p[n - 1] = C[(n - u) - 1]
        BY <1>2, <3>2
    <3> QED
        BY <3>1, <3>2, <3>3
  <2>3. CASE n - u = 1
    <3>1. ASSUME NEW m \in 1 .. n - 1, NEW i, <<"create", i>> \in p[m] PROVE FALSE
      <4>1. m \in 1 .. c /\ m <= u
          BY <1>0, <2>3
      <4>2. u < m
          BY <1>5, <3>1, <4>1
      <4> QED
          BY <1>0, <4>1, <4>2
    <3> QED
        BY <3>1
  <2>4. n - u > 1 \/ n - u = 1
      BY <1>0, <2>1
  <2> QED
      BY <2>2, <2>3, <2>4
<1>14. p \in Seq(SUBSET (({"delete"} \X del) \union ({"update"} \X upd)
                           \union ({"create"} \X cre)))
       /\ DOMAIN p = 1 .. c
    BY <1>2 DEF X
<1>15. /\ \A k \in del : \E n \in DOMAIN p : <<"delete", k>> \in p[n]
       /\ \A k \in upd : \E n \in DOMAIN p : <<"update", k>> \in p[n]
       /\ \A k \in cre : \E n \in DOMAIN p : <<"create", k>> \in p[n]
    BY <1>6, <1>7, <1>8, <1>14
<1>16. \A n \in DOMAIN p, m \in DOMAIN p : m < n => p[m] \intersect p[n] = {}
    BY <1>9, <1>14
<1>17. \A j, k : <<j, k>> \in down =>
         \A n \in DOMAIN p : <<"delete", k>> \in p[n] =>
           \E m \in 1 .. n - 1 : <<"delete", j>> \in p[m]
    BY <1>10, <1>14
<1>18. \A j, k : <<j, k>> \in up =>
         \A n \in DOMAIN p : <<"create", k>> \in p[n] =>
           \E m \in 1 .. n - 1 : <<"create", j>> \in p[m]
    BY <1>11, <1>14
<1>19. \A j, k : \A n \in DOMAIN p, m \in DOMAIN p :
         <<"delete", j>> \in p[m] /\ <<"create", k>> \in p[n] => m < n
    BY <1>12, <1>14
<1>20. \A k : \A n \in DOMAIN p : <<"create", k>> \in p[n] =>
         \/ \E j : n > 1 /\ <<j, k>> \in up /\ <<"create", j>> \in p[n - 1]
         \/ \A m \in 1 .. n - 1 : \A i : <<"create", i>> \notin p[m]
    BY <1>13, <1>14
<1>21. IsPlan(p, del, upd, cre, down, up)
    BY Zenon, <1>14, <1>15, <1>16, <1>17, <1>18, <1>19, <1>20 DEF IsPlan
<1> QED
    BY <1>21 DEF p

(* Every plan Plan() returns, when the creates can be numbered so that     *)
(* dependencies have smaller numbers and the deletes the other way round.  *)
THEOREM PlansAreOrdered ==
  ASSUME NEW actual, IsFiniteSet(actual), NEW desired, IsFiniteSet(desired),
         NEW recreate, NEW update, NEW idOf, NEW deps,
         NEW upRank \in [Creates(actual, desired, recreate) -> Nat],
         \A j \in Creates(actual, desired, recreate), k \in Creates(actual, desired, recreate) :
           idOf[j] \in deps[k] => upRank[j] < upRank[k],
         NEW downRank \in [Deletes(actual, desired, recreate) -> Nat],
         \A j \in Deletes(actual, desired, recreate), k \in Deletes(actual, desired, recreate) :
           idOf[k] \in deps[j] => downRank[j] < downRank[k],
         NEW p \in Plans(actual, desired, recreate, update, idOf, deps)
  PROVE  \E W \in Kept(Deletes(actual, desired, recreate), idOf) :
           IsPlan(p, W, Updates(actual, desired, recreate, update),
                  Creates(actual, desired, recreate),
                  Order(W, TRUE, idOf, deps),
                  Order(Creates(actual, desired, recreate), FALSE, idOf, deps))
<1> DEFINE del == Deletes(actual, desired, recreate)
           upd == Updates(actual, desired, recreate, update)
           cre == Creates(actual, desired, recreate)
<1>1. IsFiniteSet(del) /\ IsFiniteSet(upd) /\ IsFiniteSet(cre)
  <2>1. del \subseteq actual /\ upd \subseteq actual /\ cre \subseteq desired
      BY DEF Deletes, Updates, Creates
  <2> HIDE DEF del, upd, cre
  <2> QED
      BY <2>1, FS_Subset
<1>2. PICK W \in Kept(del, idOf) :
        p = Phases("delete", W, TRUE, idOf, deps)
              \o Phases("update", upd, FALSE, idOf, deps)
              \o Phases("create", cre, FALSE, idOf, deps)
    BY DEF Plans
<1>3. W \in SUBSET del
    BY DEF Kept
<1>4. \A a, b : <<a, b>> \in Order(cre, FALSE, idOf, deps) => upRank[a] < upRank[b]
    BY OrderIs
<1>5. \A a, b : <<a, b>> \in Order(W, TRUE, idOf, deps) => downRank[a] < downRank[b]
    BY <1>3, OrderIs
<1>6. upRank \in [cre -> Nat] /\ downRank \in [del -> Nat]
    OBVIOUS
<1> HIDE DEF del, upd, cre
<1>7. IsFiniteSet(W)
    BY <1>1, <1>3, FS_Subset
<1>8. Runs(Phases("delete", W, TRUE, idOf, deps), "delete", W)
    BY <1>7, PhasesRun
<1>9. Runs(Phases("update", upd, FALSE, idOf, deps), "update", upd)
    BY <1>1, PhasesRun
<1>10. Runs(Phases("create", cre, FALSE, idOf, deps), "create", cre)
    BY <1>1, PhasesRun
<1>11. Keeps(Phases("create", cre, FALSE, idOf, deps), "create", Order(cre, FALSE, idOf, deps))
    BY <1>1, <1>4, <1>6, PhasesKeep
<1>12. Keeps(Phases("delete", W, TRUE, idOf, deps), "delete", Order(W, TRUE, idOf, deps))
  <2> DEFINE rank == [w \in W |-> downRank[w]]
  <2>1. rank \in [W -> Nat]
      BY <1>3, <1>6
  <2>2. \A a, b : <<a, b>> \in Order(W, TRUE, idOf, deps) => rank[a] < rank[b]
    <3>1. \A a, b : <<a, b>> \in Order(W, TRUE, idOf, deps) => a \in W /\ b \in W
        BY OrderIs
    <3> QED
        BY <1>5, <3>1
  <2> HIDE DEF rank
  <2> QED
      BY <1>7, <2>1, <2>2, PhasesKeep
<1>13. IsPlan(p, W, upd, cre, Order(W, TRUE, idOf, deps), Order(cre, FALSE, idOf, deps))
    BY <1>2, <1>8, <1>9, <1>10, <1>11, <1>12, Concatenated
<1> QED
    BY <1>13 DEF del, upd, cre

-----------------------------------------------------------------------------
(* The dependencies of what a configuration asks for.                      *)

\* bootstrap.sourceNode names another node, and newNodes is visited in order.
IsConfig(c) ==
  /\ IsFiniteSet(c.nodes) /\ NoSource \notin c.nodes
  /\ c.source \in [c.nodes -> c.nodes \union {NoSource}]
  /\ \A n \in c.nodes : c.source[n] # n

\* At most one node is new.
OneNew(c) == \A n \in NewNodes(c) : NewNodes(c) = {n} /\ c.order = <<n>>

\* How many creates must come before that of id when everything is missing.
Rank(c, id) ==
  CASE id[1] = "user" -> 0
    [] id[1] = "node" -> 1
    [] id[1] = "slot" -> 2
    [] id[1] = "slot_create" -> 2
    [] id[1] = "disabled_subscription" -> 3
    [] id[1] = "subscription" ->
         IF IsCopy(c, id[2], id[3]) THEN 6
         ELSE IF id[3] \in NewNodes(c) THEN 12
         ELSE IF id[2] \in NewNodes(c) THEN 9 ELSE 3
    [] id[1] = "sync_event" -> IF id[3] \in NewNodes(c) THEN 7 ELSE 4
    [] id[1] = "wait_for_sync_event" -> IF id[3] \in NewNodes(c) THEN 8 ELSE 5
    [] id[1] = "peer_catchup" -> 5
    [] id[1] = "lag_tracker_commit_ts" -> 9
    [] id[1] = "slot_advance" -> 10
    [] id[1] = "origin_advance" -> 11

LEMMA RanksAre ==
  ASSUME NEW c, NEW p, NEW s
  PROVE  /\ Rank(c, User(p)) = 0 /\ Rank(c, SpockNode(p)) = 1
         /\ Rank(c, Slot(p, s)) = 2 /\ Rank(c, SlotCreate(p, s)) = 2
         /\ Rank(c, DisabledSub(p, s)) = 3
         /\ Rank(c, Subscription(p, s)) =
              (IF IsCopy(c, p, s) THEN 6 ELSE IF s \in NewNodes(c) THEN 12
               ELSE IF p \in NewNodes(c) THEN 9 ELSE 3)
         /\ Rank(c, SyncEvent(p, s)) = (IF s \in NewNodes(c) THEN 7 ELSE 4)
         /\ Rank(c, WaitForSync(p, s)) = (IF s \in NewNodes(c) THEN 8 ELSE 5)
         /\ Rank(c, PeerCatchup(p, s)) = 5 /\ Rank(c, LagTracker(p, s)) = 9
         /\ Rank(c, SlotAdvance(p, s)) = 10 /\ Rank(c, OriginAdvance(p, s)) = 11
BY DEF Rank, User, SpockNode, Slot, SlotCreate, DisabledSub, Subscription, SyncEvent,
       WaitForSync, PeerCatchup, LagTracker, SlotAdvance, OriginAdvance

LEMMA DependenciesAre ==
  ASSUME NEW c, NEW p, NEW s
  PROVE  /\ Dependencies(c, User(p)) = {}
         /\ Dependencies(c, SpockNode(p)) = {User(p)}
         /\ Dependencies(c, Slot(p, s)) = {SpockNode(p)}
         /\ Dependencies(c, Subscription(p, s)) =
              {SpockNode(p), SpockNode(s), Slot(p, s)}
                \union (IF {p, s} \subseteq c.nodes THEN SubscriptionGates(c, p, s) ELSE {})
         /\ Dependencies(c, SlotCreate(p, s)) = {SpockNode(p)}
         /\ Dependencies(c, DisabledSub(p, s)) = {SpockNode(p), SpockNode(s), SlotCreate(p, s)}
         /\ Dependencies(c, SyncEvent(p, s)) =
              {SpockNode(p), Subscription(p, s)} \union SyncEventGates(c, p, s)
         /\ Dependencies(c, WaitForSync(p, s)) = {SyncEvent(p, s)}
         /\ Dependencies(c, PeerCatchup(p, s)) = {SyncEvent(p, s)}
         /\ Dependencies(c, LagTracker(p, s)) = {SpockNode(s), WaitForSync(c.source[s], s)}
         /\ Dependencies(c, SlotAdvance(p, s)) = {SpockNode(p), LagTracker(p, s)}
         /\ Dependencies(c, OriginAdvance(p, s)) = {SlotAdvance(p, s)}
BY DEF Dependencies, NodeDeps, SlotDeps, SubscriptionDeps, SlotCreateDeps, DisabledSubDeps,
       SyncEventDeps, WaitForSyncDeps, PeerCatchupDeps, LagTrackerDeps, SlotAdvanceDeps,
       OriginAdvanceDeps, User, SpockNode, Slot, SlotCreate, DisabledSub, Subscription, SyncEvent,
       WaitForSync, PeerCatchup, LagTracker, SlotAdvance, OriginAdvance

\* What a new node's subscriptions and sync events wait for.
GatesAre(c, new, src) ==
  /\ new \in c.nodes /\ src \in c.nodes /\ src # new /\ NewNodes(c) = {new}
  /\ \A p, s : IsCopy(c, p, s) <=> p = src /\ s = new
  /\ \A p \in Peers(c, new) : p \in c.nodes /\ p # new /\ p # src
  /\ SubscriptionGates(c, src, new)
       = UNION {{WaitForSync(p, src), PeerCatchup(p, src)} : p \in Peers(c, new)}
  /\ \A p \in Peers(c, new) : SubscriptionGates(c, p, new) = {OriginAdvance(p, new)}
  /\ \A s : s # new => SubscriptionGates(c, new, s) = {WaitForSync(src, new)}
  /\ \A p, s : p # new /\ s # new => SubscriptionGates(c, p, s) = {}
  /\ \A p \in Peers(c, new) : SyncEventGates(c, p, src) = {SlotCreate(p, new)}
  /\ SyncEventGates(c, src, new) = {}

\* The gates when one node is new.
LEMMA GatesOfTheNewNode ==
  ASSUME NEW c, IsConfig(c), OneNew(c), NEW new \in NewNodes(c), NEW src, src = c.source[new]
  PROVE  GatesAre(c, new, src)
<1>1. new \in c.nodes /\ src \in c.nodes /\ src # new /\ NewNodes(c) = {new} /\ c.order = <<new>>
    BY DEF NewNodes, IsConfig, OneNew
<1>2. \A p, s : IsCopy(c, p, s) <=> p = src /\ s = new
    BY <1>1 DEF IsCopy
<1>3. \A p \in Peers(c, new) : p \in c.nodes /\ p # new /\ p # src
    BY DEF Peers
<1>4. SubscriptionGates(c, src, new)
        = UNION {{WaitForSync(p, src), PeerCatchup(p, src)} : p \in Peers(c, new)}
    BY <1>2 DEF SubscriptionGates, PeerDeps
<1>5. ASSUME NEW p \in Peers(c, new)
      PROVE  SubscriptionGates(c, p, new) = {OriginAdvance(p, new)}
  <2>1. NewNodes(c) \intersect {new} = {new} /\ NewNodes(c) \intersect {p} = {}
      BY <1>1, <1>3
  <2>2. ~IsCopy(c, p, new)
      BY <1>2, <1>3
  <2> QED
      BY <2>1, <2>2 DEF SubscriptionGates
<1>6. ASSUME NEW s, s # new PROVE SubscriptionGates(c, new, s) = {WaitForSync(src, new)}
  <2>1. NewNodes(c) \intersect {new} = {new} /\ NewNodes(c) \intersect {s} = {}
      BY <1>1, <1>6
  <2>2. ~IsCopy(c, new, s)
      BY <1>2, <1>6
  <2> QED
      BY <2>1, <2>2 DEF SubscriptionGates
<1>7. ASSUME NEW p, NEW s, p # new, s # new PROVE SubscriptionGates(c, p, s) = {}
  <2>1. NewNodes(c) \intersect {p} = {} /\ NewNodes(c) \intersect {s} = {}
      BY <1>1, <1>7
  <2>2. ~IsCopy(c, p, s)
      BY <1>2, <1>7
  <2> QED
      BY <2>1, <2>2 DEF SubscriptionGates
<1>8. ASSUME NEW p, NEW s, Emitters(c, p, s) = {new}
      PROVE  SyncEventGates(c, p, s) = IF new = s THEN {} ELSE {SlotCreate(p, new)}
  <2> DEFINE Visits == {i \in DOMAIN c.order : c.order[i] \in Emitters(c, p, s)}
  <2>1. Visits = {1} /\ c.order[1] = new
      BY <1>1, <1>8
  <2>2. (CHOOSE i \in Visits : \A j \in Visits : j <= i) = 1
    <3> HIDE DEF Visits
    <3> QED
        BY <2>1
  <2> QED
      BY <2>1, <2>2 DEF SyncEventGates
<1>9. ASSUME NEW p \in Peers(c, new) PROVE SyncEventGates(c, p, src) = {SlotCreate(p, new)}
  <2>1. Emitters(c, p, src) = {new}
      BY <1>1 DEF Emitters
  <2> QED
      BY <1>1, <1>8, <2>1
<1>10. SyncEventGates(c, src, new) = {}
  <2>1. Emitters(c, src, new) = {new}
      BY <1>1 DEF Emitters
  <2> QED
      BY <1>8, <2>1
<1> QED
    BY <1>1, <1>2, <1>3, <1>4, <1>5, <1>6, <1>7, <1>9, <1>10 DEF GatesAre

LEMMA PairsOfSlots ==
  ASSUME NEW nodes, NEW k
  PROVE  (k \in {Slot(pr[1], pr[2]) : pr \in Pairs(nodes)}
            \/ k \in {Subscription(pr[1], pr[2]) : pr \in Pairs(nodes)})
          <=> \E p \in nodes, s \in nodes : p # s /\ k \in {Slot(p, s), Subscription(p, s)}
<1>1. ASSUME NEW p \in nodes, NEW s \in nodes, p # s, k \in {Slot(p, s), Subscription(p, s)}
      PROVE  \E pr \in Pairs(nodes) : k \in {Slot(pr[1], pr[2]), Subscription(pr[1], pr[2])}
  <2> DEFINE pr == <<p, s>>
  <2>1. pr \in Pairs(nodes) /\ pr[1] = p /\ pr[2] = s
      BY <1>1 DEF Pairs
  <2> QED
      BY <1>1, <2>1
<1>2. ASSUME NEW pr \in Pairs(nodes), k \in {Slot(pr[1], pr[2]), Subscription(pr[1], pr[2])}
      PROVE  \E p \in nodes, s \in nodes : p # s /\ k \in {Slot(p, s), Subscription(p, s)}
  <2>1. pr[1] \in nodes /\ pr[2] \in nodes /\ pr[1] # pr[2]
      BY DEF Pairs
  <2> QED
      BY <1>2, <2>1
<1> QED
    BY <1>1, <1>2

\* What a configuration with one new node asks for.
LEMMA DesiredWithOneNew ==
  ASSUME NEW c, IsConfig(c), OneNew(c), NEW new \in NewNodes(c), NEW src, src = c.source[new]
  PROVE  \A k : k \in DesiredIds(c) <=>
           \/ \E n \in c.nodes : k \in {User(n), SpockNode(n)}
           \/ \E p \in c.nodes, s \in c.nodes : p # s /\ k \in {Slot(p, s), Subscription(p, s)}
           \/ k \in {SyncEvent(src, new), WaitForSync(src, new)}
           \/ \E p \in Peers(c, new) :
                k \in {SlotCreate(p, new), DisabledSub(p, new), SyncEvent(p, src),
                       WaitForSync(p, src), PeerCatchup(p, src), LagTracker(p, new),
                       SlotAdvance(p, new), OriginAdvance(p, new)}
<1>1. NewNodes(c) = {new}
    BY GatesOfTheNewNode DEF GatesAre
<1>2. UNION {PopulateResources(c, n) : n \in NewNodes(c)} = PopulateResources(c, new)
    BY <1>1
<1>3. \A k : k \in PopulateResources(c, new) <=>
           \/ k \in {SyncEvent(src, new), WaitForSync(src, new)}
           \/ \E p \in Peers(c, new) :
                k \in {SlotCreate(p, new), DisabledSub(p, new), SyncEvent(p, src),
                       WaitForSync(p, src), PeerCatchup(p, src), LagTracker(p, new),
                       SlotAdvance(p, new), OriginAdvance(p, new)}
    BY DEF PopulateResources
<1> TAKE k
<1>4. (k \in {User(n) : n \in c.nodes} \/ k \in {SpockNode(n) : n \in c.nodes})
        <=> \E n \in c.nodes : k \in {User(n), SpockNode(n)}
    OBVIOUS
<1> QED
    BY <1>2, <1>3, <1>4, PairsOfSlots DEF DesiredIds

LEMMA DesiredWithoutNew ==
  ASSUME NEW c, NewNodes(c) = {}
  PROVE  \A k : k \in DesiredIds(c) <=>
           \/ \E n \in c.nodes : k \in {User(n), SpockNode(n)}
           \/ \E p \in c.nodes, s \in c.nodes : p # s /\ k \in {Slot(p, s), Subscription(p, s)}
<1>1. UNION {PopulateResources(c, n) : n \in NewNodes(c)} = {}
    OBVIOUS
<1> TAKE k
<1>4. (k \in {User(n) : n \in c.nodes} \/ k \in {SpockNode(n) : n \in c.nodes})
        <=> \E n \in c.nodes : k \in {User(n), SpockNode(n)}
    OBVIOUS
<1>5. k \in DesiredIds(c) <=>
        \/ k \in {User(n) : n \in c.nodes} \/ k \in {SpockNode(n) : n \in c.nodes}
        \/ k \in {Slot(pr[1], pr[2]) : pr \in Pairs(c.nodes)}
        \/ k \in {Subscription(pr[1], pr[2]) : pr \in Pairs(c.nodes)}
    BY <1>1 DEF DesiredIds
<1> QED
    BY <1>4, <1>5, PairsOfSlots

\* The types of the identifiers and of the keys of orphans.
Kinds == {"user", "node", "orphan", "slot", "subscription", "slot_create",
          "disabled_subscription", "sync_event", "wait_for_sync_event",
          "peer_catchup", "lag_tracker_commit_ts", "slot_advance", "origin_advance"}

LEMMA KeysAreFinite ==
  ASSUME NEW N, IsFiniteSet(N) PROVE IsFiniteSet(Kinds \X N \X N)
<1>1. IsFiniteSet(Kinds)
  <2> DEFINE A == {"user", "node", "orphan", "slot"}
             B == {"subscription", "slot_create", "disabled_subscription", "sync_event"}
             C == {"wait_for_sync_event", "peer_catchup", "lag_tracker_commit_ts", "slot_advance"}
             D == {"origin_advance"}
  <2>1. ASSUME NEW w, NEW x, NEW y, NEW z PROVE IsFiniteSet({w, x, y, z})
    <3>1. IsFiniteSet({w} \union {x})
        BY FS_Singleton, FS_AddElement
    <3>2. IsFiniteSet(({w} \union {x}) \union {y})
        BY <3>1, FS_AddElement
    <3>3. IsFiniteSet((({w} \union {x}) \union {y}) \union {z})
        BY <3>2, FS_AddElement
    <3>4. (({w} \union {x}) \union {y}) \union {z} = {w, x, y, z}
        OBVIOUS
    <3> QED
        BY <3>3, <3>4
  <2>2. IsFiniteSet(A) /\ IsFiniteSet(B) /\ IsFiniteSet(C) /\ IsFiniteSet(D)
      BY <2>1, FS_Singleton
  <2>3. Kinds = ((A \union B) \union C) \union D
      BY DEF Kinds
  <2> HIDE DEF A, B, C, D
  <2> QED
      BY <2>2, <2>3, FS_Union
<1>2. IsFiniteSet(Kinds \X (N \X N))
    BY <1>1, FS_Product
<1> DEFINE f == [x \in Kinds \X (N \X N) |-> <<x[1], x[2][1], x[2][2]>>]
<1>3. f \in [Kinds \X (N \X N) -> Kinds \X N \X N]
    OBVIOUS
<1>4. ASSUME NEW t \in Kinds \X N \X N PROVE \E x \in Kinds \X (N \X N) : f[x] = t
  <2> DEFINE x == <<t[1], <<t[2], t[3]>>>>
  <2>1. x \in Kinds \X (N \X N) /\ f[x] = t
      OBVIOUS
  <2> QED
      BY <2>1
<1>5. f \in Surjection(Kinds \X (N \X N), Kinds \X N \X N)
    BY <1>3, <1>4 DEF Surjection
<1> QED
    BY <1>2, <1>5, FS_Surjection

LEMMA DesiredAreKeys ==
  ASSUME NEW c, IsConfig(c), OneNew(c)
  PROVE  DesiredIds(c) \in SUBSET ((Kinds \ {"orphan"}) \X c.nodes \X c.nodes)
<1> USE DEF User, SpockNode, Slot, Subscription, SyncEvent, WaitForSync, SlotCreate, DisabledSub,
            PeerCatchup, LagTracker, SlotAdvance, OriginAdvance, Kinds
<1>1. CASE NewNodes(c) = {}
    BY <1>1, DesiredWithoutNew
<1>2. CASE NewNodes(c) # {}
  <2>0. PICK new \in NewNodes(c) : TRUE
      BY <1>2
  <2> DEFINE src == c.source[new]
  <2>1. /\ new \in c.nodes /\ src \in c.nodes
        /\ \A p \in Peers(c, new) : p \in c.nodes
      BY GatesOfTheNewNode DEF GatesAre
  <2> HIDE DEF src
  <2>2. \A k : k \in DesiredIds(c) =>
           \/ \E n \in c.nodes : k \in {User(n), SpockNode(n)}
           \/ \E p \in c.nodes, s \in c.nodes : p # s /\ k \in {Slot(p, s), Subscription(p, s)}
           \/ k \in {SyncEvent(src, new), WaitForSync(src, new)}
           \/ \E p \in Peers(c, new) :
                k \in {SlotCreate(p, new), DisabledSub(p, new), SyncEvent(p, src),
                       WaitForSync(p, src), PeerCatchup(p, src), LagTracker(p, new),
                       SlotAdvance(p, new), OriginAdvance(p, new)}
      BY DesiredWithOneNew DEF src
  <2>3. ASSUME NEW k \in DesiredIds(c) PROVE k \in (Kinds \ {"orphan"}) \X c.nodes \X c.nodes
    <3>1. CASE \E n \in c.nodes : k \in {User(n), SpockNode(n)}
        BY <3>1
    <3>2. CASE \E p \in c.nodes, s \in c.nodes : p # s /\ k \in {Slot(p, s), Subscription(p, s)}
        BY <3>2
    <3>3. CASE k \in {SyncEvent(src, new), WaitForSync(src, new)}
        BY <2>1, <3>3
    <3>4. CASE \E p \in Peers(c, new) :
                k \in {SlotCreate(p, new), DisabledSub(p, new), SyncEvent(p, src),
                       WaitForSync(p, src), PeerCatchup(p, src), LagTracker(p, new),
                       SlotAdvance(p, new), OriginAdvance(p, new)}
      <4>1. PICK p \in Peers(c, new) :
                k \in {SlotCreate(p, new), DisabledSub(p, new), SyncEvent(p, src),
                       WaitForSync(p, src), PeerCatchup(p, src), LagTracker(p, new),
                       SlotAdvance(p, new), OriginAdvance(p, new)}
          BY <3>4
      <4>2. p \in c.nodes
          BY <2>1
      <4> QED
          BY <2>1, <4>1, <4>2
    <3> QED
        BY <2>2, <3>1, <3>2, <3>3, <3>4
  <2> QED
      BY <2>3
<1> QED
    BY <1>1, <1>2

LEMMA DesiredIsFinite ==
  ASSUME NEW c, IsConfig(c), OneNew(c) PROVE IsFiniteSet(DesiredIds(c))
<1>1. DesiredIds(c) \in SUBSET (Kinds \X c.nodes \X c.nodes)
  <2>1. DesiredIds(c) \in SUBSET ((Kinds \ {"orphan"}) \X c.nodes \X c.nodes)
      BY DesiredAreKeys
  <2> QED
      BY <2>1
<1>2. IsFiniteSet(Kinds \X c.nodes \X c.nodes)
    BY KeysAreFinite DEF IsConfig
<1> QED
    BY <1>1, <1>2, FS_Subset

(* The dependencies of all that a configuration with at most one new node  *)
(* asks for have no cycle, and name nothing it does not ask for.           *)
THEOREM DependenciesAreRanked ==
  ASSUME NEW c, IsConfig(c), OneNew(c),
         NEW k \in DesiredIds(c), NEW j \in Dependencies(c, k)
  PROVE  j \in DesiredIds(c) /\ Rank(c, j) < Rank(c, k)
<1>1. CASE NewNodes(c) = {}
  <2>1. \A p, s : ~IsCopy(c, p, s) /\ SubscriptionGates(c, p, s) = {}
      BY <1>1 DEF IsCopy, SubscriptionGates
  <2>2. CASE \E n \in c.nodes : k \in {User(n), SpockNode(n)}
    <3>1. PICK n \in c.nodes : k \in {User(n), SpockNode(n)}
        BY <2>2
    <3>2. k = SpockNode(n) /\ j = User(n)
      <4>1. Dependencies(c, User(n)) = {}
          BY DependenciesAre
      <4>2. Dependencies(c, SpockNode(n)) = {User(n)}
          BY DependenciesAre
      <4>3. k # User(n)
          BY <4>1
      <4>4. k = SpockNode(n)
          BY <3>1, <4>3
      <4> QED
          BY <4>2, <4>4
    <3>3. j \in DesiredIds(c)
        BY <1>1, <3>2, DesiredWithoutNew
    <3>4. Rank(c, j) = 0 /\ Rank(c, k) = 1
        BY <3>2, RanksAre
    <3> QED
        BY <3>3, <3>4
  <2>3. CASE \E p \in c.nodes, s \in c.nodes : p # s /\ k \in {Slot(p, s), Subscription(p, s)}
    <3>1. PICK p \in c.nodes, s \in c.nodes : p # s /\ k \in {Slot(p, s), Subscription(p, s)}
        BY <2>3
    <3>2. CASE k = Slot(p, s)
      <4>1. j = SpockNode(p)
          BY <3>2, DependenciesAre
      <4>2. Rank(c, j) = 1 /\ Rank(c, k) = 2
          BY <3>2, <4>1, RanksAre
      <4> QED
          BY <1>1, <4>1, <4>2, DesiredWithoutNew
    <3>3. CASE k = Subscription(p, s)
      <4>1. j \in {SpockNode(p), SpockNode(s), Slot(p, s)}
          BY <2>1, <3>3, DependenciesAre
      <4>2. Rank(c, j) \in {1, 2} /\ Rank(c, k) = 3
          BY <1>1, <2>1, <3>3, <4>1, RanksAre
      <4> QED
          BY <1>1, <3>1, <4>1, <4>2, DesiredWithoutNew
    <3> QED
        BY <3>1, <3>2, <3>3
  <2> QED
      BY <1>1, <2>2, <2>3, DesiredWithoutNew
<1>2. CASE NewNodes(c) # {}
  <2>0. PICK new \in NewNodes(c) : TRUE
      BY <1>2
  <2> DEFINE src == c.source[new]
             peers == Peers(c, new)
  <2>1. /\ new \in c.nodes /\ src \in c.nodes /\ src # new /\ NewNodes(c) = {new}
        /\ \A p, s : IsCopy(c, p, s) <=> p = src /\ s = new
        /\ \A p \in peers : p \in c.nodes /\ p # new /\ p # src
        /\ SubscriptionGates(c, src, new)
              = UNION {{WaitForSync(p, src), PeerCatchup(p, src)} : p \in peers}
        /\ \A p \in peers : SubscriptionGates(c, p, new) = {OriginAdvance(p, new)}
        /\ \A s : s # new => SubscriptionGates(c, new, s) = {WaitForSync(src, new)}
        /\ \A p, s : p # new /\ s # new => SubscriptionGates(c, p, s) = {}
        /\ \A p \in peers : SyncEventGates(c, p, src) = {SlotCreate(p, new)}
        /\ SyncEventGates(c, src, new) = {}
    <3>1. GatesAre(c, new, src)
        BY GatesOfTheNewNode
    <3> QED
        BY <3>1 DEF GatesAre
  <2>2. \A p \in c.nodes : p # new /\ p # src => p \in peers
      BY DEF Peers
  <2> HIDE DEF src, peers
  <2>3. \A i : i \in DesiredIds(c) <=>
           \/ \E n \in c.nodes : i \in {User(n), SpockNode(n)}
           \/ \E p \in c.nodes, s \in c.nodes : p # s /\ i \in {Slot(p, s), Subscription(p, s)}
           \/ i \in {SyncEvent(src, new), WaitForSync(src, new)}
           \/ \E p \in peers :
                i \in {SlotCreate(p, new), DisabledSub(p, new), SyncEvent(p, src),
                       WaitForSync(p, src), PeerCatchup(p, src), LagTracker(p, new),
                       SlotAdvance(p, new), OriginAdvance(p, new)}
      BY DesiredWithOneNew DEF src, peers
  <2>4. CASE \E n \in c.nodes : k \in {User(n), SpockNode(n)}
    <3>1. PICK n \in c.nodes : k \in {User(n), SpockNode(n)}
        BY <2>4
    <3>2. k = SpockNode(n) /\ j = User(n)
      <4>1. Dependencies(c, User(n)) = {}
          BY DependenciesAre
      <4>2. Dependencies(c, SpockNode(n)) = {User(n)}
          BY DependenciesAre
      <4>3. k # User(n)
          BY <4>1
      <4>4. k = SpockNode(n)
          BY <3>1, <4>3
      <4> QED
          BY <4>2, <4>4
    <3>3. Rank(c, j) = 0 /\ Rank(c, k) = 1
        BY <3>2, RanksAre
    <3> QED
        BY <2>3, <3>2, <3>3
  <2>5. CASE \E p \in c.nodes, s \in c.nodes : p # s /\ k = Slot(p, s)
    <3>1. PICK p \in c.nodes, s \in c.nodes : p # s /\ k = Slot(p, s)
        BY <2>5
    <3>2. j = SpockNode(p)
        BY <3>1, DependenciesAre
    <3>3. Rank(c, j) = 1 /\ Rank(c, k) = 2
        BY <3>1, <3>2, RanksAre
    <3> QED
        BY <2>3, <3>2, <3>3
  <2>6. CASE \E p \in c.nodes, s \in c.nodes : p # s /\ k = Subscription(p, s)
    <3>1. PICK p \in c.nodes, s \in c.nodes : p # s /\ k = Subscription(p, s)
        BY <2>6
    <3>2. j \in {SpockNode(p), SpockNode(s), Slot(p, s)} \/ j \in SubscriptionGates(c, p, s)
        BY <3>1, DependenciesAre
    <3>3. Rank(c, k) = (IF p = src /\ s = new THEN 6 ELSE IF s = new THEN 12
                        ELSE IF p = new THEN 9 ELSE 3)
        BY <2>1, <3>1, RanksAre
    <3>4. CASE j \in {SpockNode(p), SpockNode(s), Slot(p, s)}
      <4>1. Rank(c, j) \in {1, 2}
        <5>1. Rank(c, SpockNode(p)) = 1 /\ Rank(c, SpockNode(s)) = 1 /\ Rank(c, Slot(p, s)) = 2
            BY RanksAre
        <5> QED
            BY <3>4, <5>1
      <4>2. j \in DesiredIds(c)
          BY <2>3, <3>1, <3>4
      <4> QED
          BY <3>3, <4>1, <4>2
    <3>5. CASE j \in SubscriptionGates(c, p, s) /\ p = src /\ s = new
      <4>1. PICK q \in peers : j \in {WaitForSync(q, src), PeerCatchup(q, src)}
          BY <2>1, <3>5
      <4>2. Rank(c, j) = 5
          BY <2>1, <4>1, RanksAre
      <4>3. j \in DesiredIds(c)
          BY <2>3, <4>1
      <4> QED
          BY <3>3, <3>5, <4>2, <4>3
    <3>6. CASE j \in SubscriptionGates(c, p, s) /\ p # src /\ s = new
      <4>1. p \in peers
          BY <2>2, <3>1, <3>6
      <4>2. j = OriginAdvance(p, new)
          BY <2>1, <3>6, <4>1
      <4>3. Rank(c, j) = 11
          BY <4>2, RanksAre
      <4>4. j \in DesiredIds(c)
          BY <2>3, <4>1, <4>2
      <4> QED
          BY <3>3, <3>6, <4>3, <4>4
    <3>7. CASE j \in SubscriptionGates(c, p, s) /\ p = new
      <4>1. j = WaitForSync(src, new) /\ s # new
          BY <2>1, <3>1, <3>7
      <4>2. Rank(c, j) = 8
          BY <2>1, <4>1, RanksAre
      <4>3. j \in DesiredIds(c)
          BY <2>3, <4>1
      <4> QED
          BY <2>1, <3>3, <3>7, <4>1, <4>2, <4>3
    <3>8. CASE j \in SubscriptionGates(c, p, s) /\ p # new /\ s # new
        BY <2>1, <3>8
    <3> QED
        BY <3>2, <3>4, <3>5, <3>6, <3>7, <3>8
  <2>7. CASE k \in {SyncEvent(src, new), WaitForSync(src, new)}
    <3>1. CASE k = SyncEvent(src, new)
      <4>1. j \in {SpockNode(src), Subscription(src, new)}
          BY <2>1, <3>1, DependenciesAre
      <4>2. Rank(c, k) = 7 /\ Rank(c, j) \in {1, 6}
          BY <2>1, <3>1, <4>1, RanksAre
      <4> QED
          BY <2>1, <2>3, <4>1, <4>2
    <3>2. CASE k = WaitForSync(src, new)
      <4>1. j = SyncEvent(src, new)
          BY <3>2, DependenciesAre
      <4>2. Rank(c, k) = 8 /\ Rank(c, j) = 7
          BY <2>1, <3>2, <4>1, RanksAre
      <4> QED
          BY <2>3, <4>1, <4>2
    <3> QED
        BY <2>7, <3>1, <3>2
  <2>8. ASSUME NEW p \in peers,
               k \in {SlotCreate(p, new), DisabledSub(p, new), SyncEvent(p, src),
                      WaitForSync(p, src), PeerCatchup(p, src), LagTracker(p, new),
                      SlotAdvance(p, new), OriginAdvance(p, new)}
        PROVE  j \in DesiredIds(c) /\ Rank(c, j) < Rank(c, k)
    <3>0. p \in c.nodes /\ p # new /\ p # src
        BY <2>1
    <3>1. CASE k = SlotCreate(p, new)
      <4>1. j = SpockNode(p)
          BY <3>1, DependenciesAre
      <4>2. Rank(c, k) = 2 /\ Rank(c, j) = 1
          BY <3>1, <4>1, RanksAre
      <4> QED
          BY <2>3, <3>0, <4>1, <4>2
    <3>2. CASE k = DisabledSub(p, new)
      <4>1. j \in {SpockNode(p), SpockNode(new), SlotCreate(p, new)}
          BY <3>2, DependenciesAre
      <4>2. Rank(c, k) = 3 /\ Rank(c, j) \in {1, 2}
          BY <3>2, <4>1, RanksAre
      <4> QED
          BY <2>1, <2>3, <3>0, <4>1, <4>2
    <3>3. CASE k = SyncEvent(p, src)
      <4>1. j \in {SpockNode(p), Subscription(p, src), SlotCreate(p, new)}
          BY <2>1, <3>3, DependenciesAre
      <4>2. Rank(c, k) = 4 /\ Rank(c, j) \in {1, 2, 3}
          BY <2>1, <3>0, <3>3, <4>1, RanksAre
      <4>3. j \in DesiredIds(c)
          BY <2>1, <2>3, <3>0, <4>1
      <4> QED
          BY <4>2, <4>3
    <3>4. CASE k = WaitForSync(p, src)
      <4>1. j = SyncEvent(p, src)
          BY <3>4, DependenciesAre
      <4>2. Rank(c, k) = 5 /\ Rank(c, j) = 4
          BY <2>1, <3>4, <4>1, RanksAre
      <4> QED
          BY <2>3, <4>1, <4>2
    <3>5. CASE k = PeerCatchup(p, src)
      <4>1. j = SyncEvent(p, src)
          BY <3>5, DependenciesAre
      <4>2. Rank(c, k) = 5 /\ Rank(c, j) = 4
          BY <2>1, <3>5, <4>1, RanksAre
      <4> QED
          BY <2>3, <4>1, <4>2
    <3>6. CASE k = LagTracker(p, new)
      <4>1. j \in {SpockNode(new), WaitForSync(src, new)}
          BY <3>6, DependenciesAre DEF src
      <4>2. Rank(c, k) = 9 /\ Rank(c, j) \in {1, 8}
        <5>1. Rank(c, LagTracker(p, new)) = 9 /\ Rank(c, SpockNode(new)) = 1
            BY RanksAre
        <5>2. Rank(c, WaitForSync(src, new)) = 8
            BY <2>1, RanksAre
        <5> QED
            BY <3>6, <4>1, <5>1, <5>2
      <4> QED
          BY <2>1, <2>3, <4>1, <4>2
    <3>7. CASE k = SlotAdvance(p, new)
      <4>1. j \in {SpockNode(p), LagTracker(p, new)}
          BY <3>7, DependenciesAre
      <4>2. Rank(c, k) = 10 /\ Rank(c, j) \in {1, 9}
          BY <3>7, <4>1, RanksAre
      <4> QED
          BY <2>3, <3>0, <4>1, <4>2
    <3>8. CASE k = OriginAdvance(p, new)
      <4>1. j = SlotAdvance(p, new)
          BY <3>8, DependenciesAre
      <4>2. Rank(c, k) = 11 /\ Rank(c, j) = 10
          BY <3>8, <4>1, RanksAre
      <4> QED
          BY <2>3, <4>1, <4>2
    <3> QED
        BY <2>8, <3>1, <3>2, <3>3, <3>4, <3>5, <3>6, <3>7, <3>8
  <2> QED
      BY <2>3, <2>4, <2>5, <2>6, <2>7, <2>8
<1> QED
    BY <1>1, <1>2
=============================================================================
