---------------------------- MODULE LayeringProofs ----------------------------
(***************************************************************************)
(* What Layers computes on every finite set: phases that cut the set in    *)
(* pieces, and that keep every order that can be kept.                     *)
(*                                                                         *)
(* Layers is defined by recursion.  The facts about it are proved with the *)
(* principle of the least number, stated for a set of numbers (NatMin).    *)
(***************************************************************************)
EXTENDS Layering, WellFoundedInduction, FiniteSetTheorems, TLAPS

LEMMA NatMin ==
  ASSUME NEW T \in SUBSET Nat, T # {}
  PROVE  \E m \in T : \A k \in T : m <= k
<1> DEFINE Less == {ss \in Nat \X Nat : ss[1] < ss[2]}
<1>1. IsWellFoundedOn(Less, Nat)
    BY NatLessThanWellFounded DEF OpToRel
<1>2. PICK m \in T : \A k \in T : <<k, m>> \notin Less
  <2> HIDE DEF Less
  <2> QED
      BY <1>1, WFMin
<1>3. \A k \in T : ~(k < m)
    BY <1>2
<1> QED
    BY <1>3

-----------------------------------------------------------------------------
(* The chain of what follows.                                              *)

\* Chains is what its definition says.
LEMMA ChainsDefined ==
  ASSUME NEW S, NEW before
  PROVE  Chains(S, before) =
           [n \in Nat |-> IF n = 0 THEN <<S>>
                          ELSE Append(Chains(S, before)[n - 1],
                                      Followers(Chains(S, before)[n - 1][n], before))]
<1> DEFINE Longer(p, n) == Append(p, Followers(p[n], before))
           Upto(g, n) == g = [i \in 0 .. n |-> IF i = 0 THEN <<S>> ELSE Longer(g[i - 1], i)]
           All(f) == f = [n \in Nat |-> IF n = 0 THEN <<S>> ELSE Longer(f[n - 1], n)]
<1>1. Chains(S, before) = CHOOSE f : All(f)
    BY DEF Chains
<1> HIDE DEF Longer
<1>2. \A n \in Nat : \E g : Upto(g, n)
  <2> DEFINE T == {n \in Nat : ~ \E g : Upto(g, n)}
  <2> SUFFICES ASSUME T # {} PROVE FALSE
      OBVIOUS
  <2>1. PICK m \in T : \A k \in T : m <= k
    <3> T \in SUBSET Nat
        OBVIOUS
    <3> HIDE DEF T
    <3> QED
        BY NatMin
  <2>2. Upto([i \in 0 .. 0 |-> <<S>>], 0)
      OBVIOUS
  <2>3. m # 0
      BY <2>1, <2>2
  <2>4. m - 1 \in Nat /\ m - 1 \notin T
      BY <2>1, <2>3
  <2>5. PICK g : Upto(g, m - 1)
      BY <2>4
  <2> DEFINE h == [i \in 0 .. m |-> IF i = m THEN Longer(g[m - 1], m) ELSE g[i]]
  <2>6. Upto(h, m)
    <3>1. ASSUME NEW i \in 0 .. m
          PROVE  h[i] = IF i = 0 THEN <<S>> ELSE Longer(h[i - 1], i)
      <4>1. CASE i = m
        <5>1. h[i] = Longer(g[m - 1], m) /\ h[i - 1] = g[m - 1]
            BY <2>3, <2>4, <4>1
        <5> QED
            BY <2>3, <4>1, <5>1
      <4>2. CASE i # m
        <5>1. i \in 0 .. m - 1 /\ (i # 0 => i - 1 \in 0 .. m - 1 /\ i - 1 # m)
            BY <2>1, <4>2
        <5>2. h[i] = g[i] /\ (i # 0 => h[i - 1] = g[i - 1])
            BY <4>2, <5>1
        <5>3. g[i] = IF i = 0 THEN <<S>> ELSE Longer(g[i - 1], i)
            BY <2>5, <5>1
        <5> QED
            BY <5>2, <5>3
      <4> QED
          BY <4>1, <4>2
    <3> QED
        BY <3>1
  <2> QED
      BY <2>1, <2>6
<1>3. \A n \in Nat, m \in Nat : \A g, h : Upto(g, n) /\ Upto(h, m) =>
        \A i \in 0 .. n : i <= m => g[i] = h[i]
  <2> TAKE n \in Nat, m \in Nat
  <2> TAKE g, h
  <2> HAVE Upto(g, n) /\ Upto(h, m)
  <2> DEFINE T == {i \in 0 .. n : i <= m /\ g[i] # h[i]}
  <2> SUFFICES ASSUME T # {} PROVE FALSE
      OBVIOUS
  <2>1. PICK j \in T : \A k \in T : j <= k
    <3> T \in SUBSET Nat
        OBVIOUS
    <3> HIDE DEF T
    <3> QED
        BY NatMin
  <2>2. \A i \in 0 .. n : g[i] = IF i = 0 THEN <<S>> ELSE Longer(g[i - 1], i)
      OBVIOUS
  <2>3. \A i \in 0 .. m : h[i] = IF i = 0 THEN <<S>> ELSE Longer(h[i - 1], i)
      OBVIOUS
  <2>4. j \in 0 .. n /\ j \in 0 .. m
      BY <2>1
  <2>5. j # 0
      BY <2>1, <2>2, <2>3, <2>4
  <2>6. j - 1 \notin T /\ j - 1 \in 0 .. n /\ j - 1 <= m
      BY <2>1, <2>4, <2>5
  <2>7. g[j - 1] = h[j - 1]
      BY <2>6
  <2> HIDE DEF Upto
  <2> QED
      BY <2>1, <2>2, <2>3, <2>4, <2>5, <2>7
<1>4. \E f : All(f)
  <2> DEFINE pick == [n \in Nat |-> CHOOSE g : Upto(g, n)]
             f == [n \in Nat |-> pick[n][n]]
  <2>1. \A n \in Nat : Upto(pick[n], n)
      BY <1>2
  <2>2. ASSUME NEW n \in Nat
        PROVE  f[n] = IF n = 0 THEN <<S>> ELSE Longer(f[n - 1], n)
    <3>1. pick[n][n] = IF n = 0 THEN <<S>> ELSE Longer(pick[n][n - 1], n)
      <4> n \in 0 .. n
          OBVIOUS
      <4> HIDE DEF pick
      <4> QED
          BY <2>1
    <3>2. CASE n = 0
        BY <3>1, <3>2
    <3>3. CASE n # 0
      <4>1. n - 1 \in Nat /\ n - 1 \in 0 .. n - 1 /\ n - 1 <= n
          BY <3>3
      <4>2. pick[n - 1][n - 1] = pick[n][n - 1]
        <5> HIDE DEF pick, Upto
        <5> QED
            BY <1>3, <2>1, <4>1
      <4> QED
          BY <3>1, <3>3, <4>1, <4>2
    <3> QED
        BY <3>2, <3>3
  <2>3. All(f)
    <3> HIDE DEF pick
    <3> QED
        BY <2>2
  <2> QED
      BY <2>3
<1>5. All(CHOOSE f : All(f))
  <2> HIDE DEF All
  <2> QED
      BY <1>4
<1> QED
    BY <1>1, <1>5 DEF Longer

\* What n pairs in a row lead to.
Chain(S, before, n) == Chains(S, before)[n][n + 1]

LEMMA FollowersOf ==
  ASSUME NEW S, NEW before \in SUBSET (S \X S), NEW P, NEW y
  PROVE  y \in Followers(P, before) <=> \E x \in P : <<x, y>> \in before
<1>1. ASSUME y \in Followers(P, before) PROVE \E x \in P : <<x, y>> \in before
  <2>1. PICK a \in before : a[1] \in P /\ a[2] = y
      BY <1>1 DEF Followers
  <2>2. a = <<a[1], a[2]>>
      OBVIOUS
  <2> QED
      BY <2>1, <2>2
<1>2. ASSUME NEW x \in P, <<x, y>> \in before PROVE y \in Followers(P, before)
  <2> DEFINE a == <<x, y>>
  <2>1. a \in before /\ a[1] \in P /\ a[2] = y
      BY <1>2
  <2> QED
      BY <2>1 DEF Followers
<1> QED
    BY <1>1, <1>2

LEMMA FollowersAreIn ==
  ASSUME NEW S, NEW before \in SUBSET (S \X S), NEW P
  PROVE  Followers(P, before) \in SUBSET S
BY DEF Followers

\* The entries of Chains(S, before)[n] are the chain up to n.
LEMMA ChainsHoldTheChain ==
  ASSUME NEW S, NEW before \in SUBSET (S \X S), NEW n \in Nat
  PROVE  /\ Chains(S, before)[n] \in Seq(SUBSET S)
         /\ Len(Chains(S, before)[n]) = n + 1
         /\ \A k \in 1 .. n + 1 : Chains(S, before)[n][k] = Chain(S, before, k - 1)
<1> DEFINE C == Chains(S, before)
           Good(i) == /\ C[i] \in Seq(SUBSET S) /\ Len(C[i]) = i + 1
                      /\ \A k \in 1 .. i + 1 : C[i][k] = C[k - 1][k]
           T == {i \in Nat : ~Good(i)}
<1>1. C[0] = <<S>> /\ \A i \in Nat : i # 0 => C[i] = Append(C[i - 1], Followers(C[i - 1][i], before))
  <2> DEFINE F == [i \in Nat |-> IF i = 0 THEN <<S>> ELSE Append(C[i - 1], Followers(C[i - 1][i], before))]
  <2>1. C = F
      BY ChainsDefined
  <2>2. F[0] = <<S>>
      OBVIOUS
  <2>3. \A i \in Nat : i # 0 => F[i] = Append(C[i - 1], Followers(C[i - 1][i], before))
      OBVIOUS
  <2> HIDE DEF F, C
  <2> QED
      BY <2>1, <2>2, <2>3
<1> HIDE DEF C
<1>2. T = {}
  <2> SUFFICES ASSUME T # {} PROVE FALSE
      OBVIOUS
  <2>1. PICK m \in T : \A k \in T : m <= k
    <3> T \in SUBSET Nat
        OBVIOUS
    <3> HIDE DEF T
    <3> QED
        BY NatMin
  <2>2. Good(0)
      BY <1>1
  <2>3. m # 0
      BY <2>1, <2>2
  <2>4. m - 1 \in Nat /\ Good(m - 1)
      BY <2>1, <2>3
  <2>5. Followers(C[m - 1][m], before) \in SUBSET S
      BY FollowersAreIn
  <2>6. C[m] = Append(C[m - 1], Followers(C[m - 1][m], before))
      BY <1>1, <2>3
  <2>7. C[m] \in Seq(SUBSET S) /\ Len(C[m]) = m + 1
      BY <2>4, <2>5, <2>6
  <2>8. ASSUME NEW k \in 1 .. m + 1 PROVE C[m][k] = C[k - 1][k]
    <3>1. CASE k = m + 1
        BY <3>1
    <3>2. CASE k # m + 1
      <4>1. k \in 1 .. Len(C[m - 1]) /\ k \in 1 .. (m - 1) + 1
          BY <2>4, <3>2
      <4>2. C[m][k] = C[m - 1][k]
          BY <2>4, <2>5, <2>6, <4>1
      <4> QED
          BY <2>4, <4>1, <4>2
    <3> QED
        BY <3>1, <3>2
  <2> QED
      BY <2>1, <2>7, <2>8
<1>3. Good(n)
    BY <1>2
<1> QED
    BY <1>3 DEF C, Chain

LEMMA ChainSteps ==
  ASSUME NEW S, NEW before \in SUBSET (S \X S)
  PROVE  /\ Chain(S, before, 0) = S
         /\ \A n \in Nat : Chain(S, before, n + 1) = Followers(Chain(S, before, n), before)
<1> DEFINE C == Chains(S, before)
<1>1. C[0] = <<S>> /\ \A i \in Nat : C[i + 1] = Append(C[i], Followers(C[i][i + 1], before))
  <2> DEFINE F == [i \in Nat |-> IF i = 0 THEN <<S>> ELSE Append(C[i - 1], Followers(C[i - 1][i], before))]
  <2>1. C = F
      BY ChainsDefined
  <2>2. F[0] = <<S>>
      OBVIOUS
  <2>3. \A i \in Nat : F[i + 1] = Append(C[i], Followers(C[i][i + 1], before))
      OBVIOUS
  <2> HIDE DEF F, C
  <2> QED
      BY <2>1, <2>2, <2>3
<1>2. Chain(S, before, 0) = S
    BY <1>1 DEF Chain
<1>3. ASSUME NEW n \in Nat
      PROVE  Chain(S, before, n + 1) = Followers(Chain(S, before, n), before)
  <2>1. C[n] \in Seq(SUBSET S) /\ Len(C[n]) = n + 1
      BY ChainsHoldTheChain
  <2>2. Followers(C[n][n + 1], before) \in SUBSET S
      BY FollowersAreIn
  <2> HIDE DEF C
  <2>3. C[n + 1][n + 2] = Followers(C[n][n + 1], before)
    <3>1. C[n + 1] = Append(C[n], Followers(C[n][n + 1], before))
        BY <1>1
    <3>2. n + 2 = Len(C[n]) + 1
        BY <2>1
    <3>3. \A q \in Seq(SUBSET S), y \in SUBSET S : Append(q, y)[Len(q) + 1] = y
        OBVIOUS
    <3> QED
        BY <2>1, <2>2, <3>1, <3>2, <3>3
  <2> QED
      BY <2>3 DEF C, Chain
<1> QED
    BY <1>2, <1>3

-----------------------------------------------------------------------------
(* The chain shrinks until it stands still.                                *)

LEMMA NatInduct ==
  ASSUME NEW G \in SUBSET Nat, 0 \in G, \A n \in G : n + 1 \in G
  PROVE  G = Nat
<1> DEFINE T == Nat \ G
<1> SUFFICES ASSUME T # {} PROVE FALSE
    OBVIOUS
<1>1. PICK m \in T : \A k \in T : m <= k
  <2> T \in SUBSET Nat
      OBVIOUS
  <2> HIDE DEF T
  <2> QED
      BY NatMin
<1>2. m # 0
    OBVIOUS
<1>3. m - 1 \in G
    BY <1>1, <1>2
<1> QED
    BY <1>1, <1>3

LEMMA FollowersGrow ==
  ASSUME NEW P, NEW Q, P \subseteq Q, NEW before
  PROVE  Followers(P, before) \subseteq Followers(Q, before)
BY DEF Followers

LEMMA ChainShrinks ==
  ASSUME NEW S, NEW before \in SUBSET (S \X S)
  PROVE  \A n \in Nat : /\ Chain(S, before, n) \in SUBSET S
                       /\ Chain(S, before, n + 1) \subseteq Chain(S, before, n)
<1> DEFINE c(n) == Chain(S, before, n)
           G == {n \in Nat : c(n) \in SUBSET S /\ c(n + 1) \subseteq c(n)}
<1>1. c(0) = S /\ \A n \in Nat : c(n + 1) = Followers(c(n), before)
    BY ChainSteps
<1> HIDE DEF c
<1>2. c(0 + 1) \in SUBSET S
    BY <1>1, FollowersAreIn
<1>3. 0 \in G
    BY <1>1, <1>2
<1>4. ASSUME NEW n \in G PROVE n + 1 \in G
  <2>1. n \in Nat /\ c(n + 1) \subseteq c(n) /\ c(n + 1) \in SUBSET S
      BY <1>4
  <2>2. c((n + 1) + 1) = Followers(c(n + 1), before) /\ c(n + 1) = Followers(c(n), before)
      BY <1>1, <2>1
  <2>3. c((n + 1) + 1) \subseteq c(n + 1)
      BY <2>1, <2>2, FollowersGrow
  <2> QED
      BY <2>1, <2>3
<1>5. G = Nat
  <2> G \in SUBSET Nat
      OBVIOUS
  <2> HIDE DEF G
  <2> QED
      BY <1>3, <1>4, NatInduct
<1> QED
    BY <1>5 DEF c

LEMMA ChainShrinksFar ==
  ASSUME NEW S, NEW before \in SUBSET (S \X S), NEW n \in Nat, NEW m \in Nat, n <= m
  PROVE  Chain(S, before, m) \subseteq Chain(S, before, n)
<1> DEFINE c(k) == Chain(S, before, k)
           G == {k \in Nat : c(n + k) \subseteq c(n)}
<1>1. \A k \in Nat : c(k + 1) \subseteq c(k)
    BY ChainShrinks
<1> HIDE DEF c
<1>2. 0 \in G
    OBVIOUS
<1>3. ASSUME NEW k \in G PROVE k + 1 \in G
  <2>1. n + (k + 1) = (n + k) + 1 /\ n + k \in Nat
      OBVIOUS
  <2> QED
      BY <1>1, <2>1
<1>4. G = Nat
  <2> G \in SUBSET Nat
      OBVIOUS
  <2> HIDE DEF G
  <2> QED
      BY <1>2, <1>3, NatInduct
<1>5. m - n \in G /\ n + (m - n) = m
  <2>1. m - n \in Nat /\ n + (m - n) = m
      OBVIOUS
  <2> HIDE DEF G
  <2> QED
      BY <1>4, <2>1
<1> QED
    BY <1>5 DEF c

LEMMA ChainSettles ==
  ASSUME NEW S, NEW before \in SUBSET (S \X S), NEW n \in Nat, NEW m \in Nat, n <= m,
         Chain(S, before, n + 1) = Chain(S, before, n)
  PROVE  Chain(S, before, m) = Chain(S, before, n)
<1> DEFINE c(k) == Chain(S, before, k)
           G == {k \in Nat : c(n + k) = c(n)}
<1>1. \A k \in Nat : c(k + 1) = Followers(c(k), before)
    BY ChainSteps
<1>2. c(n + 1) = c(n)
    OBVIOUS
<1> HIDE DEF c
<1>3. 0 \in G
    OBVIOUS
<1>4. ASSUME NEW k \in G PROVE k + 1 \in G
  <2>1. n + (k + 1) = (n + k) + 1 /\ n + k \in Nat /\ c(n + k) = c(n)
      OBVIOUS
  <2>2. c((n + k) + 1) = c(n + 1)
      BY <1>1, <2>1
  <2> QED
      BY <1>2, <2>1, <2>2
<1>5. G = Nat
  <2> G \in SUBSET Nat
      OBVIOUS
  <2> HIDE DEF G
  <2> QED
      BY <1>3, <1>4, NatInduct
<1>6. m - n \in G /\ n + (m - n) = m
  <2>1. m - n \in Nat /\ n + (m - n) = m
      OBVIOUS
  <2> HIDE DEF G
  <2> QED
      BY <1>5, <2>1
<1> QED
    BY <1>6 DEF c

\* As long as it has not stood still, every step of the chain loses an element.
LEMMA ChainEnds ==
  ASSUME NEW S, IsFiniteSet(S), NEW before \in SUBSET (S \X S)
  PROVE  \E d \in 0 .. Cardinality(S) :
            /\ Chain(S, before, d + 1) = Chain(S, before, d)
            /\ \A k \in 1 .. d : Chain(S, before, k) # Chain(S, before, k - 1)
<1> DEFINE c(k) == Chain(S, before, k)
           N == Cardinality(S)
           Still == {k \in Nat : c(k + 1) = c(k)}
           G == {n \in Nat : (\A k \in Still : n <= k) => Cardinality(c(n)) + n <= N}
<1>1. \A n \in Nat : c(n) \in SUBSET S /\ c(n + 1) \subseteq c(n)
    BY ChainShrinks
<1>2. c(0) = S
    BY ChainSteps
<1>3. N \in Nat /\ \A n \in Nat : IsFiniteSet(c(n)) /\ Cardinality(c(n)) \in Nat
  <2> HIDE DEF c
  <2> QED
      BY <1>1, FS_Subset, FS_CardinalityType
<1> HIDE DEF c
<1>4. 0 \in G
    BY <1>2, <1>3
<1>5. ASSUME NEW n \in G PROVE n + 1 \in G
  <2> SUFFICES ASSUME \A k \in Still : n + 1 <= k
               PROVE  Cardinality(c(n + 1)) + (n + 1) <= N
      OBVIOUS
  <2>1. n \notin Still /\ n \in Nat
      OBVIOUS
  <2>2. \A k \in Still : n <= k
      OBVIOUS
  <2>3. Cardinality(c(n)) + n <= N
      BY <2>2
  <2>4. Cardinality(c(n + 1)) < Cardinality(c(n))
    <3>1. c(n + 1) # c(n) /\ c(n + 1) \subseteq c(n)
        BY <1>1, <2>1
    <3>2. IsFiniteSet(c(n))
        BY <1>3, <2>1
    <3>3. Cardinality(c(n + 1)) <= Cardinality(c(n)) /\ (Cardinality(c(n)) = Cardinality(c(n + 1)) => c(n + 1) = c(n))
        BY <3>1, <3>2, FS_Subset
    <3> QED
        BY <1>3, <2>1, <3>1, <3>3
  <2> QED
      BY <1>3, <2>1, <2>3, <2>4
<1>6. G = Nat
  <2> G \in SUBSET Nat
      OBVIOUS
  <2> HIDE DEF G
  <2> QED
      BY <1>4, <1>5, NatInduct
<1>7. PICK s \in Still : s <= N
  <2>1. N + 1 \in G
      BY <1>3, <1>6
  <2>2. ~(Cardinality(c(N + 1)) + (N + 1) <= N)
      BY <1>3
  <2>3. ~(\A k \in Still : N + 1 <= k)
      BY <2>1, <2>2
  <2> QED
      BY <1>3, <2>3
<1>8. PICK d \in Still : \A k \in Still : d <= k
  <2> Still \in SUBSET Nat /\ Still # {}
      BY <1>7
  <2> HIDE DEF Still
  <2> QED
      BY NatMin
<1>9. d \in 0 .. N
    BY <1>3, <1>7, <1>8
<1>10. ASSUME NEW k \in 1 .. d PROVE c(k) # c(k - 1)
  <2>1. k - 1 \in Nat /\ k - 1 \notin Still /\ (k - 1) + 1 = k
      BY <1>8, <1>9
  <2> QED
      BY <2>1
<1> QED
    BY <1>8, <1>9, <1>10 DEF c

-----------------------------------------------------------------------------
(* The phases.                                                             *)

\* L is the chain of S cut into what each step loses, and what d steps leave.
Cut(L, S, before, d) ==
  /\ d \in Nat
  /\ Chain(S, before, d + 1) = Chain(S, before, d)
  /\ \A k \in 1 .. d : Chain(S, before, k) # Chain(S, before, k - 1)
  /\ L = [n \in 1 .. d |-> Chain(S, before, n - 1) \ Chain(S, before, n)]
             \o (IF Chain(S, before, d) = {} THEN <<>> ELSE <<Chain(S, before, d)>>)

LEMMA LayersAre ==
  ASSUME NEW S, IsFiniteSet(S), NEW before \in SUBSET (S \X S)
  PROVE  \E d \in Nat : Cut(Layers(S, before), S, before, d)
<1> DEFINE c(k) == Chain(S, before, k)
           N == Cardinality(S)
           chain == Chains(S, before)[N]
           D == {n \in 1 .. N : chain[n] # chain[n + 1]}
<1>1. N \in Nat
    BY FS_CardinalityType
<1>2. PICK d \in 0 .. N : /\ c(d + 1) = c(d)
                          /\ \A k \in 1 .. d : c(k) # c(k - 1)
    BY ChainEnds
<1>3. \A n \in 1 .. N + 1 : chain[n] = c(n - 1)
    BY <1>1, ChainsHoldTheChain
<1>4. D = 1 .. d
  <2>1. ASSUME NEW n \in 1 .. N, n <= d PROVE c(n) # c(n - 1)
      BY <1>2, <2>1
  <2>2. ASSUME NEW n \in 1 .. N, n > d PROVE c(n) = c(n - 1)
    <3>1. d \in Nat /\ n \in Nat /\ n - 1 \in Nat /\ d <= n /\ d <= n - 1
        BY <1>1, <1>2, <2>2
    <3>2. c(n) = c(d)
        BY <1>2, <3>1, ChainSettles
    <3>3. c(n - 1) = c(d)
        BY <1>2, <3>1, ChainSettles
    <3> QED
        BY <3>2, <3>3
  <2>3. \A n \in 1 .. N : chain[n] = c(n - 1) /\ chain[n + 1] = c(n)
    <3> TAKE n \in 1 .. N
    <3>1. n \in 1 .. N + 1 /\ n + 1 \in 1 .. N + 1 /\ (n + 1) - 1 = n
        BY <1>1
    <3>2. chain[n] = c(n - 1) /\ chain[n + 1] = c((n + 1) - 1)
        BY <1>3, <3>1
    <3> QED
        BY <3>1, <3>2
  <2> HIDE DEF c, chain
  <2>4. \A n \in 1 .. N : n \in D <=> n <= d
      BY <1>2, <2>1, <2>2, <2>3
  <2> QED
      BY <1>1, <1>2, <2>4
<1>5. Cardinality(D) = d
  <2>1. d \in Int /\ 1 \in Int /\ d - 1 + 1 = d /\ (1 > d => d = 0)
      BY <1>1, <1>2
  <2>2. Cardinality(1 .. d) = IF 1 > d THEN 0 ELSE d - 1 + 1
      BY <2>1, FS_Interval
  <2> HIDE DEF D
  <2> QED
      BY <1>4, <2>1, <2>2
<1>6. chain[d + 1] = c(d) /\ \A n \in 1 .. d : chain[n] = c(n - 1) /\ chain[n + 1] = c(n)
  <2>1. d + 1 \in 1 .. N + 1 /\ (d + 1) - 1 = d
      BY <1>1, <1>2
  <2>2. chain[d + 1] = c((d + 1) - 1)
      BY <1>3, <2>1
  <2>3. ASSUME NEW n \in 1 .. d PROVE chain[n] = c(n - 1) /\ chain[n + 1] = c(n)
    <3>1. n \in 1 .. N + 1 /\ n + 1 \in 1 .. N + 1 /\ (n + 1) - 1 = n
        BY <1>1, <1>2
    <3>2. chain[n] = c(n - 1) /\ chain[n + 1] = c((n + 1) - 1)
        BY <1>3, <3>1
    <3> QED
        BY <3>1, <3>2
  <2> QED
      BY <2>1, <2>2, <2>3
<1>7. Layers(S, before) =
        [n \in 1 .. d |-> chain[n] \ chain[n + 1]]
          \o (IF chain[d + 1] = {} THEN <<>> ELSE <<chain[d + 1]>>)
    BY <1>5 DEF Layers
<1>8. [n \in 1 .. d |-> chain[n] \ chain[n + 1]] = [n \in 1 .. d |-> c(n - 1) \ c(n)]
  <2> HIDE DEF c, chain
  <2> QED
      BY <1>6
<1>9. Layers(S, before) =
        [n \in 1 .. d |-> c(n - 1) \ c(n)] \o (IF c(d) = {} THEN <<>> ELSE <<c(d)>>)
    BY <1>6, <1>7, <1>8
<1>10. d \in Nat /\ Cut(Layers(S, before), S, before, d)
    BY <1>1, <1>2, <1>9 DEF Cut
<1> QED
    BY <1>10

\* Two sequences after each other.
LEMMA Joined ==
  ASSUME NEW T, NEW p \in Seq(T), NEW q \in Seq(T)
  PROVE  /\ p \o q \in Seq(T) /\ Len(p) \in Nat /\ Len(q) \in Nat
         /\ Len(p \o q) = Len(p) + Len(q)
         /\ \A n \in 1 .. Len(p) : (p \o q)[n] = p[n]
         /\ \A n \in 1 .. Len(q) : (p \o q)[n + Len(p)] = q[n]
         /\ Len(q) = 1 => (p \o q)[Len(p) + 1] = q[1]
<1>1. p \o q \in Seq(T) /\ Len(p) \in Nat /\ Len(q) \in Nat /\ Len(p \o q) = Len(p) + Len(q)
    OBVIOUS
<1>2. ASSUME NEW n \in 1 .. Len(p) PROVE (p \o q)[n] = p[n]
    OBVIOUS
<1>3. ASSUME NEW n \in 1 .. Len(q) PROVE (p \o q)[n + Len(p)] = q[n]
    OBVIOUS
<1>4. ASSUME Len(q) = 1 PROVE (p \o q)[Len(p) + 1] = q[1]
  <2> DEFINE r == p \o q
  <2>1. \A n \in 1 .. Len(q) : r[n + Len(p)] = q[n]
      BY <1>3
  <2>2. Len(p) \in Nat
      OBVIOUS
  <2> HIDE DEF r
  <2>3. r[1 + Len(p)] = q[1]
      BY <1>4, <2>1
  <2>4. 1 + Len(p) = Len(p) + 1
      BY <2>2
  <2> QED
      BY <2>3, <2>4 DEF r
<1> QED
    BY <1>1, <1>2, <1>3, <1>4

\* What the entries of a cut are.
Entries(L, S, before, d) ==
  /\ L \in Seq(SUBSET S)
  /\ Len(L) \in {d, d + 1}
  /\ \A n \in 1 .. d : L[n] = Chain(S, before, n - 1) \ Chain(S, before, n)
  /\ Len(L) = d + 1 => L[d + 1] = Chain(S, before, d) /\ Chain(S, before, d) # {}
  /\ Len(L) = d => Chain(S, before, d) = {}

LEMMA CutEntries ==
  ASSUME NEW S, NEW before \in SUBSET (S \X S), NEW d \in Nat, NEW L, Cut(L, S, before, d)
  PROVE  Entries(L, S, before, d)
<1> DEFINE c(k) == Chain(S, before, k)
           P == [n \in 1 .. d |-> c(n - 1) \ c(n)]
           R == IF c(d) = {} THEN <<>> ELSE <<c(d)>>
<1>1. d \in Nat /\ L = P \o R
    BY DEF Cut
<1>2. \A k \in Nat : c(k) \in SUBSET S
    BY ChainShrinks
<1> HIDE DEF c
<1>3. P \in Seq(SUBSET S) /\ Len(P) = d
  <2>1. \A n \in 1 .. d : c(n - 1) \ c(n) \in SUBSET S
      BY <1>1, <1>2
  <2>2. P \in [1 .. d -> SUBSET S]
      BY <2>1
  <2> QED
      BY <1>1, <2>2
<1>4. R \in Seq(SUBSET S) /\ Len(R) \in {0, 1} /\ (Len(R) = 0 <=> c(d) = {})
        /\ (Len(R) = 1 => R[1] = c(d))
  <2>1. CASE c(d) = {}
    <3>1. R = <<>>
        BY <2>1
    <3> HIDE DEF R
    <3> QED
        BY <2>1, <3>1
  <2>2. CASE c(d) # {}
    <3>1. R = <<c(d)>> /\ c(d) \in SUBSET S
        BY <1>1, <1>2, <2>2
    <3> HIDE DEF R
    <3> QED
        BY <2>2, <3>1
  <2> QED
      BY <2>1, <2>2
<1>5. \A n \in 1 .. d : P[n] = c(n - 1) \ c(n)
    OBVIOUS
<1> HIDE DEF P, R
<1>13. R \in Seq(SUBSET S)
    BY <1>4
<1>6. L \in Seq(SUBSET S) /\ Len(L) = d + Len(R)
    BY <1>1, <1>3, <1>13, Joined
<1>7. \A n \in 1 .. d : L[n] = P[n]
    BY <1>1, <1>3, <1>13, Joined
<1>8. Len(R) = 1 => L[d + 1] = R[1]
  <2>1. Len(R) = 1 => (P \o R)[Len(P) + 1] = R[1]
      BY Zenon, <1>3, <1>13, Joined
  <2> QED
      BY Zenon, <1>1, <1>3, <2>1
<1>9. L \in Seq(SUBSET S) /\ Len(L) \in {d, d + 1} /\ d \in Nat
  <2>1. Len(R) \in {0, 1}
      BY <1>4
  <2>2. Len(L) = d + Len(R) /\ L \in Seq(SUBSET S)
      BY <1>6
  <2> QED
      BY <1>1, <2>1, <2>2
<1>10. \A n \in 1 .. d : L[n] = c(n - 1) \ c(n)
    BY <1>5, <1>7
<1>11. Len(L) = d + 1 => L[d + 1] = c(d) /\ c(d) # {}
    BY <1>1, <1>4, <1>6, <1>8
<1>12. Len(L) = d => c(d) = {}
    BY <1>1, <1>4, <1>6
<1> QED
    BY <1>9, <1>10, <1>11, <1>12 DEF c, Entries

\* An element leaves the chain with its phase, unless that is the cycle.
LEMMA InChain ==
  ASSUME NEW S, NEW before \in SUBSET (S \X S), NEW d \in Nat, NEW L, Entries(L, S, before, d),
         NEW n \in 1 .. Len(L), NEW x \in L[n]
  PROVE  /\ x \in Chain(S, before, n - 1)
         /\ n <= d => x \notin Chain(S, before, n)
         /\ n > d => n = Len(L) /\ n = d + 1 /\ L[n] = Chain(S, before, d)
<1>1. /\ Len(L) \in {d, d + 1} /\ d \in Nat
      /\ \A k \in 1 .. d : L[k] = Chain(S, before, k - 1) \ Chain(S, before, k)
      /\ Len(L) = d + 1 => L[d + 1] = Chain(S, before, d)
    BY DEF Entries
<1>2. CASE n <= d
    BY <1>1, <1>2
<1>3. CASE n > d
  <2>1. n = Len(L) /\ n = d + 1 /\ n - 1 = d
      BY <1>1, <1>3
  <2> QED
      BY <1>1, <1>3, <2>1
<1> QED
    BY <1>1, <1>2, <1>3

(* topoSort returns every identifier it was given, in exactly one phase.   *)
THEOREM LayersPartition ==
  ASSUME NEW S, IsFiniteSet(S), NEW before \in SUBSET (S \X S)
  PROVE  /\ Layers(S, before) \in Seq(SUBSET S)
         /\ \A x \in S : \E n \in DOMAIN Layers(S, before) : x \in Layers(S, before)[n]
         /\ \A n \in DOMAIN Layers(S, before) : \A m \in 1 .. n - 1 :
              Layers(S, before)[m] \intersect Layers(S, before)[n] = {}
<1> DEFINE L == Layers(S, before)
           c(k) == Chain(S, before, k)
<1>1. PICK d \in Nat : Cut(L, S, before, d)
    BY LayersAre
<1>2. Entries(L, S, before, d)
    BY <1>1, CutEntries
<1> HIDE DEF L
<1>3. /\ L \in Seq(SUBSET S) /\ Len(L) \in {d, d + 1} /\ d \in Nat
      /\ \A n \in 1 .. d : L[n] = c(n - 1) \ c(n)
      /\ Len(L) = d + 1 => L[d + 1] = c(d)
      /\ Len(L) = d => c(d) = {}
    BY <1>2 DEF Entries
<1>4. ASSUME NEW x \in S PROVE \E n \in DOMAIN L : x \in L[n]
  <2>1. CASE x \in c(d)
    <3>1. Len(L) = d + 1 /\ d + 1 \in DOMAIN L
        BY <1>3, <2>1
    <3> QED
        BY <1>3, <2>1, <3>1
  <2>2. CASE x \notin c(d)
    <3> DEFINE T == {k \in Nat : x \notin c(k)}
    <3>1. T \in SUBSET Nat /\ d \in T
        BY <1>3, <2>2
    <3>2. c(0) = S
        BY ChainSteps
    <3>3. 0 \notin T
        BY <3>2
    <3> HIDE DEF T
    <3>4. PICK m \in T : \A k \in T : m <= k
        BY <3>1, NatMin
    <3>5. m \in 1 .. d /\ m - 1 \in Nat /\ m - 1 \notin T
        BY <1>3, <3>1, <3>3, <3>4
    <3>6. x \in c(m - 1) /\ x \notin c(m)
        BY <3>4, <3>5 DEF T
    <3>7. x \in L[m] /\ m \in DOMAIN L
        BY <1>3, <3>5, <3>6
    <3> QED
        BY <3>7
  <2> QED
      BY <2>1, <2>2
<1>5. ASSUME NEW n \in DOMAIN L, NEW m \in 1 .. n - 1, NEW x \in L[m], x \in L[n]
      PROVE  FALSE
  <2>1. /\ n \in 1 .. Len(L) /\ m \in 1 .. Len(L) /\ m <= d
        /\ m \in Nat /\ n - 1 \in Nat /\ m <= n - 1
      BY <1>3
  <2>2. x \notin c(m)
      BY <1>2, <2>1, InChain
  <2>3. x \in c(n - 1)
      BY <1>2, <1>5, <2>1, InChain
  <2>4. c(n - 1) \subseteq c(m)
      BY <2>1, ChainShrinksFar
  <2> QED
      BY <2>2, <2>3, <2>4
<1> QED
    BY <1>3, <1>4, <1>5 DEF L

(* What must come first does, except within the last phase when that is a  *)
(* cycle: every element of it waits for another one.                       *)
THEOREM LayersKeepOrder ==
  ASSUME NEW S, IsFiniteSet(S), NEW before \in SUBSET (S \X S),
         NEW y, NEW x, <<y, x>> \in before,
         NEW n \in DOMAIN Layers(S, before), x \in Layers(S, before)[n]
  PROVE  \/ \E m \in 1 .. n - 1 : y \in Layers(S, before)[m]
         \/ /\ n = Len(Layers(S, before))
            /\ Blocked(Layers(S, before)[n], before) = Layers(S, before)[n]
<1> DEFINE L == Layers(S, before)
           c(k) == Chain(S, before, k)
<1>1. PICK d \in Nat : Cut(L, S, before, d)
    BY LayersAre
<1>2. Entries(L, S, before, d)
    BY <1>1, CutEntries
<1>3. L \in Seq(SUBSET S) /\ \A z \in S : \E m \in DOMAIN L : z \in L[m]
    BY LayersPartition
<1>4. x \in L[n] /\ n \in DOMAIN L /\ y \in S
    OBVIOUS
<1> HIDE DEF L
<1>5. n \in 1 .. Len(L) /\ n \in Nat /\ d \in Nat /\ c(d + 1) = c(d)
    BY <1>1, <1>3, <1>4 DEF Cut
<1>6. (n <= d => x \notin c(n)) /\ (n > d => n = Len(L) /\ L[n] = c(d))
  <2>1. /\ Len(L) \in {d, d + 1}
        /\ \A k \in 1 .. d : L[k] = c(k - 1) \ c(k)
        /\ Len(L) = d + 1 => L[d + 1] = c(d)
      BY <1>2 DEF Entries
  <2>2. CASE n <= d
    <3>1. L[n] = c(n - 1) \ c(n)
        BY <1>5, <2>1, <2>2
    <3> QED
        BY <1>4, <1>5, <2>2, <3>1
  <2>3. CASE n > d
    <3>1. n = Len(L) /\ n = d + 1
        BY <1>5, <2>1, <2>3
    <3> QED
        BY <1>5, <2>1, <2>3, <3>1
  <2> QED
      BY <1>5, <2>2, <2>3
<1>7. \A P, w : w \in Followers(P, before) <=> \E v \in P : <<v, w>> \in before
    BY FollowersOf
<1>8. \A k \in Nat : c(k + 1) = Followers(c(k), before)
    BY ChainSteps
<1>9. PICK m \in DOMAIN L : y \in L[m]
    BY <1>3, <1>4
<1>10. CASE m < n
    BY <1>3, <1>9, <1>10 DEF L
<1>11. CASE m >= n
  <2>1. m \in 1 .. Len(L) /\ m - 1 \in Nat /\ m \in Nat /\ n <= m
      BY <1>3, <1>5, <1>11
  <2>2. y \in c(m - 1)
      BY <1>9, <1>2, <2>1, InChain
  <2>3. c(m) = Followers(c(m - 1), before)
    <3> HIDE DEF c
    <3>1. (m - 1) + 1 = m
        BY <2>1
    <3>2. c((m - 1) + 1) = Followers(c(m - 1), before)
        BY <1>8, <2>1
    <3> QED
        BY <3>1, <3>2
  <2>4. x \in c(m)
      BY <1>7, <2>2, <2>3
  <2>5. c(m) \subseteq c(n)
      BY <1>5, <2>1, ChainShrinksFar
  <2>7. n = Len(L) /\ L[n] = c(d)
      BY <1>5, <1>6, <2>4, <2>5
  <2>8. c(d) = Followers(c(d), before)
      BY <1>5, <1>8
  <2>9. Blocked(c(d), before) = c(d)
      BY <1>7, <2>8 DEF Blocked
  <2> QED
      BY <2>7, <2>9 DEF L
<1> QED
    BY <1>5, <1>9, <1>3, <1>10, <1>11

\* A graph with numbers has no cycle phase.
LEMMA RankedIsNotBlocked ==
  ASSUME NEW S, NEW before, NEW P \in SUBSET S, P # {},
         NEW rank \in [S -> Nat], \A a, b : <<a, b>> \in before => rank[a] < rank[b]
  PROVE  Blocked(P, before) # P
<1> DEFINE T == {rank[z] : z \in P}
<1>1. T \in SUBSET Nat /\ T # {}
    OBVIOUS
<1>2. PICK z \in P : \A w \in P : rank[z] <= rank[w]
  <2> HIDE DEF T
  <2>1. PICK t \in T : \A u \in T : t <= u
      BY <1>1, NatMin
  <2> QED
      BY <2>1 DEF T
<1>3. ASSUME NEW w \in P, <<w, z>> \in before PROVE FALSE
    BY <1>2, <1>3
<1>4. z \notin Blocked(P, before)
    BY <1>3 DEF Blocked
<1> HIDE DEF T
<1> QED
    BY <1>2, <1>4

(* Without a cycle - when each element can be given a number above those   *)
(* of what it waits for - what must come first is in an earlier phase:     *)
(* "creates are ordered so dependencies come first" (plan.go:6).           *)
THEOREM LayersKeepRank ==
  ASSUME NEW S, IsFiniteSet(S), NEW before \in SUBSET (S \X S),
         NEW rank \in [S -> Nat], \A a, b : <<a, b>> \in before => rank[a] < rank[b],
         NEW y, NEW x, <<y, x>> \in before,
         NEW n \in DOMAIN Layers(S, before), x \in Layers(S, before)[n]
  PROVE  \E m \in 1 .. n - 1 : y \in Layers(S, before)[m]
<1>1. Layers(S, before)[n] \in SUBSET S
  <2>1. Layers(S, before) \in Seq(SUBSET S)
      BY LayersPartition
  <2> QED
      BY <2>1
<1>2. Blocked(Layers(S, before)[n], before) # Layers(S, before)[n]
    BY <1>1, RankedIsNotBlocked
<1> QED
    BY <1>2, LayersKeepOrder

(* No phase is there without need: an element outside the first phase and  *)
(* outside the cycle waits for one of the phase before.                    *)
THEOREM LayersHaveNoGap ==
  ASSUME NEW S, IsFiniteSet(S), NEW before \in SUBSET (S \X S),
         NEW n \in DOMAIN Layers(S, before), n > 1, NEW x \in Layers(S, before)[n]
  PROVE  \/ Blocked(Layers(S, before)[n], before) = Layers(S, before)[n]
         \/ \E y \in Layers(S, before)[n - 1] : <<y, x>> \in before
<1> DEFINE L == Layers(S, before)
           c(k) == Chain(S, before, k)
<1>1. PICK d \in Nat : Cut(L, S, before, d)
    BY LayersAre
<1>2. Entries(L, S, before, d)
    BY <1>1, CutEntries
<1>3. x \in L[n] /\ n \in DOMAIN L
    OBVIOUS
<1>4. \A k \in Nat : c(k + 1) = Followers(c(k), before)
    BY ChainSteps
<1>5. \A P, w : w \in Followers(P, before) <=> \E v \in P : <<v, w>> \in before
    BY FollowersOf
<1>6. c(d + 1) = c(d)
    BY <1>1 DEF Cut
<1> HIDE DEF L
<1>7. /\ Len(L) \in {d, d + 1}
      /\ \A k \in 1 .. d : L[k] = c(k - 1) \ c(k)
      /\ Len(L) = d + 1 => L[d + 1] = c(d)
      /\ n \in 2 .. Len(L)
    BY <1>2, <1>3 DEF Entries
<1>8. CASE n <= d
  <2>1. L[n] = c(n - 1) \ c(n) /\ L[n - 1] = c((n - 1) - 1) \ c(n - 1)
      BY <1>7, <1>8
  <2>2. n - 2 \in Nat /\ (n - 2) + 1 = n - 1 /\ n - 1 \in Nat /\ (n - 1) + 1 = n
          /\ (n - 1) - 1 = n - 2
      BY <1>7
  <2> HIDE DEF c
  <2>3. c(n - 1) = Followers(c(n - 2), before)
      BY <1>4, <2>2
  <2>4. c(n) = Followers(c(n - 1), before)
      BY <1>4, <2>2
  <2>5. x \in c(n - 1) /\ x \notin c(n)
      BY <1>3, <2>1
  <2>6. PICK y \in c(n - 2) : <<y, x>> \in before
      BY <1>5, <2>3, <2>5
  <2>7. y \notin c(n - 1)
      BY <1>5, <2>4, <2>5, <2>6
  <2> QED
      BY <2>1, <2>2, <2>6, <2>7 DEF L
<1>9. CASE n > d
  <2>1. L[n] = c(d)
      BY <1>7, <1>9
  <2>2. c(d) = Followers(c(d), before)
      BY <1>4, <1>6
  <2>3. Blocked(c(d), before) = c(d)
    <3>1. \A w \in c(d) : \E v \in c(d) : <<v, w>> \in before
        BY <1>5, <2>2
    <3> QED
        BY <3>1 DEF Blocked
  <2> QED
      BY <2>1, <2>3 DEF L
<1>10. n \in Nat
    BY <1>7
<1> QED
    BY <1>8, <1>9, <1>10

LEMMA LayersOfNothing ==
  ASSUME NEW before, before = {} PROVE Layers({}, before) = <<>>
<1> DEFINE L == Layers({}, before)
<1>1. before \in SUBSET ({} \X {}) /\ IsFiniteSet({})
    BY FS_EmptySet
<1>2. L \in Seq(SUBSET {}) /\ \A n \in DOMAIN L : \A m \in 1 .. n - 1 : L[m] \intersect L[n] = {}
    BY <1>1, LayersPartition
<1>3. PICK d \in Nat : Cut(L, {}, before, d)
    BY <1>1, LayersAre
<1>4. \A k \in Nat : Chain({}, before, k) = {}
    BY <1>1, ChainShrinks
<1>5. d = 0
  <2>1. \A k \in 1 .. d : Chain({}, before, k) # Chain({}, before, k - 1)
      BY <1>3 DEF Cut
  <2>2. d > 0 => 1 \in 1 .. d /\ 1 - 1 = 0
      OBVIOUS
  <2>3. Chain({}, before, 1) = {} /\ Chain({}, before, 0) = {}
      BY <1>4
  <2> QED
      BY <2>1, <2>2, <2>3
<1>6. Entries(L, {}, before, d)
    BY <1>1, <1>3, CutEntries
<1>7. Len(L) = 0
    BY <1>4, <1>5, <1>6 DEF Entries
<1> HIDE DEF L
<1>8. L = <<>>
    BY <1>2, <1>7
<1> QED
    BY <1>8 DEF L

\* There is one cut.
LEMMA OneCut ==
  ASSUME NEW S, NEW before \in SUBSET (S \X S), NEW L, NEW M,
         NEW d \in Nat, Cut(L, S, before, d), NEW e \in Nat, Cut(M, S, before, e)
  PROVE  L = M
<1> DEFINE c(k) == Chain(S, before, k)
<1>1. ASSUME NEW i \in Nat, NEW j \in Nat, i < j, c(i + 1) = c(i)
      PROVE  ~(\A k \in 1 .. j : c(k) # c(k - 1))
  <2>1. i + 1 \in 1 .. j /\ (i + 1) - 1 = i
      BY <1>1
  <2> HIDE DEF c
  <2> QED
      BY <1>1, <2>1
<1>2. d = e
  <2>1. c(d + 1) = c(d) /\ c(e + 1) = c(e)
      BY DEF Cut
  <2>2. (\A k \in 1 .. d : c(k) # c(k - 1)) /\ (\A k \in 1 .. e : c(k) # c(k - 1))
      BY DEF Cut
  <2> HIDE DEF c
  <2>3. ~(d < e) /\ ~(e < d)
      BY <1>1, <2>1, <2>2
  <2> QED
      BY <2>3
<1> QED
    BY <1>2 DEF Cut

=============================================================================
