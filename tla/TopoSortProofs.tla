---------------------------- MODULE TopoSortProofs ----------------------------
(***************************************************************************)
(* topoSort is right for every finite set of events, every assignment of   *)
(* identifiers and every dependency graph, cyclic ones included.           *)
(*                                                                         *)
(* What makes the properties inductive is the meaning of the counters: the *)
(* in-degree of an id is the number of edges that lead to it from an id    *)
(* not emitted yet (Counters).  So a counter of zero says that everything  *)
(* the id waits for is in a phase, and a counter above zero that something *)
(* is not.                                                                 *)
(***************************************************************************)
EXTENDS TopoSort, LayeringProofs

\* The edges to i from what is left.
Pending(i) == Released(i, Remaining)

Counters == \A i \in Remaining : inDegree[i] = Cardinality(Pending(i))

\* What waits for something that is left is left itself, so that no counter
\* comes back after its id has been emitted.
EmittedStaysOut == \A e \in Edge : First(e) \in Remaining => Second(e) \in Remaining

\* An id that is ready waits for nothing that is left, but for an id of the
\* last phase, if there is one.
JustReleased ==
  \A i \in Ready : phases # <<>> => \E j \in phases[Len(phases)] : <<j, i>> \in Before

IInv == TypeOK /\ Counters /\ EmittedStaysOut /\ EmittedOnce

-----------------------------------------------------------------------------
(* The edges.                                                              *)

LEMMA EdgesAreFinite == IsFiniteSet(InSet) /\ IsFiniteSet(Edge)
<1>1. IsFiniteSet(InSet)
  <2> DEFINE f == [k \in Key |-> IdOf[k]]
  <2>1. f \in Surjection(Key, InSet)
      BY DEF InSet, Surjection
  <2> QED
      BY <2>1, InputAssumption, FS_Surjection
<1>2. IsFiniteSet(Key \X InSet)
    BY <1>1, InputAssumption, FS_Product
<1>3. Edge \in SUBSET (Key \X InSet)
    BY DEF Edge
<1> QED
    BY <1>1, <1>2, <1>3, FS_Subset

LEMMA EndsOfEdges == \A e \in Edge : First(e) \in InSet /\ Second(e) \in InSet
BY DEF Edge, First, Second, InSet

LEMMA PendingIsFinite ==
  ASSUME NEW i PROVE IsFiniteSet(Pending(i)) /\ Cardinality(Pending(i)) \in Nat
<1>1. Pending(i) \in SUBSET Edge
    BY DEF Pending, Released
<1>2. IsFiniteSet(Pending(i))
    BY <1>1, EdgesAreFinite, FS_Subset
<1> QED
    BY <1>2, FS_CardinalityType

\* A ready id waits for nothing that is left, any other one for something.
LEMMA ReadyMeansReleased ==
  ASSUME Counters, NEW i \in Remaining
  PROVE  i \in Ready <=> \A e \in Edge : Second(e) = i => First(e) \notin Remaining
<1>1. i \in Ready <=> Cardinality(Pending(i)) = 0
    BY DEF Ready, Counters
<1>2. Cardinality(Pending(i)) = 0 <=> Pending(i) = {}
    BY PendingIsFinite, FS_EmptySet
<1>3. Pending(i) = {} <=> \A e \in Edge : Second(e) = i => First(e) \notin Remaining
    BY DEF Pending, Released
<1> QED
    BY <1>1, <1>2, <1>3

\* The input of the call does not change.
LEMMA EdgesStay ==
  ASSUME [Next]_vars
  PROVE  /\ UNCHANGED <<deps, reverse, Edge, Before>>
         /\ \A e \in Edge : First(e)' = First(e) /\ Second(e)' = Second(e)
<1>1. UNCHANGED <<deps, reverse>>
    BY DEF Next, EmitReady, EmitCycle, vars
<1> QED
    BY <1>1 DEF Edge, Before, First, Second, InSet

-----------------------------------------------------------------------------

LEMMA InitIInv == Init => IInv
<1> SUFFICES ASSUME Init PROVE IInv
    OBVIOUS
<1>1. /\ deps \in [Key -> SUBSET Id] /\ reverse \in BOOLEAN /\ phases = <<>>
      /\ Remaining = InSet
    BY InputAssumption DEF Init, Remaining
<1>2. ASSUME NEW i \in InSet
      PROVE  inDegree[i] = Cardinality(Pending(i)) /\ inDegree[i] \in Nat
  <2>1. inDegree[i] = Cardinality({e \in Edge : Second(e) = i})
      BY DEF Init
  <2>2. {e \in Edge : Second(e) = i} = Pending(i)
      BY <1>1, EndsOfEdges DEF Pending, Released
  <2> QED
      BY <2>1, <2>2, PendingIsFinite
<1>3. inDegree \in [Remaining -> Nat]
  <2>1. inDegree = [i \in InSet |-> Cardinality({e \in Edge : Second(e) = i})]
      BY DEF Init
  <2> QED
      BY <1>1, <1>2, <2>1
<1>4. TypeOK
    BY <1>1, <1>3 DEF TypeOK
<1>5. Counters
    BY <1>1, <1>2 DEF Counters
<1>6. EmittedOnce
    BY <1>1 DEF EmittedOnce
<1>7. EmittedStaysOut
    BY <1>1, EndsOfEdges DEF EmittedStaysOut
<1> QED
    BY <1>4, <1>5, <1>6, <1>7 DEF IInv

\* An iteration that finds ready ids lowers each counter by the edges cut.
LEMMA EmitReadyCounts ==
  ASSUME IInv, EmitReady
  PROVE  /\ Remaining' = Remaining \ Ready
         /\ \A i \in Remaining' :
              inDegree'[i] = Cardinality(Pending(i)') /\ inDegree'[i] \in Nat
<1>0. Lowered \subseteq Remaining \ Ready
  <2> SUFFICES ASSUME NEW e \in Edge, First(e) \in Ready
               PROVE  Second(e) \in Remaining \ Ready
      BY DEF Lowered
  <2>1. First(e) \in Remaining /\ Second(e) \in Remaining
      BY DEF Ready, IInv, EmittedStaysOut
  <2> QED
      BY <2>1, ReadyMeansReleased DEF IInv
<1>1. Remaining' = Remaining \ Ready
    BY <1>0 DEF EmitReady, Remaining
<1>2. ASSUME NEW i \in Remaining \ Ready
      PROVE  inDegree'[i] = Cardinality(Pending(i)') /\ inDegree'[i] \in Nat
  <2>1. Pending(i)' = Pending(i) \ Released(i, Ready)
    <3>1. Pending(i)' = {e \in Edge : Second(e) = i /\ First(e) \in Remaining'}
        BY EdgesStay DEF Next, Pending, Released
    <3> QED
        BY <1>1, <3>1 DEF Pending, Released
  <2>2. Pending(i) \intersect Released(i, Ready) = Released(i, Ready)
      BY DEF Pending, Released, Ready
  <2>3. /\ IsFiniteSet(Pending(i)')
        /\ Cardinality(Pending(i)') = Cardinality(Pending(i)) - Cardinality(Released(i, Ready))
      BY <2>1, <2>2, PendingIsFinite, FS_Difference
  <2>4. inDegree'[i] = inDegree[i] - Cardinality(Released(i, Ready))
      BY DEF EmitReady, Counter
  <2>5. inDegree[i] = Cardinality(Pending(i))
      BY DEF IInv, Counters
  <2>6. Cardinality(Pending(i)') \in Nat
      BY <2>3, FS_CardinalityType
  <2> QED
      BY <2>3, <2>4, <2>5, <2>6
<1> QED
    BY <1>1, <1>2

\* What one more phase, taken from what is left, does to EmittedOnce.
LEMMA OneMorePhase ==
  ASSUME TypeOK, EmittedOnce, NEW P \in SUBSET Remaining,
         phases' = Append(phases, P), Remaining' = Remaining \ P
  PROVE  EmittedOnce' /\ phases' \in Seq(SUBSET InSet)
<1>1. /\ phases \in Seq(SUBSET InSet) /\ P \in SUBSET InSet
      /\ Len(phases) \in Nat /\ DOMAIN phases = 1 .. Len(phases)
    BY DEF TypeOK
<1>2. /\ phases' \in Seq(SUBSET InSet) /\ DOMAIN phases' = 1 .. Len(phases) + 1
      /\ phases'[Len(phases) + 1] = P
      /\ \A n \in 1 .. Len(phases) : phases'[n] = phases[n]
    BY <1>1
<1>3. UNION {phases'[n] : n \in DOMAIN phases'}
        = (UNION {phases[n] : n \in DOMAIN phases}) \union P
  <2>1. 1 .. Len(phases) + 1 = (1 .. Len(phases)) \union {Len(phases) + 1}
      BY <1>1
  <2> QED
      BY <1>1, <1>2, <2>1
<1>4. InSet' = InSet
    BY DEF InSet
<1>5. Remaining' \union UNION {phases'[n] : n \in DOMAIN phases'} = InSet
    BY <1>3 DEF EmittedOnce
<1>6. ASSUME NEW n \in DOMAIN phases'
      PROVE  /\ phases'[n] \intersect Remaining' = {}
             /\ \A m \in 1 .. n - 1 : phases'[n] \intersect phases'[m] = {}
  <2>1. CASE n = Len(phases) + 1
      BY <1>1, <1>2, <2>1 DEF EmittedOnce
  <2>2. CASE n # Len(phases) + 1
    <3>1. n \in 1 .. Len(phases) /\ \A m \in 1 .. n - 1 : m \in 1 .. Len(phases)
        BY <1>1, <1>2, <2>2
    <3> QED
        BY <1>1, <1>2, <3>1 DEF EmittedOnce
  <2> QED
      BY <2>1, <2>2
<1> QED
    BY <1>2, <1>4, <1>5, <1>6 DEF EmittedOnce

LEMMA StepIInv == IInv /\ [Next]_vars => IInv'
<1> SUFFICES ASSUME IInv, [Next]_vars PROVE IInv'
    OBVIOUS
<1>0. UNCHANGED <<deps, reverse>> /\ InSet' = InSet
    BY EdgesStay DEF InSet
<1>1. CASE EmitReady
  <2>1. /\ Remaining' = Remaining \ Ready
        /\ \A i \in Remaining' :
             inDegree'[i] = Cardinality(Pending(i)') /\ inDegree'[i] \in Nat
      BY <1>1, EmitReadyCounts
  <2>2. Ready \in SUBSET Remaining /\ phases' = Append(phases, Ready)
      BY <1>1 DEF EmitReady, Ready
  <2>3. EmittedOnce' /\ phases' \in Seq(SUBSET InSet)
      BY <2>1, <2>2, OneMorePhase DEF IInv
  <2>4. inDegree' \in [Remaining' -> Nat]
    <3>1. inDegree' = [i \in Remaining' |-> inDegree'[i]]
        BY <1>1 DEF EmitReady, Remaining
    <3> QED
        BY <2>1, <3>1
  <2>5. TypeOK'
      BY <1>0, <2>1, <2>3, <2>4 DEF IInv, TypeOK
  <2>6. EmittedStaysOut'
    <3> SUFFICES ASSUME NEW e \in Edge, First(e) \in Remaining \ Ready
                 PROVE  Second(e) \in Remaining \ Ready
        BY <2>1, EdgesStay DEF EmittedStaysOut
    <3>1. Second(e) \in Remaining
        BY DEF IInv, EmittedStaysOut
    <3> QED
        BY <3>1, ReadyMeansReleased DEF IInv
  <2> QED
      BY <2>1, <2>3, <2>5, <2>6 DEF IInv, Counters
<1>2. CASE EmitCycle
  <2>1. Remaining' = {} /\ inDegree' \in [{} -> Nat] /\ phases' = Append(phases, Remaining)
      BY <1>2 DEF EmitCycle, Remaining
  <2>2. EmittedOnce' /\ phases' \in Seq(SUBSET InSet)
      BY <2>1, OneMorePhase DEF IInv
  <2>3. TypeOK'
      BY <1>0, <2>1, <2>2 DEF IInv, TypeOK
  <2>4. EmittedStaysOut'
      BY <2>1, EdgesStay DEF EmittedStaysOut
  <2> QED
      BY <2>1, <2>2, <2>3, <2>4 DEF IInv, Counters
<1>3. CASE UNCHANGED vars
  <2>1. Remaining' = Remaining /\ UNCHANGED <<inDegree, phases>>
      BY <1>3 DEF vars, Remaining
  <2>2. \A i : Pending(i)' = Pending(i)
      BY <1>0, <2>1 DEF Pending, Released, Edge, First, Second, InSet
  <2>3. EmittedStaysOut'
      BY <2>1, EdgesStay DEF EmittedStaysOut, IInv
  <2> QED
      BY <1>0, <2>1, <2>2, <2>3 DEF IInv, TypeOK, Counters, EmittedOnce
<1> QED
    BY <1>1, <1>2, <1>3 DEF Next

LEMMA IInvAlways == Spec => []IInv
BY InitIInv, StepIInv, PTL DEF Spec

-----------------------------------------------------------------------------

\* phases' is phases and one phase more.
LEMMA Appended ==
  ASSUME TypeOK, NEW P, phases' = Append(phases, P)
  PROVE  /\ Len(phases) \in Nat /\ DOMAIN phases = 1 .. Len(phases)
         /\ Len(phases') = Len(phases) + 1
         /\ DOMAIN phases' = 1 .. Len(phases) + 1
         /\ phases'[Len(phases) + 1] = P
         /\ \A n \in 1 .. Len(phases) : phases'[n] = phases[n]
BY DEF TypeOK

\* An id that is not left is in some phase.
LEMMA EmittedIsInAPhase ==
  ASSUME TypeOK, EmittedOnce, NEW i \in InSet \ Remaining
  PROVE  \E m \in 1 .. Len(phases) : i \in phases[m]
BY DEF TypeOK, EmittedOnce

\* The cycle branch emits only what waits for something it emits as well.
LEMMA CycleIsBlocked ==
  ASSUME Counters, Ready = {} PROVE Blocked(Remaining, Before) = Remaining
<1> SUFFICES ASSUME NEW i \in Remaining PROVE \E j \in Remaining : <<j, i>> \in Before
    BY DEF Blocked
<1>1. PICK e \in Edge : Second(e) = i /\ First(e) \in Remaining
    BY ReadyMeansReleased
<1> QED
    BY <1>1 DEF Before

LEMMA StepOnlyCycles ==
  IInv /\ OnlyCyclesShareAPhase /\ [Next]_vars => OnlyCyclesShareAPhase'
<1> SUFFICES ASSUME IInv, OnlyCyclesShareAPhase, [Next]_vars
             PROVE  OnlyCyclesShareAPhase'
    OBVIOUS
<1>1. /\ Edge' = Edge /\ Before' = Before
      /\ \A e \in Edge : First(e)' = First(e) /\ Second(e)' = Second(e)
    BY EdgesStay
<1>4. OnlyCyclesShareAPhase' <=>
        \A e \in Edge, n \in DOMAIN phases' :
          Second(e) \in phases'[n] =>
            \/ \E m \in 1 .. n - 1 : First(e) \in phases'[m]
            \/ /\ n = Len(phases') /\ Finished'
               /\ Blocked(phases'[n], Before) = phases'[n]
    BY <1>1 DEF OnlyCyclesShareAPhase
<1>2. CASE UNCHANGED vars
  <2>1. phases' = phases /\ Finished' = Finished
      BY <1>2 DEF vars, Remaining, Finished
  <2> QED
      BY <1>4, <2>1 DEF OnlyCyclesShareAPhase
<1>3. CASE EmitReady \/ EmitCycle
  <2> DEFINE P == IF Ready # {} THEN Ready ELSE Remaining
             N == Len(phases) + 1
  <2>1. phases' = Append(phases, P) /\ Remaining # {}
      BY <1>3 DEF EmitReady, EmitCycle, Ready
  <2>2. /\ Len(phases) \in Nat /\ DOMAIN phases = 1 .. Len(phases)
        /\ Len(phases') = N /\ DOMAIN phases' = 1 .. N /\ phases'[N] = P
        /\ \A n \in 1 .. Len(phases) : phases'[n] = phases[n]
      BY <2>1, Appended DEF IInv
  <2> SUFFICES ASSUME NEW e \in Edge, NEW n \in 1 .. N, Second(e) \in phases'[n]
               PROVE  \/ \E m \in 1 .. n - 1 : First(e) \in phases'[m]
                      \/ n = N /\ Finished' /\ Blocked(phases'[n], Before) = phases'[n]
      BY <1>4, <2>2
  <2>3. CASE n # N
    <3>1. n \in 1 .. Len(phases) /\ \A m \in 1 .. n - 1 : m \in 1 .. Len(phases)
        BY <2>2, <2>3
    <3>2. \E m \in 1 .. n - 1 : First(e) \in phases[m]
        BY <2>1, <2>2, <3>1 DEF OnlyCyclesShareAPhase, Finished
    <3> QED
        BY <2>2, <3>1, <3>2
  <2>4. CASE n = N /\ Ready # {}
    <3>1. Second(e) \in Ready /\ Second(e) \in Remaining
        BY <2>2, <2>4 DEF Ready
    <3>2. First(e) \in InSet \ Remaining
        BY <3>1, ReadyMeansReleased, EndsOfEdges DEF IInv
    <3>3. PICK m \in 1 .. Len(phases) : First(e) \in phases[m]
        BY <3>2, EmittedIsInAPhase DEF IInv
    <3> QED
        BY <2>2, <2>4, <3>3
  <2>5. CASE n = N /\ Ready = {}
    <3>1. Remaining' = {}
        BY <1>3, <2>5 DEF EmitReady, EmitCycle, Remaining
    <3>2. Blocked(Remaining, Before) = Remaining
        BY <2>5, CycleIsBlocked DEF IInv
    <3> QED
        BY <2>2, <2>5, <3>1, <3>2 DEF Finished
  <2> QED
      BY <2>3, <2>4, <2>5
<1> QED
    BY <1>2, <1>3 DEF Next

-----------------------------------------------------------------------------

(* The counters and the phases keep their types: in particular no counter  *)
(* goes below zero, although two edges of one id may be cut at once.       *)
THEOREM TopoSortTypeOK == Spec => []TypeOK
BY IInvAlways, PTL DEF IInv

(* topoSort neither loses nor repeats an identifier, on any graph.         *)
THEOREM TopoSortEmittedOnce == Spec => []EmittedOnce
BY IInvAlways, PTL DEF IInv

(* On any graph, the order is given up only where a cycle leaves no other  *)
(* choice (plan.go:105-113).                                               *)
THEOREM TopoSortOnlyCycles == Spec => []OnlyCyclesShareAPhase
<1>1. Init => OnlyCyclesShareAPhase
    BY DEF Init, OnlyCyclesShareAPhase
<1> QED
    BY <1>1, IInvAlways, StepOnlyCycles, PTL DEF Spec

(* On a graph without cycles, "dependencies come first" (plan.go:6-7),     *)
(* in both directions.                                                     *)
THEOREM TopoSortOrder == Spec => []OrderRespected
<1>1. TypeOK /\ OnlyCyclesShareAPhase => OrderRespected
  <2> SUFFICES ASSUME TypeOK, OnlyCyclesShareAPhase, Acyclic,
                      NEW e \in Edge, NEW n \in DOMAIN phases, Second(e) \in phases[n],
                      Blocked(phases[n], Before) = phases[n]
               PROVE  FALSE
      BY DEF OnlyCyclesShareAPhase, OrderRespected
  <2>1. phases[n] \in SUBSET InSet /\ phases[n] # {}
      BY DEF TypeOK
  <2>2. PICK i \in phases[n] : \A j \in phases[n] : <<j, i>> \notin Before
      BY <2>1 DEF Acyclic
  <2>3. i \in Blocked(phases[n], Before)
      BY <2>2
  <2>4. PICK j \in phases[n] : <<j, i>> \in Before
      BY <2>3 DEF Blocked
  <2> QED
      BY <2>2, <2>4
<1> QED
    BY <1>1, TopoSortTypeOK, TopoSortOnlyCycles, PTL

-----------------------------------------------------------------------------

LEMMA StepJustReleased == IInv /\ JustReleased /\ [Next]_vars => JustReleased'
<1> SUFFICES ASSUME IInv, JustReleased, [Next]_vars, NEW i \in Ready', phases' # <<>>
             PROVE  \E j \in phases'[Len(phases')] : <<j, i>> \in Before'
    BY DEF JustReleased
<1>1. CASE EmitReady
  <2>1. Remaining' = Remaining \ Ready /\ i \in Remaining'
      BY <1>1, EmitReadyCounts DEF Ready
  <2>2. PICK e \in Edge : Second(e) = i /\ First(e) \in Remaining
      BY <2>1, ReadyMeansReleased DEF IInv
  <2>3. First(e) \notin Remaining'
    <3>1. Pending(i)' = {f \in Edge : Second(f) = i /\ First(f) \in Remaining'}
        BY EdgesStay DEF Pending, Released
    <3>2. Cardinality(Pending(i)') = 0
        BY <1>1, <2>1, EmitReadyCounts DEF Ready
    <3>3. IsFiniteSet(Pending(i)')
        BY <3>1, EdgesAreFinite, FS_Subset
    <3>4. Pending(i)' = {}
        BY <3>2, <3>3, FS_EmptySet
    <3> QED
        BY <2>2, <3>1, <3>4
  <2>4. First(e) \in Ready /\ <<First(e), i>> \in Before'
      BY <2>1, <2>2, <2>3, EdgesStay DEF Before
  <2>5. phases'[Len(phases')] = Ready
      BY <1>1, Appended DEF EmitReady, IInv
  <2> QED
      BY <2>4, <2>5
<1>2. CASE EmitCycle
    BY <1>2 DEF EmitCycle, Ready, Remaining
<1>3. CASE UNCHANGED vars
  <2>1. Ready' = Ready /\ phases' = phases
      BY <1>3 DEF vars, Ready, Remaining
  <2> QED
      BY <2>1, EdgesStay DEF JustReleased
<1> QED
    BY <1>1, <1>2, <1>3 DEF Next

LEMMA StepNoNeedlessBarrier ==
  IInv /\ JustReleased /\ NoNeedlessBarrier /\ [Next]_vars => NoNeedlessBarrier'
<1> SUFFICES ASSUME IInv, JustReleased, NoNeedlessBarrier, [Next]_vars
             PROVE  NoNeedlessBarrier'
    OBVIOUS
<1>1. Before' = Before
    BY EdgesStay
<1>2. CASE UNCHANGED vars
    BY <1>1, <1>2 DEF vars, NoNeedlessBarrier
<1>3. CASE EmitReady \/ EmitCycle
  <2> DEFINE P == IF Ready # {} THEN Ready ELSE Remaining
             N == Len(phases) + 1
  <2>1. phases' = Append(phases, P)
      BY <1>3 DEF EmitReady, EmitCycle
  <2>2. /\ Len(phases) \in Nat /\ Len(phases') = N /\ phases'[N] = P
        /\ \A n \in 1 .. Len(phases) : phases'[n] = phases[n]
      BY <2>1, Appended DEF IInv
  <2> SUFFICES ASSUME NEW n \in 2 .. N, NEW i \in phases'[n]
               PROVE  \/ Blocked(phases'[n], Before) = phases'[n]
                      \/ \E j \in phases'[n - 1] : <<j, i>> \in Before
      BY <1>1, <2>2 DEF NoNeedlessBarrier
  <2>3. CASE n # N
    <3>1. n \in 2 .. Len(phases) /\ {n - 1, n} \subseteq 1 .. Len(phases)
        BY <2>2, <2>3
    <3> QED
        BY <2>2, <3>1 DEF NoNeedlessBarrier
  <2>4. CASE n = N /\ Ready # {}
    <3>1. i \in Ready /\ n - 1 = Len(phases) /\ Len(phases) \in 1 .. Len(phases)
        BY <2>2, <2>4
    <3>2. phases # <<>>
        BY <3>1
    <3>3. \E j \in phases[Len(phases)] : <<j, i>> \in Before
        BY <3>1, <3>2 DEF JustReleased
    <3> QED
        BY <2>2, <3>1, <3>3
  <2>5. CASE n = N /\ Ready = {}
      BY <2>2, <2>5, CycleIsBlocked DEF IInv
  <2> QED
      BY <2>3, <2>4, <2>5
<1> QED
    BY <1>2, <1>3 DEF Next

(* No event is put in a later phase than the graph asks for: it waits for  *)
(* one of the phase just before its own, or is part of a cycle phase.      *)
THEOREM TopoSortNoNeedlessBarrier == Spec => []NoNeedlessBarrier
<1>1. Init => JustReleased /\ NoNeedlessBarrier
    BY DEF Init, JustReleased, NoNeedlessBarrier
<1> QED
    BY <1>1, IInvAlways, StepJustReleased, StepNoNeedlessBarrier, PTL DEF Spec

-----------------------------------------------------------------------------
(* The counters compute the layering.                                      *)

\* What is left is what as many pairs in a row as there are phases lead to;
\* once nothing is left the phases are the layering, cycle and all.
ChainSoFar ==
  /\ Remaining = Chain(InSet, Before, Len(phases))
  /\ phases = [n \in 1 .. Len(phases) |->
                 Chain(InSet, Before, n - 1) \ Chain(InSet, Before, n)]
  /\ \A n \in 1 .. Len(phases) :
       Chain(InSet, Before, n) # Chain(InSet, Before, n - 1)

Layered ==
  \/ ChainSoFar
  \/ Finished /\ \E d \in Nat : Cut(phases, InSet, Before, d)

LEMMA BeforeIsOfIds == Before \in SUBSET (InSet \X InSet)
BY EndsOfEdges DEF Before

\* What what is left leads to is what is left and not ready.
LEMMA RemainingLeadsTo ==
  ASSUME IInv PROVE Followers(Remaining, Before) = Remaining \ Ready
<1>1. \A i : i \in Followers(Remaining, Before) <=> \E j \in Remaining : <<j, i>> \in Before
    BY BeforeIsOfIds, FollowersOf
<1>2. \A i, j : <<j, i>> \in Before <=> \E e \in Edge : First(e) = j /\ Second(e) = i
    BY DEF Before
<1>3. \A e \in Edge : First(e) \in Remaining => Second(e) \in Remaining
    BY DEF IInv, EmittedStaysOut
<1>4. \A i \in Remaining :
        i \in Ready <=> \A e \in Edge : Second(e) = i => First(e) \notin Remaining
    BY ReadyMeansReleased DEF IInv
<1>5. \A i : i \in Followers(Remaining, Before) <=>
               \E e \in Edge : First(e) \in Remaining /\ Second(e) = i
  <2> TAKE i
  <2>1. ASSUME i \in Followers(Remaining, Before)
        PROVE  \E e \in Edge : First(e) \in Remaining /\ Second(e) = i
    <3>1. PICK j \in Remaining : <<j, i>> \in Before
        BY <1>1, <2>1
    <3> QED
        BY <1>2, <3>1
  <2>2. ASSUME NEW e \in Edge, First(e) \in Remaining, Second(e) = i
        PROVE  i \in Followers(Remaining, Before)
    <3>1. <<First(e), i>> \in Before
        BY <1>2, <2>2
    <3> QED
        BY <1>1, <2>2, <3>1
  <2> QED
      BY <2>1, <2>2
<1>6. ASSUME NEW i PROVE i \in Followers(Remaining, Before) <=> i \in Remaining /\ i \notin Ready
  <2>1. CASE i \in Remaining
      BY <1>4, <1>5, <2>1
  <2>2. CASE i \notin Remaining
      BY <1>3, <1>5, <2>2
  <2> QED
      BY <2>1, <2>2
<1> HIDE DEF Remaining
<1> QED
    BY <1>6

LEMMA InitLayered == Init => Layered
<1> SUFFICES ASSUME Init PROVE Layered
    OBVIOUS
<1>1. Remaining = InSet /\ phases = <<>> /\ Len(phases) = 0
    BY DEF Init, Remaining
<1>2. Chain(InSet, Before, 0) = InSet
    BY BeforeIsOfIds, ChainSteps
<1>3. phases = [n \in 1 .. 0 |-> Chain(InSet, Before, n - 1) \ Chain(InSet, Before, n)]
    BY <1>1
<1>4. \A n \in 1 .. Len(phases) : FALSE
    BY <1>1
<1> QED
    BY <1>1, <1>2, <1>3, <1>4 DEF Layered, ChainSoFar

\* An iteration that finds ready ids is one more step of the chain.
LEMMA EmitReadyIsAStep ==
  ASSUME IInv, ChainSoFar, EmitReady PROVE ChainSoFar'
<1> DEFINE c(k) == Chain(InSet, Before, k)
           d == Len(phases)
<1>1. Before' = Before /\ InSet' = InSet
    BY EdgesStay DEF Next, InSet
<1>2. d \in Nat /\ phases \in Seq(SUBSET InSet)
    BY DEF IInv, TypeOK
<1>3. Remaining = c(d) /\ phases = [n \in 1 .. d |-> c(n - 1) \ c(n)]
        /\ \A n \in 1 .. d : c(n) # c(n - 1)
    BY DEF ChainSoFar
<1>4. Remaining' = Remaining \ Ready /\ Ready # {} /\ Ready \subseteq Remaining
        /\ phases' = Append(phases, Ready)
    BY EmitReadyCounts DEF EmitReady, Ready
<1>5. c(d + 1) = Remaining \ Ready
  <2>1. c(d + 1) = Followers(c(d), Before)
      BY <1>2, BeforeIsOfIds, ChainSteps
  <2> QED
      BY <1>3, <2>1, RemainingLeadsTo
<1>6. Ready = c((d + 1) - 1) \ c(d + 1) /\ c((d + 1) - 1) # c(d + 1)
  <2>1. (d + 1) - 1 = d
      BY <1>2
  <2>2. Ready = c(d) \ c(d + 1) /\ c(d) # c(d + 1)
    <3> HIDE DEF c
    <3> QED
        BY <1>3, <1>4, <1>5
  <2> QED
      BY <2>1, <2>2
<1> HIDE DEF c
<1>7. Len(phases') = d + 1 /\ phases' \in Seq(SUBSET InSet)
  <2>1. Ready \in SUBSET InSet
      BY <1>4 DEF IInv, TypeOK
  <2> QED
      BY <1>2, <1>4, <2>1
<1>8. phases' = [n \in 1 .. d + 1 |-> c(n - 1) \ c(n)]
  <2>1. ASSUME NEW n \in 1 .. d + 1 PROVE phases'[n] = c(n - 1) \ c(n)
    <3>1. CASE n = d + 1
        BY <1>2, <1>4, <1>6, <3>1
    <3>2. CASE n # d + 1
      <4>1. n \in 1 .. d
          BY <1>2, <3>2
      <4> QED
          BY <1>2, <1>3, <1>4, <4>1
    <3> QED
        BY <3>1, <3>2
  <2> QED
      BY <1>2, <1>7, <2>1
<1>9. \A n \in 1 .. d + 1 : c(n) # c(n - 1)
  <2> TAKE n \in 1 .. d + 1
  <2>1. n \in 1 .. d \/ n = d + 1
      BY <1>2
  <2> QED
      BY <1>3, <1>6, <2>1
<1> QED
    BY <1>1, <1>4, <1>5, <1>7, <1>8, <1>9 DEF ChainSoFar, c

\* The cycle branch is taken where the chain stands still.
LEMMA EmitCycleEndsIt ==
  ASSUME IInv, ChainSoFar, EmitCycle PROVE Finished' /\ \E d \in Nat : Cut(phases, InSet, Before, d)'
<1> DEFINE c(k) == Chain(InSet, Before, k)
           d == Len(phases)
<1>1. Before' = Before /\ InSet' = InSet
    BY EdgesStay DEF Next, InSet
<1>2. d \in Nat /\ phases' = Append(phases, Remaining) /\ Remaining # {} /\ Ready = {}
    BY DEF IInv, TypeOK, EmitCycle
<1>3. Remaining = c(d) /\ phases = [n \in 1 .. d |-> c(n - 1) \ c(n)]
        /\ \A n \in 1 .. d : c(n) # c(n - 1)
    BY DEF ChainSoFar
<1>4. c(d + 1) = c(d)
  <2>1. c(d + 1) = Followers(c(d), Before)
      BY <1>2, BeforeIsOfIds, ChainSteps
  <2> QED
      BY <1>2, <1>3, <2>1, RemainingLeadsTo
<1>5. phases' = phases \o <<c(d)>>
  <2>1. phases \in Seq(SUBSET InSet) /\ Remaining \in SUBSET InSet
      BY DEF IInv, TypeOK
  <2>2. Append(phases, Remaining) = phases \o <<Remaining>>
      BY <2>1
  <2> QED
      BY <1>2, <1>3, <2>2
<1>6. c(d) # {}
    BY <1>2, <1>3
<1>7. phases' = [n \in 1 .. d |-> c(n - 1) \ c(n)]
                  \o (IF c(d) = {} THEN <<>> ELSE <<c(d)>>)
    BY <1>3, <1>5, <1>6
<1>8. Finished'
    BY DEF Finished, Remaining, EmitCycle
<1>9. Cut(phases', InSet, Before, d)
    BY <1>2, <1>3, <1>4, <1>7 DEF Cut
<1> QED
    BY <1>1, <1>2, <1>8, <1>9

LEMMA StepLayered == IInv /\ Layered /\ [Next]_vars => Layered'
<1> SUFFICES ASSUME IInv, Layered, [Next]_vars PROVE Layered'
    OBVIOUS
<1>1. CASE UNCHANGED vars
  <2>1. Before' = Before /\ InSet' = InSet /\ phases' = phases
      BY EdgesStay, <1>1 DEF vars, InSet
  <2>2. Remaining' = Remaining
      BY <1>1 DEF vars, Remaining
  <2> QED
      BY <2>1, <2>2 DEF Layered, ChainSoFar, Finished
<1>2. CASE EmitReady
  <2>1. ~Finished
      BY <1>2 DEF EmitReady, Ready, Finished
  <2> QED
      BY <1>2, <2>1, EmitReadyIsAStep DEF Layered
<1>3. CASE EmitCycle
  <2>1. ~Finished
      BY <1>3 DEF EmitCycle, Finished
  <2> QED
      BY <1>3, <2>1, EmitCycleEndsIt DEF Layered
<1> QED
    BY <1>1, <1>2, <1>3 DEF Next

(* Kahn's algorithm of topoSort computes Layers, which the model of the    *)
(* plan uses in its place: the phases are the same, on cyclic graphs and   *)
(* with several events of one Identifier() too.                            *)
THEOREM TopoSortMatchesLayers == Spec => []MatchesLayers
<1>1. IInv /\ Layered => MatchesLayers
  <2> SUFFICES ASSUME IInv, Layered, Finished PROVE phases = Layers(InSet, Before)
      BY DEF MatchesLayers
  <2>1. \E d \in Nat : Cut(phases, InSet, Before, d)
    <3>1. CASE ChainSoFar
      <4> DEFINE c(k) == Chain(InSet, Before, k)
                 d == Len(phases)
      <4>1. d \in Nat /\ phases \in Seq(SUBSET InSet) /\ c(d) = {}
              /\ phases = [n \in 1 .. d |-> c(n - 1) \ c(n)]
              /\ \A n \in 1 .. d : c(n) # c(n - 1)
          BY <3>1 DEF ChainSoFar, IInv, TypeOK, Finished
      <4>2. c(d + 1) = Followers(c(d), Before)
        <5>1. \A k \in Nat : c(k + 1) = Followers(c(k), Before)
            BY BeforeIsOfIds, ChainSteps
        <5> QED
            BY <4>1, <5>1
      <4>3. c(d + 1) = c(d)
          BY <4>1, <4>2 DEF Followers
      <4>4. phases = phases \o <<>>
          BY <4>1
      <4>5. phases = [n \in 1 .. d |-> c(n - 1) \ c(n)]
                       \o (IF c(d) = {} THEN <<>> ELSE <<c(d)>>)
          BY <4>1, <4>4
      <4> QED
          BY <4>1, <4>3, <4>5 DEF Cut
    <3> QED
        BY <3>1 DEF Layered
  <2>2. \E d \in Nat : Cut(Layers(InSet, Before), InSet, Before, d)
      BY EdgesAreFinite, BeforeIsOfIds, LayersAre
  <2> QED
      BY <2>1, <2>2, BeforeIsOfIds, OneCut
<1> QED
    BY <1>1, IInvAlways, InitLayered, StepLayered, PTL DEF Spec

=============================================================================
