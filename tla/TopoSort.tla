------------------------------- MODULE TopoSort -------------------------------
(***************************************************************************)
(* topoSort of internal/resource/plan.go: Kahn's algorithm with in-degree  *)
(* counters, which cuts the events of one kind (deletes, updates or        *)
(* creates) into the phases the executor runs one after the other.         *)
(*                                                                         *)
(* The events of a call are the set Key: Plan walks two Go maps, so the    *)
(* order of the slice is arbitrary and carries no meaning.  topoSort files *)
(* an event under its resource's Identifier(), which is IdOf here and need *)
(* not be injective: discoverOrphanNodes puts several SpockNode objects    *)
(* with one Identifier() in the map, under different keys.                 *)
(***************************************************************************)
EXTENDS Naturals, Sequences, FiniteSets, Layering

CONSTANTS
  Key,      (* The events handed to topoSort.                              *)
  Id,       (* Resource identifiers, those of no event included.           *)
  IdOf,     (* The Identifier() of each event's resource.                  *)
  Graphs    (* The values Dependencies() may take, as functions of Key.    *)

ASSUME InputAssumption ==
  /\ IsFiniteSet(Key)
  /\ IdOf \in [Key -> Id]
  /\ Graphs \subseteq [Key -> SUBSET Id]

VARIABLES
  deps,      (* Dependencies() of each event: the call's input, constant.  *)
  reverse,   (* The call's second argument, constant.                      *)
  inDegree,  (* The counters; the domain is what is still to be emitted.   *)
  phases     (* The result so far, each phase as the set of its ids.       *)

vars == <<deps, reverse, inDegree, phases>>

-----------------------------------------------------------------------------

\* The keys of eventSet: the identifiers the call can emit.
InSet == {IdOf[k] : k \in Key}

\* Mutation: dependencies outside the set are counted as well.
Edge_OutsideToo == {e \in Key \X Id : e[2] \in deps[e[1]]}

\* One edge per event and dependency of it that is itself in the set.
Edge == {e \in Key \X InSet : e[2] \in deps[e[1]]}

\* The two ends of an edge in execution order: for creates and updates the
\* dependency goes first, for deletes the dependent does.
First(e)  == IF reverse THEN IdOf[e[1]] ELSE e[2]
Second(e) == IF reverse THEN e[2] ELSE IdOf[e[1]]

Init ==
  /\ deps \in Graphs
  /\ reverse \in BOOLEAN
  /\ inDegree = [i \in InSet |-> Cardinality({e \in Edge : Second(e) = i})]
  /\ phases = <<>>

\* What the loop has not emitted yet, and of that what waits for nothing.
Remaining == DOMAIN inDegree

\* Mutation: an off-by-one in the test of the counter.
Ready_OffByOne == {i \in Remaining : inDegree[i] <= 1}

\* Mutation: one ready event per phase.
Ready_OnlyOne ==
  LET R == {i \in Remaining : inDegree[i] = 0}
  IN  {i \in R : i = CHOOSE j \in R : TRUE}

Ready == {i \in Remaining : inDegree[i] = 0}

\* Mutation: every counter is lowered for every edge that leaves R.
Released_AnyEdge(i, R) == {e \in Edge : First(e) \in R}

\* The counter of i once the ids of R are gone: one less per edge from R.
Released(i, R) == {e \in Edge : Second(e) = i /\ First(e) \in R}

\* What the iteration decrements.  A counter that is no longer in the map
\* would come back, and count from 0.
Lowered == {Second(e) : e \in {f \in Edge : First(f) \in Ready}}
Counter(i) == IF i \in Remaining THEN inDegree[i] ELSE 0

\* Mutation: emitted ids keep their counters.
EmitReady_KeepsIds ==
  /\ Ready # {}
  /\ phases' = Append(phases, Ready)
  /\ inDegree' = [i \in Remaining |->
                    inDegree[i] - Cardinality(Released(i, Ready))]
  /\ UNCHANGED <<deps, reverse>>

\* An iteration that finds events with in-degree 0.
EmitReady ==
  /\ Ready # {}
  /\ phases' = Append(phases, Ready)
  /\ inDegree' = [i \in (Remaining \ Ready) \union Lowered |->
                    Counter(i) - Cardinality(Released(i, Ready))]
  /\ UNCHANGED <<deps, reverse>>

\* Mutation: no cycle branch, the loop spins.
EmitCycle_Never == FALSE /\ UNCHANGED vars

\* Mutation: the rest is emitted although some of it is ready.
EmitCycle_Early ==
  /\ Remaining # {}
  /\ phases' = Append(phases, Remaining)
  /\ inDegree' = [i \in {} |-> 0]
  /\ UNCHANGED <<deps, reverse>>

\* "Cycle detected - emit remaining as a single phase", and leave the loop.
EmitCycle ==
  /\ Remaining # {}
  /\ Ready = {}
  /\ phases' = Append(phases, Remaining)
  /\ inDegree' = [i \in {} |-> 0]
  /\ UNCHANGED <<deps, reverse>>

Next == EmitReady \/ EmitCycle

\* A sequential loop: while an iteration is possible it is taken.
Spec == Init /\ [][Next]_vars /\ WF_vars(Next)

-----------------------------------------------------------------------------

Finished == Remaining = {}

\* Which pairs of ids the call must keep in order.
Before == {<<First(e), Second(e)>> : e \in Edge}

\* No set of events waits only for itself: for a finite graph, no cycle.
Acyclic ==
  \A S \in SUBSET InSet :
    S # {} => \E i \in S : \A j \in S : <<j, i>> \notin Before

TypeOK ==
  /\ deps \in [Key -> SUBSET Id]
  /\ reverse \in BOOLEAN
  /\ Remaining \subseteq InSet
  /\ inDegree \in [Remaining -> Nat]
  /\ phases \in Seq(SUBSET InSet)

(* The call never breaks the promise of plan.go:6-7 on a graph without     *)
(* cycles: what an event must wait for is in an earlier phase.             *)
OrderRespected ==
  Acyclic =>
    \A e \in Edge, n \in DOMAIN phases :
      Second(e) \in phases[n] =>
        \E m \in 1 .. n - 1 : First(e) \in phases[m]

(* On any graph, an event shares a phase with something it must wait for   *)
(* only in the last phase, and only when every event of that phase waits   *)
(* for another one of it: the cycle branch gives up nothing it could order. *)
OnlyCyclesShareAPhase ==
  \A e \in Edge, n \in DOMAIN phases :
    Second(e) \in phases[n] =>
      \/ \E m \in 1 .. n - 1 : First(e) \in phases[m]
      \/ /\ n = Len(phases) /\ Finished
         /\ Blocked(phases[n], Before) = phases[n]

(* Every identifier handed in is either still to come or in exactly one    *)
(* phase: topoSort neither loses nor repeats an identifier.                *)
EmittedOnce ==
  /\ Remaining \union UNION {phases[n] : n \in DOMAIN phases} = InSet
  /\ \A n \in DOMAIN phases :
       /\ phases[n] \intersect Remaining = {}
       /\ \A m \in 1 .. n - 1 : phases[n] \intersect phases[m] = {}

(* No event is held back: outside the cycle phase, each event of phase     *)
(* n + 1 waits for one of phase n, so the executor's barriers cost no      *)
(* parallelism the graph allows.                                           *)
NoNeedlessBarrier ==
  \A n \in 2 .. Len(phases) : \A i \in phases[n] :
    \/ Blocked(phases[n], Before) = phases[n]
    \/ \E j \in phases[n - 1] : <<j, i>> \in Before

(* The counters compute the layering they stand for, on cyclic graphs and  *)
(* with several events of one Identifier() too.                            *)
MatchesLayers == Finished => phases = Layers(InSet, Before)

(* The loop ends on every graph: a cycle does not make it spin.            *)
Terminates == <>Finished
=============================================================================
