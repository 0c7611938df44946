------------------------- MODULE PopulatePlanProofs -------------------------
(***************************************************************************)
(* The order of a reconciliation that populates a new node, for any number *)
(* of nodes and any source.                                                *)
(*                                                                         *)
(* The invariant says what kind of thing the plan is: nothing but creates, *)
(* of all that is desired and not there, in the order of Dependencies().   *)
(* The gates follow along the chain of dependencies.  DisabledBeforeEnabled*)
(* does not: no dependency puts DisabledSub before LagTracker.  It follows *)
(* from the plan having no gap, which bounds the phase of DisabledSub from *)
(* above by the two things it waits for.                                   *)
(***************************************************************************)
EXTENDS PopulatePlan, PlanProofs

\* At most one node is new.  With two, DependenciesFirst can fail.
AtMostOneNew == \A c \in Configs : \A m \in NewNodes(c), n \in NewNodes(c) : m = n

\* What is to be created.
Missing == DesiredIds(cfg) \ actual

Made ==
  \E down, up :
    /\ IsPlan(phases, {}, {}, Missing, down, up)
    /\ \A j, k : <<j, k>> \in up <=> j \in Missing /\ k \in Missing /\ j \in Dependencies(cfg, k)

PInv ==
  /\ cfg \in Configs
  /\ actual \in {{}, Mesh(cfg.nodes \ NewNodes(cfg))}
  /\ phases = <<>> \/ Made

LEMMA ConfigsAreSound ==
  ASSUME AtMostOneNew, NEW c \in Configs PROVE IsConfig(c) /\ OneNew(c)
<1>1. IsConfig(c)
    BY ConfigAssumption DEF IsConfig
<1>2. ASSUME NEW n \in NewNodes(c) PROVE NewNodes(c) = {n} /\ c.order = <<n>>
  <2>1. NewNodes(c) = {n}
      BY DEF AtMostOneNew
  <2>2. Cardinality(NewNodes(c)) = 1
      BY <2>1, FS_Singleton
  <2>3. c.order \in Seq({n}) /\ Len(c.order) = 1
      BY <2>1, <2>2, ConfigAssumption
  <2>4. c.order = <<n>>
      BY <2>3
  <2> QED
      BY <2>1, <2>4
<1> QED
    BY <1>1, <1>2 DEF OneNew

\* A mesh of nodes of the configuration is part of what is desired.
LEMMA MeshIsDesired ==
  ASSUME NEW c, NEW nodes \in SUBSET c.nodes
  PROVE  Mesh(nodes) \subseteq DesiredIds(c)
<1>1. Pairs(nodes) \subseteq Pairs(c.nodes)
    BY DEF Pairs
<1> QED
    BY <1>1 DEF Mesh, DesiredIds

LEMMA StepPInv == AtMostOneNew => (PInv /\ [Next]_pvars => PInv')
<1> SUFFICES ASSUME AtMostOneNew, PInv, [Next]_pvars PROVE PInv'
    OBVIOUS
<1>1. CASE UNCHANGED pvars
    BY <1>1 DEF pvars, PInv, Made, Missing
<1>2. CASE MakePlan
  <2> DEFINE desired == DesiredIds(cfg)
             idOf == [k \in desired |-> k]
             deps == [k \in desired |-> Dependencies(cfg, k)]
             rank == [k \in Missing |-> Rank(cfg, k)]
             none == [k \in {} |-> 0]
  <2>1. phases' \in Plans(actual, desired, {}, {}, idOf, deps) /\ UNCHANGED <<cfg, actual>>
      BY <1>2 DEF MakePlan
  <2>2. IsConfig(cfg) /\ OneNew(cfg)
      BY ConfigsAreSound DEF PInv
  <2>3. IsFiniteSet(desired)
      BY <2>2, DesiredIsFinite
  <2>4. actual \subseteq desired
    <3>1. cfg.nodes \ NewNodes(cfg) \in SUBSET cfg.nodes
        OBVIOUS
    <3> QED
        BY <3>1, MeshIsDesired DEF PInv
  <2>5. IsFiniteSet(actual)
      BY <2>3, <2>4, FS_Subset
  <2>6. Deletes(actual, desired, {}) = {} /\ Updates(actual, desired, {}, {}) = {}
          /\ Creates(actual, desired, {}) = Missing
      BY <2>4 DEF Deletes, Updates, Creates, Missing
  <2>7. \A k \in desired : \A j \in Dependencies(cfg, k) : Rank(cfg, j) < Rank(cfg, k)
      BY <2>2, DependenciesAreRanked
  <2>8. rank \in [Missing -> Nat]
    <3>1. \A k \in desired : Rank(cfg, k) \in Nat
      <4>1. \A k \in desired : k[1] \in Kinds \ {"orphan"}
          BY <2>2, DesiredAreKeys
      <4> QED
          BY <4>1 DEF Rank, Kinds
    <3> QED
        BY <3>1 DEF Missing
  <2> HIDE DEF desired
  <2>9. \A j \in Missing, k \in Missing : idOf[j] \in deps[k] => rank[j] < rank[k]
    <3>1. Missing \subseteq desired
        BY DEF Missing, desired
    <3> QED
        BY <2>7, <3>1
  <2>10. none \in [{} -> Nat]
      OBVIOUS
  <2>11. \A j, k : <<j, k>> \in Order(Missing, FALSE, idOf, deps)
                    <=> j \in Missing /\ k \in Missing /\ j \in Dependencies(cfg, k)
    <3>1. Missing \subseteq desired
        BY DEF Missing, desired
    <3>2. \A j \in Missing : idOf[j] = j /\ deps[j] = Dependencies(cfg, j)
        BY <3>1
    <3> HIDE DEF idOf, deps
    <3>3. \A j, k : <<j, k>> \in Order(Missing, FALSE, idOf, deps)
                     <=> j \in Missing /\ k \in Missing /\ idOf[j] \in deps[k]
        BY OrderIs
    <3> TAKE j, k
    <3>4. <<j, k>> \in Order(Missing, FALSE, idOf, deps)
            <=> j \in Missing /\ k \in Missing /\ idOf[j] \in deps[k]
        BY <3>3
    <3>5. j \in Missing /\ k \in Missing => idOf[j] = j /\ deps[k] = Dependencies(cfg, k)
        BY <3>2
    <3> QED
        BY <3>4, <3>5
  <2> HIDE DEF idOf, deps, rank, none
  <2>12. \E W \in Kept(Deletes(actual, desired, {}), idOf) :
           IsPlan(phases', W, Updates(actual, desired, {}, {}), Creates(actual, desired, {}),
                  Order(W, TRUE, idOf, deps), Order(Creates(actual, desired, {}), FALSE, idOf, deps))
      BY <2>1, <2>3, <2>5, <2>6, <2>8, <2>9, <2>10, PlansAreOrdered
  <2>13. \A W \in Kept({}, idOf) : W = {}
      BY DEF Kept
  <2>14. IsPlan(phases', {}, {}, Missing, Order({}, TRUE, idOf, deps), Order(Missing, FALSE, idOf, deps))
      BY <2>6, <2>12, <2>13
  <2>15. Missing' = Missing
      BY <2>1 DEF Missing
  <2>16. Made'
      BY <2>1, <2>11, <2>14, <2>15 DEF Made
  <2> QED
      BY <2>1, <2>16 DEF PInv
<1> QED
    BY <1>1, <1>2 DEF Next

LEMMA PInvAlways == ASSUME AtMostOneNew PROVE Spec => []PInv
<1>1. Init => PInv
    BY DEF Init, PInv
<1>2. PInv /\ [Next]_pvars => PInv'
    BY StepPInv
<1> QED
    BY <1>1, <1>2, PTL DEF Spec

-----------------------------------------------------------------------------
(* Along the dependencies.                                                 *)

\* What is missing is created, in one phase.
LEMMA CreatedOnce ==
  ASSUME Made, NEW k \in Missing
  PROVE  /\ PhaseOf(k) \in DOMAIN phases /\ PhaseOf(k) \in Nat
         /\ \A n \in DOMAIN phases : <<"create", k>> \in phases[n] <=> n = PhaseOf(k)
<1>1. /\ phases \in Seq(SUBSET (({"delete"} \X {}) \union ({"update"} \X {})
                                \union ({"create"} \X Missing)))
      /\ \E n \in DOMAIN phases : <<"create", k>> \in phases[n]
      /\ \A n \in DOMAIN phases, m \in DOMAIN phases : m < n => phases[m] \intersect phases[n] = {}
    BY DEF Made, IsPlan
<1>2. DOMAIN phases \subseteq Nat
    BY <1>1
<1>3. PhaseOf(k) \in DOMAIN phases /\ <<"create", k>> \in phases[PhaseOf(k)]
    BY <1>1 DEF PhaseOf
<1>4. ASSUME NEW n \in DOMAIN phases, <<"create", k>> \in phases[n] PROVE n = PhaseOf(k)
  <2>1. ~(n < PhaseOf(k)) /\ ~(PhaseOf(k) < n)
      BY <1>1, <1>3, <1>4
  <2> QED
      BY <1>2, <1>3, <2>1
<1> QED
    BY <1>2, <1>3, <1>4

LEMMA InOrder ==
  ASSUME Made, NEW j \in Missing, NEW k \in Missing, j \in Dependencies(cfg, k)
  PROVE  Precedes(j, k)
<1>1. PICK m \in 1 .. PhaseOf(k) - 1 : <<"create", j>> \in phases[m]
  <2>1. PhaseOf(k) \in DOMAIN phases /\ <<"create", k>> \in phases[PhaseOf(k)]
      BY CreatedOnce
  <2> QED
      BY <2>1 DEF Made, IsPlan
<1>2. phases \in Seq(SUBSET (({"delete"} \X {}) \union ({"update"} \X {})
                            \union ({"create"} \X Missing)))
    BY DEF Made, IsPlan
<1>3. m \in DOMAIN phases /\ m < PhaseOf(k)
  <2>1. PhaseOf(k) \in DOMAIN phases /\ PhaseOf(k) \in Nat
      BY CreatedOnce
  <2>2. DOMAIN phases = 1 .. Len(phases) /\ Len(phases) \in Nat
      BY <1>2
  <2> QED
      BY <1>1, <2>1, <2>2
<1>4. m = PhaseOf(j)
    BY <1>1, <1>3, CreatedOnce
<1> QED
    BY <1>3, <1>4 DEF Precedes

\* A plan has no gap.
LEMMA NoGap ==
  ASSUME Made, NEW k \in Missing
  PROVE  \/ \E j \in Missing : j \in Dependencies(cfg, k) /\ PhaseOf(j) = PhaseOf(k) - 1
         \/ \A i \in Missing : PhaseOf(k) <= PhaseOf(i)
<1> DEFINE n == PhaseOf(k)
<1>1. n \in DOMAIN phases /\ n \in Nat /\ <<"create", k>> \in phases[n]
    BY CreatedOnce
<1>2. phases \in Seq(SUBSET (({"delete"} \X {}) \union ({"update"} \X {})
                            \union ({"create"} \X Missing)))
    BY DEF Made, IsPlan
<1> HIDE DEF n
<1>3. \/ \E j : /\ n > 1 /\ j \in Missing /\ j \in Dependencies(cfg, k)
                /\ <<"create", j>> \in phases[n - 1]
      \/ \A m \in 1 .. n - 1 : \A i : <<"create", i>> \notin phases[m]
  <2>1. PICK down, up :
          /\ IsPlan(phases, {}, {}, Missing, down, up)
          /\ \A i, j : <<i, j>> \in up <=> i \in Missing /\ j \in Missing /\ i \in Dependencies(cfg, j)
      BY DEF Made
  <2>2. \/ \E j : n > 1 /\ <<j, k>> \in up /\ <<"create", j>> \in phases[n - 1]
        \/ \A m \in 1 .. n - 1 : \A i : <<"create", i>> \notin phases[m]
      BY <1>1, <2>1 DEF IsPlan
  <2> QED
      BY <2>1, <2>2
<1>4. CASE \E j : /\ n > 1 /\ j \in Missing /\ j \in Dependencies(cfg, k)
                 /\ <<"create", j>> \in phases[n - 1]
  <2>1. PICK j : /\ n > 1 /\ j \in Missing /\ j \in Dependencies(cfg, k)
                 /\ <<"create", j>> \in phases[n - 1]
      BY <1>4
  <2>2. n - 1 \in DOMAIN phases
      BY <1>1, <1>2, <2>1
  <2>3. n - 1 = PhaseOf(j)
      BY <2>1, <2>2, CreatedOnce
  <2> QED
      BY <2>1, <2>3 DEF n
<1>5. CASE \A m \in 1 .. n - 1 : \A i : <<"create", i>> \notin phases[m]
  <2>1. ASSUME NEW i \in Missing PROVE n <= PhaseOf(i)
    <3>1. PhaseOf(i) \in DOMAIN phases /\ PhaseOf(i) \in Nat /\ <<"create", i>> \in phases[PhaseOf(i)]
        BY CreatedOnce
    <3>2. PhaseOf(i) \notin 1 .. n - 1
        BY <1>5, <3>1
    <3> QED
        BY <1>1, <1>2, <3>1, <3>2
  <2> QED
      BY <2>1 DEF n
<1> QED
    BY <1>3, <1>4, <1>5

(* "Creates are ordered so dependencies come first" (plan.go:6): every     *)
(* configuration with at most one new node, on empty databases and on      *)
(* those of the mesh it joins.                                             *)
THEOREM PlanDependenciesFirst == ASSUME AtMostOneNew PROVE Spec => []DependenciesFirst
<1>1. PInv => DependenciesFirst
  <2> SUFFICES ASSUME PInv, NEW n \in DOMAIN phases, NEW ev \in phases[n],
                      NEW d \in Dependencies(cfg, ev[2]), d \notin actual
               PROVE  \E m \in 1 .. n - 1 : <<"create", d>> \in phases[m]
      BY DEF DependenciesFirst
  <2>1. Made
      BY DEF PInv
  <2>2. phases \in Seq(SUBSET (({"delete"} \X {}) \union ({"update"} \X {})
                              \union ({"create"} \X Missing)))
      BY <2>1 DEF Made, IsPlan
  <2>3. PICK k \in Missing : ev = <<"create", k>>
      BY <2>2
  <2>4. IsConfig(cfg) /\ OneNew(cfg)
      BY ConfigsAreSound DEF PInv
  <2>5. d \in DesiredIds(cfg)
      BY <2>3, <2>4, DependenciesAreRanked DEF Missing
  <2>6. d \in Missing
      BY <2>5 DEF Missing
  <2> QED
      BY <2>1, <2>3, <2>6 DEF Made, IsPlan
<1> QED
    BY <1>1, PInvAlways, PTL

\* With a new node, all that populates it and its subscriptions are missing.
LEMMA PopulateIsMissing ==
  ASSUME PInv, AtMostOneNew, NEW new \in NewNodes(cfg), NEW src, src = cfg.source[new]
  PROVE  /\ {SyncEvent(src, new), WaitForSync(src, new), Subscription(src, new)} \subseteq Missing
         /\ \A p \in Peers(cfg, new) :
              {SlotCreate(p, new), DisabledSub(p, new), SyncEvent(p, src), WaitForSync(p, src),
               PeerCatchup(p, src), LagTracker(p, new), SlotAdvance(p, new),
               OriginAdvance(p, new), Subscription(p, new)} \subseteq Missing
         /\ \A s \in cfg.nodes \ {new} : Subscription(new, s) \in Missing
<1>1. IsConfig(cfg) /\ OneNew(cfg)
    BY ConfigsAreSound DEF PInv
<1>2. /\ new \in cfg.nodes /\ src \in cfg.nodes /\ src # new /\ NewNodes(cfg) = {new}
      /\ \A p \in Peers(cfg, new) : p \in cfg.nodes /\ p # new /\ p # src
    BY <1>1, GatesOfTheNewNode DEF GatesAre
<1>3. ASSUME NEW k \in actual
      PROVE  /\ k[1] \in {"user", "node", "slot", "subscription"}
             /\ k[2] # new /\ k[3] # new
  <2>1. k \in Mesh(cfg.nodes \ {new})
      BY <1>2 DEF PInv
  <2> QED
      BY <2>1 DEF Mesh, User, SpockNode, Slot, Subscription, Pairs
<1>4. {SyncEvent(src, new), WaitForSync(src, new), Subscription(src, new)} \subseteq Missing
  <2>1. {SyncEvent(src, new), WaitForSync(src, new), Subscription(src, new)} \subseteq DesiredIds(cfg)
      BY <1>1, <1>2, DesiredWithOneNew
  <2> QED
      BY <1>3, <2>1 DEF Missing, SyncEvent, WaitForSync, Subscription
<1>5. ASSUME NEW p \in Peers(cfg, new)
      PROVE  {SlotCreate(p, new), DisabledSub(p, new), SyncEvent(p, src), WaitForSync(p, src),
              PeerCatchup(p, src), LagTracker(p, new), SlotAdvance(p, new),
              OriginAdvance(p, new), Subscription(p, new)} \subseteq Missing
  <2>1. {SlotCreate(p, new), DisabledSub(p, new), SyncEvent(p, src), WaitForSync(p, src),
         PeerCatchup(p, src), LagTracker(p, new), SlotAdvance(p, new),
         OriginAdvance(p, new)} \subseteq DesiredIds(cfg)
      BY <1>1, DesiredWithOneNew
  <2>2. Subscription(p, new) \in DesiredIds(cfg)
      BY <1>1, <1>2, DesiredWithOneNew
  <2>3. {SlotCreate(p, new), DisabledSub(p, new), SyncEvent(p, src), WaitForSync(p, src),
         PeerCatchup(p, src), LagTracker(p, new), SlotAdvance(p, new),
         OriginAdvance(p, new)} \intersect actual = {}
      BY <1>3 DEF SlotCreate, DisabledSub, SyncEvent, WaitForSync, PeerCatchup, LagTracker,
                  SlotAdvance, OriginAdvance
  <2>4. Subscription(p, new) \notin actual
      BY <1>3 DEF Subscription
  <2> QED
      BY <2>1, <2>2, <2>3, <2>4 DEF Missing
<1>6. ASSUME NEW s \in cfg.nodes \ {new} PROVE Subscription(new, s) \in Missing
  <2>1. Subscription(new, s) \in DesiredIds(cfg)
      BY <1>1, <1>2, DesiredWithOneNew
  <2> QED
      BY <1>3, <2>1 DEF Missing, Subscription
<1> QED
    BY <1>4, <1>5, <1>6

\* The dependencies that order a populate, as phases.
LEMMA AlongTheGates ==
  ASSUME Made, PInv, AtMostOneNew, NEW new \in NewNodes(cfg), NEW src, src = cfg.source[new]
  PROVE  /\ Precedes(Subscription(src, new), SyncEvent(src, new))
         /\ Precedes(SyncEvent(src, new), WaitForSync(src, new))
         /\ \A s \in cfg.nodes \ {new} : Precedes(WaitForSync(src, new), Subscription(new, s))
         /\ \A p \in Peers(cfg, new) :
              /\ Precedes(SlotCreate(p, new), SyncEvent(p, src))
              /\ Precedes(SyncEvent(p, src), WaitForSync(p, src))
              /\ Precedes(WaitForSync(p, src), Subscription(src, new))
              /\ Precedes(PeerCatchup(p, src), Subscription(src, new))
              /\ Precedes(WaitForSync(src, new), LagTracker(p, new))
              /\ Precedes(OriginAdvance(p, new), Subscription(p, new))
<1>1. IsConfig(cfg) /\ OneNew(cfg)
    BY ConfigsAreSound DEF PInv
<1>2. /\ new \in cfg.nodes /\ src \in cfg.nodes /\ src # new
      /\ \A p \in Peers(cfg, new) : p \in cfg.nodes /\ p # new /\ p # src
      /\ SubscriptionGates(cfg, src, new)
           = UNION {{WaitForSync(p, src), PeerCatchup(p, src)} : p \in Peers(cfg, new)}
      /\ \A p \in Peers(cfg, new) : SubscriptionGates(cfg, p, new) = {OriginAdvance(p, new)}
      /\ \A s : s # new => SubscriptionGates(cfg, new, s) = {WaitForSync(src, new)}
      /\ \A p \in Peers(cfg, new) : SyncEventGates(cfg, p, src) = {SlotCreate(p, new)}
  <2>1. GatesAre(cfg, new, src)
      BY <1>1, GatesOfTheNewNode
  <2> QED
      BY <2>1 DEF GatesAre
<1>3. /\ {SyncEvent(src, new), WaitForSync(src, new), Subscription(src, new)} \subseteq Missing
      /\ \A p \in Peers(cfg, new) :
           {SlotCreate(p, new), DisabledSub(p, new), SyncEvent(p, src), WaitForSync(p, src),
            PeerCatchup(p, src), LagTracker(p, new), SlotAdvance(p, new),
            OriginAdvance(p, new), Subscription(p, new)} \subseteq Missing
      /\ \A s \in cfg.nodes \ {new} : Subscription(new, s) \in Missing
    BY PopulateIsMissing
\* A dependency of a missing one, itself missing, is created earlier.
<1>4. \A j, k : j \in Missing /\ k \in Missing /\ j \in Dependencies(cfg, k) => Precedes(j, k)
    BY InOrder
<1>5. Precedes(Subscription(src, new), SyncEvent(src, new))
  <2>1. Subscription(src, new) \in Dependencies(cfg, SyncEvent(src, new))
      BY DependenciesAre
  <2> QED
      BY <1>3, <1>4, <2>1
<1>6. Precedes(SyncEvent(src, new), WaitForSync(src, new))
  <2>1. SyncEvent(src, new) \in Dependencies(cfg, WaitForSync(src, new))
      BY DependenciesAre
  <2> QED
      BY <1>3, <1>4, <2>1
<1>7. ASSUME NEW s \in cfg.nodes \ {new}
      PROVE  Precedes(WaitForSync(src, new), Subscription(new, s))
  <2>1. WaitForSync(src, new) \in Dependencies(cfg, Subscription(new, s))
      BY <1>2, DependenciesAre
  <2> QED
      BY <1>3, <1>4, <2>1
<1>8. ASSUME NEW p \in Peers(cfg, new)
      PROVE  /\ Precedes(SlotCreate(p, new), SyncEvent(p, src))
             /\ Precedes(SyncEvent(p, src), WaitForSync(p, src))
             /\ Precedes(WaitForSync(p, src), Subscription(src, new))
             /\ Precedes(PeerCatchup(p, src), Subscription(src, new))
             /\ Precedes(WaitForSync(src, new), LagTracker(p, new))
             /\ Precedes(OriginAdvance(p, new), Subscription(p, new))
  <2>1. SlotCreate(p, new) \in Dependencies(cfg, SyncEvent(p, src))
      BY <1>2, DependenciesAre
  <2>2. SyncEvent(p, src) \in Dependencies(cfg, WaitForSync(p, src))
      BY DependenciesAre
  <2>3. {WaitForSync(p, src), PeerCatchup(p, src)} \subseteq Dependencies(cfg, Subscription(src, new))
      BY <1>2, DependenciesAre
  <2>4. WaitForSync(src, new) \in Dependencies(cfg, LagTracker(p, new))
      BY DependenciesAre
  <2>5. OriginAdvance(p, new) \in Dependencies(cfg, Subscription(p, new))
      BY <1>2, DependenciesAre
  <2> QED
      BY <1>3, <1>4, <2>1, <2>2, <2>3, <2>4, <2>5
<1> QED
    BY <1>5, <1>6, <1>7, <1>8

LEMMA PhasesAreNumbers == ASSUME Made PROVE \A k \in Missing : PhaseOf(k) \in Nat
BY CreatedOnce

(* The initial copy waits until every peer keeps its writes for the new    *)
(* node and the source has what they wrote before (addPopulateResources),  *)
(* whatever the other peers are and whichever node is the source.          *)
THEOREM CopyIsGated == ASSUME AtMostOneNew PROVE Spec => []CopyAfterPeersAreCaptured
<1>1. PInv => CopyAfterPeersAreCaptured
  <2> SUFFICES ASSUME PInv, Planned, NEW new \in NewNodes(cfg), NEW p \in Peers(cfg, new)
               PROVE  LET src == cfg.source[new]
                      IN  /\ Precedes(SlotCreate(p, new), SyncEvent(p, src))
                          /\ Precedes(SyncEvent(p, src), WaitForSync(p, src))
                          /\ Precedes(WaitForSync(p, src), Subscription(src, new))
                          /\ Precedes(PeerCatchup(p, src), Subscription(src, new))
      BY DEF CopyAfterPeersAreCaptured
  <2>1. Made
      BY DEF PInv, Planned
  <2> QED
      BY <2>1, AlongTheGates
<1> QED
    BY <1>1, PInvAlways, PTL

(* A new node's own subscribers wait for its copy to be complete: for the  *)
(* sync event the source sends after the new node subscribed to it.        *)
THEOREM CopyBeforeSpeaking == ASSUME AtMostOneNew PROVE Spec => []NewSpeaksAfterCopy
<1>1. PInv => NewSpeaksAfterCopy
  <2> SUFFICES ASSUME PInv, Planned, NEW new \in NewNodes(cfg), NEW other \in cfg.nodes \ {new}
               PROVE  /\ Precedes(Subscription(cfg.source[new], new),
                                  WaitForSync(cfg.source[new], new))
                      /\ Precedes(WaitForSync(cfg.source[new], new), Subscription(new, other))
      BY DEF NewSpeaksAfterCopy
  <2> DEFINE src == cfg.source[new]
  <2>1. Made
      BY DEF PInv, Planned
  <2>2. /\ Precedes(Subscription(src, new), SyncEvent(src, new))
        /\ Precedes(SyncEvent(src, new), WaitForSync(src, new))
        /\ Precedes(WaitForSync(src, new), Subscription(new, other))
      BY <2>1, AlongTheGates
  <2>3. {SyncEvent(src, new), WaitForSync(src, new), Subscription(src, new)} \subseteq Missing
      BY PopulateIsMissing
  <2>4. /\ PhaseOf(SyncEvent(src, new)) \in Nat /\ PhaseOf(WaitForSync(src, new)) \in Nat
        /\ PhaseOf(Subscription(src, new)) \in Nat
      BY <2>1, <2>3, PhasesAreNumbers
  <2>5. Precedes(Subscription(src, new), WaitForSync(src, new))
      BY <2>2, <2>4 DEF Precedes
  <2> QED
      BY <2>2, <2>5
<1> QED
    BY <1>1, PInvAlways, PTL

(* No dependency puts the disabled subscription before the lag tracker, and *)
(* yet no plan has them in the other order: the disabled subscription is   *)
(* created right after the last missing one of the three things it waits   *)
(* for, and the chain the lag tracker waits for is longer.                 *)
THEOREM DisabledComesFirst == ASSUME AtMostOneNew PROVE Spec => []DisabledBeforeEnabled
<1>1. PInv => DisabledBeforeEnabled
  <2> SUFFICES ASSUME PInv, Planned, NEW new \in NewNodes(cfg), NEW p \in Peers(cfg, new)
               PROVE  /\ Precedes(DisabledSub(p, new), LagTracker(p, new))
                      /\ Precedes(OriginAdvance(p, new), Subscription(p, new))
      BY DEF DisabledBeforeEnabled
  <2> DEFINE src   == cfg.source[new]
             slot  == PhaseOf(SlotCreate(p, new))
             event == PhaseOf(SyncEvent(p, src))
             wait  == PhaseOf(WaitForSync(p, src))
             copy  == PhaseOf(Subscription(src, new))
             done  == PhaseOf(SyncEvent(src, new))
             seen  == PhaseOf(WaitForSync(src, new))
             lag   == PhaseOf(LagTracker(p, new))
             off   == PhaseOf(DisabledSub(p, new))
  <2>1. Made
      BY DEF PInv, Planned
  <2>2. /\ slot < event /\ event < wait /\ wait < copy /\ copy < done /\ done < seen /\ seen < lag
        /\ Precedes(OriginAdvance(p, new), Subscription(p, new))
      BY <2>1, AlongTheGates DEF Precedes
  <2>3. {SyncEvent(src, new), WaitForSync(src, new), Subscription(src, new), SlotCreate(p, new),
         SyncEvent(p, src), WaitForSync(p, src), LagTracker(p, new), DisabledSub(p, new)}
          \subseteq Missing
      BY PopulateIsMissing
  <2>4. /\ slot \in Nat /\ event \in Nat /\ wait \in Nat /\ copy \in Nat /\ done \in Nat
        /\ seen \in Nat /\ lag \in Nat /\ off \in Nat
      BY <2>1, <2>3, PhasesAreNumbers
  <2>5. SpockNode(p) \in Missing => PhaseOf(SpockNode(p)) < slot
    <3>1. SpockNode(p) \in Dependencies(cfg, SlotCreate(p, new))
        BY DependenciesAre
    <3> QED
        BY <2>1, <2>3, <3>1, InOrder DEF Precedes
  <2>6. SpockNode(new) \in Missing => PhaseOf(SpockNode(new)) < copy
    <3>1. SpockNode(new) \in Dependencies(cfg, Subscription(src, new))
        BY DependenciesAre
    <3> QED
        BY <2>1, <2>3, <3>1, InOrder DEF Precedes
  <2>7. off < lag
    <3>1. \/ \E j \in Missing : j \in Dependencies(cfg, DisabledSub(p, new)) /\ PhaseOf(j) = off - 1
          \/ \A i \in Missing : off <= PhaseOf(i)
        BY <2>1, <2>3, NoGap
    <3>2. CASE \E j \in Missing : j \in Dependencies(cfg, DisabledSub(p, new)) /\ PhaseOf(j) = off - 1
      <4>1. PICK j \in Missing : j \in Dependencies(cfg, DisabledSub(p, new)) /\ PhaseOf(j) = off - 1
          BY <3>2
      <4>2. j \in {SpockNode(p), SpockNode(new), SlotCreate(p, new)}
          BY <4>1, DependenciesAre
      <4>3. PhaseOf(j) \in Nat /\ (PhaseOf(j) < slot \/ PhaseOf(j) < copy \/ PhaseOf(j) = slot)
          BY <2>1, <2>5, <2>6, <4>1, <4>2, PhasesAreNumbers
      <4> HIDE DEF slot, event, wait, copy, done, seen, lag, off
      <4> QED
          BY <2>2, <2>4, <4>1, <4>3
    <3>3. CASE \A i \in Missing : off <= PhaseOf(i)
      <4>1. off <= slot
          BY <2>3, <3>3
      <4> HIDE DEF slot, event, wait, copy, done, seen, lag, off
      <4> QED
          BY <2>2, <2>4, <4>1
    <3> QED
        BY <3>1, <3>2, <3>3
  <2> QED
      BY <2>2, <2>7 DEF Precedes
<1> QED
    BY <1>1, PInvAlways, PTL
=============================================================================
