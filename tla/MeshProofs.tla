------------------------------ MODULE MeshProofs ------------------------------
(***************************************************************************)
(* What every run of the job leaves behind, for any number of nodes,       *)
(* upgrades and faults.                                                    *)
(*                                                                         *)
(* The invariant has three layers.  Barrier is the executor: phases before *)
(* the index done, phases behind it untouched.  Catalogs is what the       *)
(* databases keep to at all times.  Between them stands the plan: what it  *)
(* may create, and after what (Gated), that a row of an orphan goes after  *)
(* its subscription (Cleaning), and that what the mesh still lacks is      *)
(* among the events that have not succeeded (Promised).                    *)
(*                                                                         *)
(* On top of it, FirstRun and Copying follow the run that adds a node.     *)
(***************************************************************************)
EXTENDS Mesh, PlanProofs

\* The event is in the plan, in a phase before n.
Earlier(n, e) == \E m \in 1 .. n - 1 : e \in phases[m]

\* The event is in the plan and has not succeeded.
Due(e) == e \notin done /\ \E n \in DOMAIN phases : e \in phases[n]

ConfigIs == IsConfig(cfg) /\ OneNew(cfg) /\ cfg.nodes \subseteq Node

\* The executor, also between runs.
Barrier ==
  /\ \A n \in DOMAIN phases, m \in DOMAIN phases : m < n => phases[m] \intersect phases[n] = {}
  /\ \A e \in running : phase \in DOMAIN phases /\ e \in phases[phase] /\ e \notin done
  /\ \A n \in DOMAIN phases : n < phase => phases[n] \subseteq done
  /\ \A n \in DOMAIN phases : phase < n => phases[n] \intersect done = {}
  /\ ~failed /\ phase \in DOMAIN phases => phases[phase] \subseteq running \union done
  /\ \A e \in done : \E n \in DOMAIN phases : e \in phases[n]
  /\ result # "running" => phases = <<>> /\ phase = 0 /\ done = {}
  /\ started => result # "running"

\* The catalogs between any two statements.
Catalogs ==
  /\ local \subseteq user
  /\ \A n \in Node : n \in local <=> n \in known[n]
  /\ \A n \in Node : sub[<<n, n>>] = "none"
  /\ \A pr \in slot : pr[1] \in local
  /\ SubscriptionsStayVisible

\* What was there when the run planned, and stays while the run goes on.
Stays(id) ==
  \/ id[1] = "user" /\ id[2] \in user
  \/ id[1] = "node" /\ id[2] \in local
  \/ id[1] \in {"slot", "subscription"}

\* Creates are of what is desired, after what it depends on.
Gated ==
  \A n \in DOMAIN phases : \A e \in phases[n] : e[1] = "create" =>
    /\ e[2] \in DesiredIds(cfg)
    /\ \A d \in Dependencies(cfg, e[2]) : Earlier(n, <<"create", d>>) \/ Stays(d)

\* A row of an orphan goes after the orphan's subscription.
Cleaning ==
  \A n \in DOMAIN phases, o \in Node, s \in Node :
    <<"delete", <<"orphan", o, s>>>> \in phases[n] =>
      o \notin cfg.nodes /\ s \in cfg.nodes /\ Earlier(n, <<"delete", Subscription(o, s)>>)

\* Updates are of subscriptions that are not dropped.
Mending ==
  \A n \in DOMAIN phases : \A e \in phases[n] : e[1] = "update" =>
    /\ e[2] \in DesiredIds(cfg) /\ e[2][1] = "subscription"
    /\ \A m \in DOMAIN phases : <<"delete", e[2]>> \notin phases[m]

\* Deletes run before creates.
DropsFirst ==
  \A m \in DOMAIN phases, n \in DOMAIN phases : \A d \in phases[m], e \in phases[n] :
    d[1] = "delete" /\ e[1] = "create" => m < n

\* What succeeded lasts.
Lasting ==
  \A n \in Node, s \in Node :
    /\ <<"create", User(n)>> \in done => n \in user
    /\ <<"create", SpockNode(n)>> \in done => n \in local
    /\ <<"delete", Subscription(n, s)>> \in done /\ n \notin cfg.nodes => sub[<<n, s>>] = "none"

\* What the mesh lacks is still to be done.
Promised ==
  result = "running" =>
    /\ \A n \in cfg.nodes :
         /\ n \in user \/ Due(<<"create", User(n)>>)
         /\ n \in local \/ Due(<<"create", SpockNode(n)>>)
    /\ \A p \in cfg.nodes, s \in cfg.nodes : p # s =>
         \/ Due(<<"create", Subscription(p, s)>>)
         \/ /\ ~Due(<<"delete", Subscription(p, s)>>)
            /\ sub[<<p, s>>] \in Enabled \/ Due(<<"update", Subscription(p, s)>>)
    /\ \A s \in cfg.nodes \ blind, o \in Node \ cfg.nodes :
         sub[<<o, s>>] = "none" \/ Due(<<"delete", Subscription(o, s)>>)

MeshInv ==
  /\ TypeOK /\ ConfigIs /\ Barrier /\ Catalogs
  /\ Gated /\ Cleaning /\ Mending /\ DropsFirst
  /\ Lasting /\ Promised /\ SuccessMeansMeshed

\* The run that adds a node, if the bootstrap blocks are gone by the next one:
\* the node starts without catalogs, and nothing is taken for a repair.
FirstRun ==
  \A n \in NewNodes(cfg) :
    /\ started => n \notin user
    /\ sub[<<cfg.source[n], n>>] \in {"none", "copying", "replicating"}
    /\ \A m \in DOMAIN phases, s \in Node :
         {<<"update", Subscription(s, n)>>, <<"update", Subscription(n, s)>>} \intersect phases[m] = {}

\* Nodes are added from nodes that hold the data.
SourcesHoldData == \A n \in NewNodes(cfg) : cfg.source[n] \in seeded

\* The copy of the data is made, or still to be waited for.
Copying ==
  \A n \in NewNodes(cfg) :
    /\ sub[<<cfg.source[n], n>>] = "replicating" => n \in seeded
    /\ <<"create", WaitForSync(cfg.source[n], n)>> \in done => n \in seeded
    /\ result = "running" =>
         n \in seeded \/ Due(<<"create", WaitForSync(cfg.source[n], n)>>)

FillInv == FirstRun /\ Copying /\ AddedNodesHoldData

-----------------------------------------------------------------------------
(* The plan.                                                               *)

\* The plans of a run whose scans miss some of the orphans.
Actual(missed) == Present \union Orphans(missed)

PlansFor(missed) ==
  LET desired == DesiredIds(cfg)
      actual  == Present \union Orphans(missed)
      idOf    == [k \in actual \union desired |-> Identifier(k)]
      deps    == [k \in actual \union desired |-> Deps(k)]
  IN  Plans(actual, desired, NeedsRecreate, NeedsUpdate, idOf, deps)

\* What it deletes, updates and creates, by the statuses.
ToDelete(missed) == Orphans(missed) \union NeedsRecreate
ToUpdate         == NeedsUpdate \ NeedsRecreate
ToCreate         == (DesiredIds(cfg) \ Present) \union NeedsRecreate

\* A row of spock.node of a removed node.
LEMMA RowsOfOrphans ==
  ASSUME NEW o \in Node \ cfg.nodes, NEW s \in cfg.nodes, o \in known[s]
  PROVE  <<"orphan", o, s>> \in OrphanNodes
<1> DEFINE pr == <<o, s>>
<1>1. pr \in {q \in Node \X cfg.nodes : q[1] \in known[q[2]] \ cfg.nodes}
    OBVIOUS
<1>2. <<"orphan", o, s>> = <<"orphan", pr[1], pr[2]>>
    OBVIOUS
<1> QED
    BY <1>1, <1>2 DEF OrphanNodes

\* The scans that can miss something are finitely many: two for each survivor.
LEMMA ScansAreFew ==
  ASSUME ConfigIs, NEW missed \in SUBSET (OrphanNodes \union OrphanSlots)
  PROVE  Cardinality({Scan(k) : k \in missed}) \in Nat
<1> DEFINE Scans == {"orphan", "slot"} \X cfg.nodes
<1>1. \A k \in missed : Scan(k) \in Scans
  <2>1. \A k \in OrphanNodes : k[1] = "orphan" /\ k[3] \in cfg.nodes
      BY DEF OrphanNodes
  <2>2. \A k \in OrphanSlots : k[1] = "slot" /\ k[2] \in cfg.nodes
      BY DEF OrphanSlots, Slot
  <2> QED
      BY <2>1, <2>2 DEF Scan
<1>2. IsFiniteSet({"orphan", "slot"}) /\ IsFiniteSet(cfg.nodes)
  <2>1. IsFiniteSet({"orphan"})
      BY FS_Singleton
  <2> QED
      BY <2>1, FS_AddElement DEF ConfigIs, IsConfig
<1>3. IsFiniteSet(Scans)
    BY <1>2, FS_Product
<1>4. IsFiniteSet({Scan(k) : k \in missed})
    BY <1>1, <1>3, FS_Subset
<1> QED
    BY <1>4, FS_CardinalityType

\* What a run can find of removed nodes.
LEMMA OrphansAre ==
  ASSUME NEW missed
  PROVE  \A k : k \in Orphans(missed) <=>
           \/ \E o \in Node, s \in cfg.nodes :
                /\ o \in known[s] /\ o \notin cfg.nodes /\ <<"orphan", o, s>> \notin missed
                /\ k \in {<<"orphan", o, s>>, Subscription(o, s)}
           \/ \E pr \in slot :
                /\ pr[1] \in cfg.nodes /\ pr[2] \notin cfg.nodes
                /\ k = Slot(pr[1], pr[2]) /\ k \notin missed
<1> DEFINE Seen == OrphanNodes \ missed
<1>1. \A k : k \in Seen <=>
        \E o \in Node, s \in cfg.nodes :
          o \in known[s] /\ o \notin cfg.nodes /\ k = <<"orphan", o, s>> /\ k \notin missed
  <2> TAKE k
  <2>1. ASSUME NEW o \in Node, NEW s \in cfg.nodes, o \in known[s], o \notin cfg.nodes,
               k = <<"orphan", o, s>>, k \notin missed
        PROVE  k \in Seen
      BY <2>1, RowsOfOrphans
  <2>2. ASSUME k \in Seen
        PROVE  \E o \in Node, s \in cfg.nodes :
                 o \in known[s] /\ o \notin cfg.nodes /\ k = <<"orphan", o, s>> /\ k \notin missed
    <3>1. PICK pr \in {q \in Node \X cfg.nodes : q[1] \in known[q[2]] \ cfg.nodes} :
            k = <<"orphan", pr[1], pr[2]>>
        BY <2>2 DEF OrphanNodes
    <3> QED
        BY <2>2, <3>1
  <2> QED
      BY <2>1, <2>2
<1>2. \A k : k \in OrphanSlots \ missed <=>
        \E pr \in slot : /\ pr[1] \in cfg.nodes /\ pr[2] \notin cfg.nodes
                         /\ k = Slot(pr[1], pr[2]) /\ k \notin missed
    BY DEF OrphanSlots
<1>3. \A k : k \in {Subscription(q[2], q[3]) : q \in Seen} <=>
        \E o \in Node, s \in cfg.nodes :
          /\ o \in known[s] /\ o \notin cfg.nodes /\ <<"orphan", o, s>> \notin missed
          /\ k = Subscription(o, s)
  <2> TAKE k
  <2>1. k \in {Subscription(q[2], q[3]) : q \in Seen} <=> \E q \in Seen : k = Subscription(q[2], q[3])
      OBVIOUS
  <2>2. ASSUME NEW o \in Node, NEW s \in cfg.nodes, o \in known[s], o \notin cfg.nodes,
               <<"orphan", o, s>> \notin missed, k = Subscription(o, s)
        PROVE  \E q \in Seen : k = Subscription(q[2], q[3])
    <3> DEFINE q == <<"orphan", o, s>>
    <3>1. q \in Seen
        BY <1>1, <2>2
    <3>2. k = Subscription(q[2], q[3])
        BY <2>2
    <3> HIDE DEF Seen, q
    <3> QED
        BY <3>1, <3>2
  <2>3. ASSUME NEW q \in Seen, k = Subscription(q[2], q[3])
        PROVE  \E o \in Node, s \in cfg.nodes :
                 /\ o \in known[s] /\ o \notin cfg.nodes /\ <<"orphan", o, s>> \notin missed
                 /\ k = Subscription(o, s)
    <3>1. PICK o \in Node, s \in cfg.nodes :
            o \in known[s] /\ o \notin cfg.nodes /\ q = <<"orphan", o, s>> /\ q \notin missed
        BY <1>1, <2>3
    <3> QED
        BY <2>3, <3>1
  <2> HIDE DEF Seen
  <2> QED
      BY <2>1, <2>2, <2>3
<1>4. Orphans(missed) = Seen \union {Subscription(q[2], q[3]) : q \in Seen}
                          \union (OrphanSlots \ missed)
    BY DEF Orphans
<1> HIDE DEF Seen
<1> TAKE k
<1>5. k \in Orphans(missed) <=> \/ k \in Seen
                                \/ k \in {Subscription(q[2], q[3]) : q \in Seen}
                                \/ k \in OrphanSlots \ missed
    BY <1>4
<1> QED
    BY <1>1, <1>2, <1>3, <1>5

\* An orphan node or subscription comes from a row that was read, an orphan
\* slot leads to a node that is not configured.
LEMMA OrphanKeys ==
  ASSUME NEW missed, NEW k \in Orphans(missed)
  PROVE  \/ /\ k[1] \in {"orphan", "subscription"} /\ k[2] \notin cfg.nodes /\ k[3] \in cfg.nodes
            /\ k[2] \in known[k[3]] /\ <<"orphan", k[2], k[3]>> \notin missed
         \/ \E pr \in slot : pr[2] \notin cfg.nodes /\ k = Slot(pr[1], pr[2])
<1>1. CASE \E o \in Node, s \in cfg.nodes :
             /\ o \in known[s] /\ o \notin cfg.nodes /\ <<"orphan", o, s>> \notin missed
             /\ k \in {<<"orphan", o, s>>, Subscription(o, s)}
  <2>1. PICK o \in Node, s \in cfg.nodes :
             /\ o \in known[s] /\ o \notin cfg.nodes /\ <<"orphan", o, s>> \notin missed
             /\ k \in {<<"orphan", o, s>>, Subscription(o, s)}
      BY <1>1
  <2>2. k[1] \in {"orphan", "subscription"} /\ k[2] = o /\ k[3] = s
      BY <2>1 DEF Subscription
  <2> QED
      BY <2>1, <2>2
<1>2. CASE \E pr \in slot : pr[2] \notin cfg.nodes /\ k = Slot(pr[1], pr[2])
    BY <1>2
<1> QED
    BY <1>1, <1>2, OrphansAre

\* The keys of both maps, and which of them the three lists hold.
LEMMA KeysOfTheMaps ==
  ASSUME TypeOK, ConfigIs, NEW missed
  PROVE  /\ Orphans(missed) \subseteq Keys /\ DesiredIds(cfg) \subseteq Keys
         /\ Orphans(missed) \intersect DesiredIds(cfg) = {}
         /\ Present \subseteq DesiredIds(cfg)
         /\ NeedsRecreate \subseteq Present /\ NeedsUpdate \subseteq Present
         /\ \A k \in DesiredIds(cfg) : k[1] # "orphan" /\ k[2] \in cfg.nodes /\ k[3] \in cfg.nodes
         /\ \A k \in Orphans(missed) : k[1] \in {"orphan", "subscription", "slot"}
         /\ \A k \in NeedsRecreate : k[1] = "subscription"
         /\ Deletes(Actual(missed), DesiredIds(cfg), NeedsRecreate) = ToDelete(missed)
         /\ Updates(Actual(missed), DesiredIds(cfg), NeedsRecreate, NeedsUpdate) = ToUpdate
         /\ Creates(Actual(missed), DesiredIds(cfg), NeedsRecreate) = ToCreate
<1> DEFINE desired == DesiredIds(cfg)
<1>1. desired \in SUBSET ((Kinds \ {"orphan"}) \X cfg.nodes \X cfg.nodes)
    BY DesiredAreKeys DEF ConfigIs
<1>2. Keys = Kinds \X Node \X Node /\ cfg.nodes \subseteq Node
    BY DEF Keys, Kinds, ConfigIs
<1>3. \A k \in desired : k[1] # "orphan" /\ k[2] \in cfg.nodes /\ k[3] \in cfg.nodes
    BY <1>1
<1>4. desired \subseteq Keys
    BY <1>1, <1>2
<1>5. ASSUME NEW k \in Orphans(missed)
      PROVE  /\ k \in Keys /\ k[1] \in {"orphan", "subscription", "slot"}
             /\ k[2] \notin cfg.nodes \/ k[3] \notin cfg.nodes
  <2>1. CASE \E o \in Node, s \in cfg.nodes :
               /\ o \in known[s] /\ o \notin cfg.nodes /\ <<"orphan", o, s>> \notin missed
               /\ k \in {<<"orphan", o, s>>, Subscription(o, s)}
    <3>1. PICK o \in Node, s \in cfg.nodes :
               /\ o \notin cfg.nodes
               /\ k \in {<<"orphan", o, s>>, Subscription(o, s)}
        BY <2>1
    <3> QED
        BY <1>2, <3>1 DEF Subscription, Kinds
  <2>2. CASE \E pr \in slot :
               /\ pr[1] \in cfg.nodes /\ pr[2] \notin cfg.nodes
               /\ k = Slot(pr[1], pr[2]) /\ k \notin missed
    <3>1. PICK pr \in slot : pr[2] \notin cfg.nodes /\ k = Slot(pr[1], pr[2])
        BY <2>2
    <3>2. pr[1] \in Node /\ pr[2] \in Node
        BY DEF TypeOK, Pairs
    <3> QED
        BY <1>2, <3>1, <3>2 DEF Slot, Kinds
  <2> QED
      BY <2>1, <2>2, OrphansAre
<1>6. Orphans(missed) \intersect desired = {}
    BY <1>3, <1>5
<1>7. Present \subseteq desired /\ NeedsRecreate \subseteq Present /\ NeedsUpdate \subseteq Present
        /\ \A k \in NeedsRecreate : k[1] = "subscription"
    BY DEF Present, NeedsRecreate, NeedsUpdate
<1> HIDE DEF desired
<1>8. /\ Deletes(Actual(missed), desired, NeedsRecreate) = ToDelete(missed)
      /\ Updates(Actual(missed), desired, NeedsRecreate, NeedsUpdate) = ToUpdate
    BY <1>6, <1>7 DEF Deletes, Updates, Actual, ToDelete, ToUpdate
<1>9. Creates(Actual(missed), desired, NeedsRecreate) = ToCreate
    BY <1>6, <1>7 DEF Creates, Actual, ToCreate, desired
<1> QED
    BY <1>3, <1>4, <1>5, <1>6, <1>7, <1>8, <1>9 DEF desired

\* The rank of a desired resource is a number.
LEMMA RanksAreNumbers ==
  ASSUME NEW c, IsConfig(c), OneNew(c) PROVE \A k \in DesiredIds(c) : Rank(c, k) \in Nat
<1>1. \A k \in DesiredIds(c) : k[1] \in Kinds \ {"orphan"}
    BY DesiredAreKeys
<1> QED
    BY <1>1 DEF Rank, Kinds

\* No subscription depends on another one, whatever is new.
LEMMA SubscriptionsDoNotWait ==
  ASSUME NEW c, NEW k, k[1] = "subscription"
  PROVE  \A d \in Dependencies(c, k) : d[1] # "subscription"
<1>1. Dependencies(c, k) = {SpockNode(k[2]), SpockNode(k[3]), Slot(k[2], k[3])}
         \union (IF {k[2], k[3]} \subseteq c.nodes THEN SubscriptionGates(c, k[2], k[3]) ELSE {})
    BY DEF Dependencies, SubscriptionDeps
<1>2. \A d \in SubscriptionGates(c, k[2], k[3]) :
        d[1] \in {"wait_for_sync_event", "peer_catchup", "origin_advance"}
    BY DEF SubscriptionGates, PeerDeps, WaitForSync, PeerCatchup, OriginAdvance
<1> QED
    BY <1>1, <1>2 DEF SpockNode, Slot

\* A plan deletes all it has to but some rows of orphans.
PlanOf(p, missed, W, down, up) ==
  /\ W \in SUBSET ToDelete(missed)
  /\ \A k \in ToDelete(missed) : k[1] # "orphan" => k \in W
  /\ IsPlan(p, W, ToUpdate, ToCreate, down, up)
  /\ \A j \in W, k \in W : Identifier(k) \in Deps(j) => <<j, k>> \in down
  /\ \A j, k : <<j, k>> \in up <=> j \in ToCreate /\ k \in ToCreate /\ j \in Dependencies(cfg, k)

\* Every plan of a run is one of these: IsPlan (PlanProofs.tla) of the three
\* lists, since neither dependencies nor their reversal have a cycle.
LEMMA PlanIs ==
  ASSUME TypeOK, ConfigIs, NEW missed, NEW p \in PlansFor(missed)
  PROVE  \E W, down, up : PlanOf(p, missed, W, down, up)
<1> DEFINE desired == DesiredIds(cfg)
           actual  == Present \union Orphans(missed)
           idOf    == [k \in actual \union desired |-> Identifier(k)]
           deps    == [k \in actual \union desired |-> Deps(k)]
           upRank  == [k \in ToCreate |-> Rank(cfg, k)]
           downRank == [k \in ToDelete(missed) |->
                          IF k[1] = "orphan" THEN 2 ELSE IF k[1] = "slot" THEN 1 ELSE 0]
<1>1. /\ Orphans(missed) \subseteq Keys /\ desired \subseteq Keys
      /\ Present \subseteq desired /\ NeedsRecreate \subseteq Present
      /\ \A k \in desired : k[1] # "orphan"
      /\ \A k \in Orphans(missed) : k[1] \in {"orphan", "subscription", "slot"}
      /\ \A k \in NeedsRecreate : k[1] = "subscription"
      /\ Deletes(actual, desired, NeedsRecreate) = ToDelete(missed)
      /\ Updates(actual, desired, NeedsRecreate, NeedsUpdate) = ToUpdate
      /\ Creates(actual, desired, NeedsRecreate) = ToCreate
    BY KeysOfTheMaps DEF Actual
<1>2. IsFiniteSet(actual) /\ IsFiniteSet(desired)
  <2>1. IsFiniteSet(Kinds \X Node \X Node)
      BY KeysAreFinite, MeshAssumption
  <2>2. Keys = Kinds \X Node \X Node
      BY DEF Keys, Kinds
  <2>3. actual \subseteq Keys
      BY <1>1
  <2> HIDE DEF actual, desired
  <2> QED
      BY <1>1, <2>1, <2>2, <2>3, FS_Subset
<1>3. ToCreate \subseteq desired /\ ToDelete(missed) \subseteq actual
        /\ \A k \in ToDelete(missed) : k[1] \in {"orphan", "subscription", "slot"}
    BY <1>1 DEF ToCreate, ToDelete
<1>4. \A k \in actual \union desired : idOf[k] = Identifier(k) /\ deps[k] = Deps(k)
    OBVIOUS
<1>5. \A k \in desired : Identifier(k) = k /\ Deps(k) = Dependencies(cfg, k)
    BY <1>1 DEF Identifier, Deps
<1>6. p \in Plans(actual, desired, NeedsRecreate, NeedsUpdate, idOf, deps)
    BY DEF PlansFor
<1>7. \A k \in desired : \A j \in Dependencies(cfg, k) : Rank(cfg, j) < Rank(cfg, k)
    BY DependenciesAreRanked DEF ConfigIs
<1>8. \A k \in desired : Rank(cfg, k) \in Nat
    BY RanksAreNumbers DEF ConfigIs
<1> HIDE DEF desired, actual
<1>9. upRank \in [ToCreate -> Nat]
    BY <1>3, <1>8
<1>10. downRank \in [ToDelete(missed) -> Nat]
    OBVIOUS
<1> HIDE DEF idOf, deps
<1>11. \A j \in ToCreate, k \in ToCreate : idOf[j] \in deps[k] => upRank[j] < upRank[k]
    BY <1>3, <1>4, <1>5, <1>7
<1>12. ASSUME NEW j \in ToDelete(missed), NEW k \in ToDelete(missed), idOf[k] \in deps[j]
       PROVE  downRank[j] < downRank[k]
  <2>1. Identifier(k) \in Deps(j)
      BY <1>3, <1>4, <1>12
  <2>2. Identifier(k)[1] = (IF k[1] = "orphan" THEN "node" ELSE k[1])
      BY DEF Identifier, SpockNode
  <2>3. CASE j[1] = "orphan"
      BY <1>3, <2>1, <2>2, <2>3 DEF Deps, NodeDeps, User
  <2>4. CASE j[1] = "slot"
    <3>1. Deps(j) = {SpockNode(j[2])}
        BY <2>4 DEF Deps, Dependencies, SlotDeps
    <3>2. Identifier(k)[1] = "node"
        BY <2>1, <3>1 DEF SpockNode
    <3> QED
        BY <1>3, <2>2, <2>4, <3>2
  <2>5. CASE j[1] = "subscription"
    <3>1. \A d \in Deps(j) : d[1] # "subscription"
        BY <2>5, SubscriptionsDoNotWait DEF Deps
    <3>2. k[1] \in {"orphan", "slot"}
        BY <1>3, <2>1, <2>2, <3>1
    <3> QED
        BY <2>5, <3>2
  <2> QED
      BY <1>3, <2>3, <2>4, <2>5
<1> HIDE DEF upRank, downRank
<1>13. \E W \in Kept(Deletes(actual, desired, NeedsRecreate), idOf) :
         IsPlan(p, W, Updates(actual, desired, NeedsRecreate, NeedsUpdate),
                Creates(actual, desired, NeedsRecreate),
                Order(W, TRUE, idOf, deps),
                Order(Creates(actual, desired, NeedsRecreate), FALSE, idOf, deps))
    BY <1>1, <1>2, <1>6, <1>9, <1>10, <1>11, <1>12, PlansAreOrdered
<1>14. PICK W \in Kept(ToDelete(missed), idOf) :
         IsPlan(p, W, ToUpdate, ToCreate, Order(W, TRUE, idOf, deps),
                Order(ToCreate, FALSE, idOf, deps))
    BY <1>1, <1>13
<1>15. W \in SUBSET ToDelete(missed)
    BY <1>14 DEF Kept
<1>16. ASSUME NEW k \in ToDelete(missed), k[1] # "orphan" PROVE k \in W
  <2>1. PICK w \in W : idOf[w] = idOf[k]
      BY <1>14 DEF Kept
  <2>2. Identifier(w) = k
      BY <1>3, <1>4, <1>15, <1>16, <2>1 DEF Identifier
  <2>3. w[1] # "orphan"
      BY <1>3, <1>16, <2>2 DEF Identifier, SpockNode
  <2> QED
      BY <2>2, <2>3 DEF Identifier
<1>17. \A j \in W, k \in W : Identifier(k) \in Deps(j) => <<j, k>> \in Order(W, TRUE, idOf, deps)
  <2>1. \A j \in W : idOf[j] = Identifier(j) /\ deps[j] = Deps(j)
      BY <1>3, <1>4, <1>15
  <2>2. \A j, k : <<j, k>> \in Order(W, TRUE, idOf, deps)
                    <=> j \in W /\ k \in W /\ idOf[k] \in deps[j]
      BY OrderIs
  <2> QED
      BY <2>1, <2>2
<1>18. \A j, k : <<j, k>> \in Order(ToCreate, FALSE, idOf, deps)
                   <=> j \in ToCreate /\ k \in ToCreate /\ j \in Dependencies(cfg, k)
  <2>1. \A j \in ToCreate : idOf[j] = j /\ deps[j] = Dependencies(cfg, j)
      BY <1>3, <1>4, <1>5
  <2>2. \A j, k : <<j, k>> \in Order(ToCreate, FALSE, idOf, deps)
                    <=> j \in ToCreate /\ k \in ToCreate /\ idOf[j] \in deps[k]
      BY OrderIs
  <2> TAKE j, k
  <2>3. j \in ToCreate /\ k \in ToCreate => idOf[j] = j /\ deps[k] = Dependencies(cfg, k)
      BY <2>1
  <2> QED
      BY <2>2, <2>3
<1>19. PlanOf(p, missed, W, Order(W, TRUE, idOf, deps), Order(ToCreate, FALSE, idOf, deps))
    BY <1>14, <1>15, <1>16, <1>17, <1>18 DEF PlanOf
<1> QED
    BY <1>19

\* What the events of a plan are, and when they come.
LEMMA EventsOfPlan ==
  ASSUME TypeOK, ConfigIs, NEW missed, NEW p \in PlansFor(missed)
  PROVE  /\ p \in Seq(SUBSET ({"create", "update", "delete"} \X Keys))
         /\ \A n \in DOMAIN p, m \in DOMAIN p : m < n => p[m] \intersect p[n] = {}
         /\ \A k \in ToCreate : \E n \in DOMAIN p : <<"create", k>> \in p[n]
         /\ \A k \in ToUpdate : \E n \in DOMAIN p : <<"update", k>> \in p[n]
         /\ \A k \in ToDelete(missed) : k[1] # "orphan" => \E n \in DOMAIN p : <<"delete", k>> \in p[n]
         /\ \A n \in DOMAIN p : \A e \in p[n] :
              \/ e = <<"create", e[2]>> /\ e[2] \in ToCreate
              \/ e = <<"update", e[2]>> /\ e[2] \in ToUpdate
              \/ e = <<"delete", e[2]>> /\ e[2] \in ToDelete(missed)
         /\ \A n \in DOMAIN p : \A k \in ToCreate : <<"create", k>> \in p[n] =>
              \A d \in Dependencies(cfg, k) : d \in ToCreate =>
                \E m \in 1 .. n - 1 : <<"create", d>> \in p[m]
         /\ \A m \in DOMAIN p, n \in DOMAIN p : \A d \in p[m], e \in p[n] :
              d[1] = "delete" /\ e[1] = "create" => m < n
         /\ \A n \in DOMAIN p, o \in Node, s \in Node : <<"delete", <<"orphan", o, s>>>> \in p[n] =>
              /\ o \notin cfg.nodes /\ s \in cfg.nodes
              /\ \E m \in 1 .. n - 1 : <<"delete", Subscription(o, s)>> \in p[m]
<1>1. PICK W, down, up : PlanOf(p, missed, W, down, up)
    BY PlanIs
<1>2. /\ W \in SUBSET ToDelete(missed)
      /\ \A k \in ToDelete(missed) : k[1] # "orphan" => k \in W
      /\ IsPlan(p, W, ToUpdate, ToCreate, down, up)
      /\ \A j \in W, k \in W : Identifier(k) \in Deps(j) => <<j, k>> \in down
      /\ \A j, k : <<j, k>> \in up <=> j \in ToCreate /\ k \in ToCreate /\ j \in Dependencies(cfg, k)
    BY <1>1 DEF PlanOf
<1>3. ToCreate \subseteq Keys /\ ToUpdate \subseteq Keys /\ ToDelete(missed) \subseteq Keys
    BY KeysOfTheMaps DEF ToCreate, ToUpdate, ToDelete
<1>4. p \in Seq(SUBSET (({"delete"} \X W) \union ({"update"} \X ToUpdate)
                         \union ({"create"} \X ToCreate)))
    BY <1>2 DEF IsPlan
<1>5. p \in Seq(SUBSET ({"create", "update", "delete"} \X Keys))
  <2> DEFINE X == ({"delete"} \X W) \union ({"update"} \X ToUpdate) \union ({"create"} \X ToCreate)
             Y == {"create", "update", "delete"} \X Keys
  <2>1. X \subseteq Y
      BY <1>2, <1>3
  <2>2. p \in Seq(SUBSET X)
      BY <1>4
  <2> HIDE DEF X, Y
  <2>3. Len(p) \in Nat /\ p \in [1 .. Len(p) -> SUBSET X]
      BY <2>2
  <2>4. p \in [1 .. Len(p) -> SUBSET Y]
      BY <2>1, <2>3
  <2>5. p \in Seq(SUBSET Y)
      BY <2>3, <2>4
  <2> QED
      BY <2>5 DEF Y
<1>6. ASSUME NEW n \in DOMAIN p, NEW e \in p[n]
      PROVE  \/ e = <<"create", e[2]>> /\ e[2] \in ToCreate
             \/ e = <<"update", e[2]>> /\ e[2] \in ToUpdate
             \/ e = <<"delete", e[2]>> /\ e[2] \in ToDelete(missed)
  <2>1. e \in ({"delete"} \X W) \union ({"update"} \X ToUpdate) \union ({"create"} \X ToCreate)
      BY <1>4
  <2> QED
      BY <1>2, <2>1
<1>7. /\ \A n \in DOMAIN p, m \in DOMAIN p : m < n => p[m] \intersect p[n] = {}
      /\ \A k \in ToCreate : \E n \in DOMAIN p : <<"create", k>> \in p[n]
      /\ \A k \in ToUpdate : \E n \in DOMAIN p : <<"update", k>> \in p[n]
      /\ \A k \in W : \E n \in DOMAIN p : <<"delete", k>> \in p[n]
    BY <1>2 DEF IsPlan
<1>8. ASSUME NEW n \in DOMAIN p, NEW k \in ToCreate, <<"create", k>> \in p[n],
             NEW d \in Dependencies(cfg, k), d \in ToCreate
      PROVE  \E m \in 1 .. n - 1 : <<"create", d>> \in p[m]
  <2>1. <<d, k>> \in up
      BY <1>2, <1>8
  <2> QED
      BY <1>2, <1>8, <2>1 DEF IsPlan
<1>9. ASSUME NEW m \in DOMAIN p, NEW n \in DOMAIN p, NEW d \in p[m], NEW e \in p[n],
             d[1] = "delete", e[1] = "create"
      PROVE  m < n
  <2>1. d = <<"delete", d[2]>> /\ e = <<"create", e[2]>>
      BY <1>6, <1>9
  <2>2. <<"delete", d[2]>> \in p[m] /\ <<"create", e[2]>> \in p[n]
      BY <2>1
  <2> QED
      BY <1>2, <2>2 DEF IsPlan
<1>10. ASSUME NEW n \in DOMAIN p, NEW o \in Node, NEW s \in Node,
              <<"delete", <<"orphan", o, s>>>> \in p[n]
       PROVE  /\ o \notin cfg.nodes /\ s \in cfg.nodes
              /\ \E m \in 1 .. n - 1 : <<"delete", Subscription(o, s)>> \in p[m]
  <2> DEFINE row == <<"orphan", o, s>>
  <2>1. row \in W
    <3>1. <<"delete", row>> \in ({"delete"} \X W) \union ({"update"} \X ToUpdate)
                                  \union ({"create"} \X ToCreate)
        BY <1>4, <1>10
    <3> QED
        BY <3>1
  <2>2. row \in Orphans(missed)
    <3>1. row[1] = "orphan"
        OBVIOUS
    <3> HIDE DEF row
    <3> QED
        BY <1>2, <2>1, <3>1, KeysOfTheMaps DEF ToDelete
  <2>3. /\ o \in known[s] /\ o \notin cfg.nodes /\ s \in cfg.nodes /\ row \notin missed
    <3>1. row[1] = "orphan" /\ row[2] = o /\ row[3] = s /\ <<"orphan", o, s>> = row
        OBVIOUS
    <3>2. \A a, b : row # Slot(a, b)
        BY DEF Slot
    <3> HIDE DEF row
    <3> QED
        BY <2>2, <3>1, <3>2, OrphanKeys
  <2>4. Subscription(o, s) \in Orphans(missed)
      BY <2>3, OrphansAre
  <2>5. Subscription(o, s) \in W
      BY <1>2, <2>4 DEF ToDelete, Subscription
  <2>6. Identifier(row) \in Deps(Subscription(o, s))
    <3>1. Identifier(row) = SpockNode(o)
        BY DEF Identifier
    <3>2. Deps(Subscription(o, s)) = Dependencies(cfg, Subscription(o, s))
        BY DEF Deps, Subscription
    <3> QED
        BY <3>1, <3>2, DependenciesAre
  <2>7. <<Subscription(o, s), row>> \in down
      BY <1>2, <2>1, <2>5, <2>6
  <2>8. \E m \in 1 .. n - 1 : <<"delete", Subscription(o, s)>> \in p[m]
    <3> HIDE DEF row
    <3>1. <<"delete", row>> \in p[n]
        BY <1>10 DEF row
    <3> QED
        BY <1>2, <2>7, <3>1 DEF IsPlan
  <2> QED
      BY <2>3, <2>8
<1>11. \A k \in ToDelete(missed) : k[1] # "orphan" => \E n \in DOMAIN p : <<"delete", k>> \in p[n]
    BY <1>2, <1>7
<1> QED
    BY <1>5, <1>6, <1>7, <1>8, <1>9, <1>10, <1>11

-----------------------------------------------------------------------------
(* What a call changes.                                                    *)

NodesKept == UNCHANGED <<user, local, known>>
SlotsKept == UNCHANGED <<slot, seeded>>

\* What one call can change, for a provider p and a subscriber s.
Change(e, p, s) ==
  \/ UNCHANGED catalog
  \/ /\ e[1] = "create" /\ e[2][1] = "user" /\ e[2][2] = p
     /\ user' = user \union {p} /\ UNCHANGED <<local, known, sub>> /\ SlotsKept
  \/ /\ e[1] = "create" /\ e[2][1] = "node" /\ e[2][2] = s
     /\ local' = local \union {s} /\ Knows(s, s) /\ UNCHANGED <<user, sub>> /\ SlotsKept
  \/ /\ e = <<"create", Subscription(p, s)>> /\ sub[<<p, s>>] = "disabled"
     /\ SetSub(p, s, "initializing") /\ NodesKept /\ SlotsKept
  \/ /\ e = <<"create", Subscription(p, s)>> /\ sub[<<p, s>>] = "none"
     /\ SetSub(p, s, IF IsCopy(cfg, p, s) THEN "copying" ELSE "initializing")
     /\ Knows(s, p) /\ UNCHANGED <<user, local>> /\ SlotsKept
  \/ /\ e = <<"create", DisabledSub(p, s)>> /\ sub[<<p, s>>] = "none"
     /\ SetSub(p, s, "disabled")
     /\ Knows(s, p) /\ UNCHANGED <<user, local>> /\ SlotsKept
  \/ /\ e = <<"create", SlotCreate(p, s)>> /\ slot' = slot \union {<<p, s>>}
     /\ NodesKept /\ UNCHANGED <<sub, seeded>>
  \/ /\ e[1] = "update" /\ e[2][2] = p /\ e[2][3] = s /\ sub[<<p, s>>] # "none"
     /\ SetSub(p, s, IF sub[<<p, s>>] = "disabled" THEN "initializing" ELSE sub[<<p, s>>])
     /\ NodesKept /\ SlotsKept
  \/ /\ e = <<"delete", Subscription(p, s)>> /\ SetSub(p, s, "none")
     /\ NodesKept /\ SlotsKept
  \/ /\ e = <<"delete", Slot(p, s)>> /\ slot' = slot \ {<<p, s>>}
     /\ NodesKept /\ UNCHANGED <<sub, seeded>>
  \/ /\ e = <<"delete", <<"orphan", p, s>>>>
     /\ known' = [known EXCEPT ![s] = @ \ {p}] /\ UNCHANGED <<user, local, sub>> /\ SlotsKept

\* One call changes one thing.
LEMMA Effects ==
  ASSUME NEW e \in {"create", "update", "delete"} \X Keys, Effect(e)
  PROVE  \E p \in Node, s \in Node : Change(e, p, s)
<1> DEFINE k == e[2]
<1>1. e[1] \in {"create", "update", "delete"} /\ k \in Keys /\ e = <<e[1], k>>
    OBVIOUS
<1>2. k[2] \in Node /\ k[3] \in Node /\ k = <<k[1], k[2], k[3]>>
    BY <1>1 DEF Keys
<1> HIDE DEF k
<1> USE DEF NodesKept, SlotsKept, catalog, Change
<1>3. CASE e[1] = "create" /\ Create(k)
  <2>1. CASE k[1] = "user" /\ CreateUser(k[2])
      BY <1>2, <1>3, <2>1 DEF CreateUser, k
  <2>2. CASE k[1] = "node" /\ CreateNode(k[2])
      BY <1>2, <1>3, <2>2 DEF CreateNode, k
  <2>3. CASE k[1] = "subscription" /\ CreateSubscription(k[2], k[3])
    <3>1. e = <<"create", Subscription(k[2], k[3])>>
        BY <1>1, <1>2, <1>3, <2>3 DEF Subscription
    <3> QED
        BY <1>2, <2>3, <3>1 DEF CreateSubscription
  <2>4. CASE k[1] = "slot_create" /\ CreateSlot(k[2], k[3])
    <3>1. e = <<"create", SlotCreate(k[2], k[3])>>
        BY <1>1, <1>2, <1>3, <2>4 DEF SlotCreate
    <3> QED
        BY <1>2, <2>4, <3>1 DEF CreateSlot
  <2>5. CASE k[1] = "disabled_subscription" /\ CreateDisabledSub(k[2], k[3])
    <3>1. e = <<"create", DisabledSub(k[2], k[3])>>
        BY <1>1, <1>2, <1>3, <2>5 DEF DisabledSub
    <3> QED
        BY <1>2, <2>5, <3>1 DEF CreateDisabledSub
  <2>6. CASE UNCHANGED catalog
      BY <1>2, <2>6
  <2> QED
      BY <1>3, <2>1, <2>2, <2>3, <2>4, <2>5, <2>6
        DEF Create, CreateNoSlot, CreateWaitForSync, CreatePeerCatchup
<1>4. CASE e[1] = "update" /\ UpdateSubscription(k[2], k[3])
    BY <1>2, <1>4 DEF UpdateSubscription, k
<1>5. CASE e[1] = "delete" /\ Delete(k)
  <2>1. CASE k[1] = "subscription" /\ DeleteSubscription(k[2], k[3])
    <3>1. e = <<"delete", Subscription(k[2], k[3])>>
        BY <1>1, <1>2, <1>5, <2>1 DEF Subscription
    <3> QED
        BY <1>2, <2>1, <3>1 DEF DeleteSubscription
  <2>2. CASE k[1] = "slot" /\ DeleteSlot(k[2], k[3])
    <3>1. e = <<"delete", Slot(k[2], k[3])>>
        BY <1>1, <1>2, <1>5, <2>2 DEF Slot
    <3> QED
        BY <1>2, <2>2, <3>1 DEF DeleteSlot
  <2>3. CASE k[1] = "orphan" /\ DeleteNode(k[2], k[3])
    <3>1. e = <<"delete", <<"orphan", k[2], k[3]>>>>
        BY <1>1, <1>2, <1>5, <2>3
    <3> QED
        BY <1>2, <2>3, <3>1 DEF DeleteNode
  <2> QED
      BY <1>5, <2>1, <2>2, <2>3 DEF Delete
<1> QED
    BY <1>3, <1>4, <1>5 DEF Effect, k

\* One subscription.
LEMMA EffectOnSub ==
  ASSUME TypeOK, NEW e \in {"create", "update", "delete"} \X Keys, Effect(e),
         NEW p \in Node, NEW s \in Node
  PROVE  \/ sub'[<<p, s>>] = sub[<<p, s>>]
         \/ /\ e = <<"create", Subscription(p, s)>>
            /\ \/ sub[<<p, s>>] = "disabled" /\ sub'[<<p, s>>] = "initializing"
               \/ /\ sub[<<p, s>>] = "none"
                  /\ sub'[<<p, s>>] = (IF IsCopy(cfg, p, s) THEN "copying" ELSE "initializing")
         \/ /\ e = <<"create", DisabledSub(p, s)>>
            /\ sub[<<p, s>>] = "none" /\ sub'[<<p, s>>] = "disabled"
         \/ /\ e[1] = "update" /\ e[2][2] = p /\ e[2][3] = s
            /\ sub[<<p, s>>] = "disabled" /\ sub'[<<p, s>>] = "initializing"
         \/ e = <<"delete", Subscription(p, s)>> /\ sub'[<<p, s>>] = "none"
<1>1. \A q \in Node, r \in Node : <<p, s>> = <<q, r>> <=> p = q /\ s = r
    OBVIOUS
<1>2. ASSUME NEW q \in Node, NEW r \in Node, NEW state, SetSub(q, r, state)
      PROVE  sub'[<<p, s>>] = (IF p = q /\ s = r THEN state ELSE sub[<<p, s>>])
  <2>1. sub \in [Node \X Node -> SubState] /\ <<p, s>> \in Node \X Node /\ <<q, r>> \in Node \X Node
      BY DEF TypeOK
  <2> QED
      BY <1>1, <1>2, <2>1 DEF SetSub
<1>3. PICK q \in Node, r \in Node :
        \/ UNCHANGED sub
        \/ /\ e = <<"create", Subscription(q, r)>> /\ sub[<<q, r>>] = "disabled"
           /\ SetSub(q, r, "initializing")
        \/ /\ e = <<"create", Subscription(q, r)>> /\ sub[<<q, r>>] = "none"
           /\ SetSub(q, r, IF IsCopy(cfg, q, r) THEN "copying" ELSE "initializing")
        \/ /\ e = <<"create", DisabledSub(q, r)>> /\ sub[<<q, r>>] = "none"
           /\ SetSub(q, r, "disabled")
        \/ /\ e[1] = "update" /\ e[2][2] = q /\ e[2][3] = r
           /\ SetSub(q, r, IF sub[<<q, r>>] = "disabled" THEN "initializing" ELSE sub[<<q, r>>])
        \/ e = <<"delete", Subscription(q, r)>> /\ SetSub(q, r, "none")
  <2>1. PICK q \in Node, r \in Node : Change(e, q, r)
      BY Effects
  <2> QED
      BY <2>1 DEF Change, NodesKept, SlotsKept, catalog
<1>4. CASE p = q /\ s = r
    BY <1>2, <1>3, <1>4
<1>5. CASE ~(p = q /\ s = r)
    BY <1>2, <1>3, <1>5
<1> QED
    BY <1>4, <1>5

\* Desired slots and subscriptions are between two nodes.
LEMMA DesiredShapes ==
  ASSUME NEW c, IsConfig(c), OneNew(c), NEW p, NEW s
  PROVE  /\ Slot(p, s) \in DesiredIds(c) <=> p \in c.nodes /\ s \in c.nodes /\ p # s
         /\ Subscription(p, s) \in DesiredIds(c) <=> p \in c.nodes /\ s \in c.nodes /\ p # s
         /\ SlotCreate(p, s) \in DesiredIds(c) => s \in NewNodes(c) /\ p \in Peers(c, s) /\ p # s
         /\ DisabledSub(p, s) \in DesiredIds(c) => s \in NewNodes(c) /\ p \in Peers(c, s) /\ p # s
         /\ SpockNode(p) \in DesiredIds(c) <=> p \in c.nodes
         /\ User(p) \in DesiredIds(c) <=> p \in c.nodes
<1> USE DEF User, SpockNode, Slot, Subscription, SyncEvent, WaitForSync, SlotCreate, DisabledSub,
            PeerCatchup, LagTracker, SlotAdvance, OriginAdvance
<1>1. CASE NewNodes(c) = {}
    BY <1>1, DesiredWithoutNew
<1>2. CASE NewNodes(c) # {}
  <2>0. PICK new \in NewNodes(c) : TRUE
      BY <1>2
  <2> DEFINE src == c.source[new]
  <2>1. \A q \in Peers(c, new) : q # new
      BY GatesOfTheNewNode DEF GatesAre
  <2>2. \A k : k \in DesiredIds(c) <=>
           \/ \E n \in c.nodes : k \in {User(n), SpockNode(n)}
           \/ \E q \in c.nodes, r \in c.nodes : q # r /\ k \in {Slot(q, r), Subscription(q, r)}
           \/ k \in {SyncEvent(src, new), WaitForSync(src, new)}
           \/ \E q \in Peers(c, new) :
                k \in {SlotCreate(q, new), DisabledSub(q, new), SyncEvent(q, src),
                       WaitForSync(q, src), PeerCatchup(q, src), LagTracker(q, new),
                       SlotAdvance(q, new), OriginAdvance(q, new)}
      BY DesiredWithOneNew
  <2> QED
      BY <2>1, <2>2
<1> QED
    BY <1>1, <1>2

\* What a call can rely on.
LEMMA RunningEvent ==
  ASSUME MeshInv, NEW e \in running
  PROVE  /\ e \in {"create", "update", "delete"} \X Keys
         /\ e \notin done /\ result = "running" /\ ~started
         /\ phase \in DOMAIN phases /\ e \in phases[phase]
         /\ e[1] = "create" =>
              /\ e[2] \in DesiredIds(cfg)
              /\ \A d \in Dependencies(cfg, e[2]) : <<"create", d>> \in done \/ Stays(d)
              /\ \A n \in Node : SpockNode(n) \in Dependencies(cfg, e[2]) => n \in local
              /\ \A n \in Node : User(n) \in Dependencies(cfg, e[2]) => n \in user
              /\ \A m \in DOMAIN phases : \A d \in phases[m] : d[1] = "delete" => d \in done
         /\ e[1] = "update" =>
              e[2] \in DesiredIds(cfg) /\ e[2][1] = "subscription" /\ ~Due(<<"delete", e[2]>>)
         /\ \A o \in Node, s \in Node : e = <<"delete", <<"orphan", o, s>>>> =>
              o \notin cfg.nodes /\ s \in cfg.nodes /\ sub[<<o, s>>] = "none"
<1>1. phase \in DOMAIN phases /\ e \in phases[phase] /\ e \notin done
    BY DEF MeshInv, Barrier
<1>2. e \in {"create", "update", "delete"} \X Keys
    BY DEF MeshInv, TypeOK, Executor!TypeOK
<1>3. phase \in Nat /\ phases \in Seq(SUBSET ({"create", "update", "delete"} \X Keys))
    BY DEF MeshInv, TypeOK, Executor!TypeOK
<1>4. \A m \in 1 .. phase - 1 : m \in DOMAIN phases /\ phases[m] \subseteq done
  <2>1. \A m \in DOMAIN phases : m < phase => phases[m] \subseteq done
      BY DEF MeshInv, Barrier
  <2>2. \A m \in 1 .. phase - 1 : m \in DOMAIN phases /\ m < phase
      BY <1>1, <1>3
  <2> QED
      BY <2>1, <2>2
<1>5. \A d : Earlier(phase, d) => d \in done
    BY <1>4 DEF Earlier
<1>6. result = "running" /\ ~started
  <2>1. phases # <<>>
      BY <1>1
  <2> QED
      BY <2>1 DEF MeshInv, Barrier
<1>7. ASSUME e[1] = "create"
      PROVE  /\ e[2] \in DesiredIds(cfg)
             /\ \A d \in Dependencies(cfg, e[2]) : <<"create", d>> \in done \/ Stays(d)
    BY <1>1, <1>5, <1>7 DEF MeshInv, Gated
<1>8. ASSUME e[1] = "create", NEW n \in Node
      PROVE  /\ SpockNode(n) \in Dependencies(cfg, e[2]) => n \in local
             /\ User(n) \in Dependencies(cfg, e[2]) => n \in user
  <2>1. <<"create", User(n)>> \in done => n \in user
      BY DEF MeshInv, Lasting
  <2>2. <<"create", SpockNode(n)>> \in done => n \in local
      BY DEF MeshInv, Lasting
  <2> QED
      BY <1>7, <1>8, <2>1, <2>2 DEF Stays, SpockNode, User
<1>9. ASSUME e[1] = "create", NEW m \in DOMAIN phases, NEW d \in phases[m], d[1] = "delete"
      PROVE  d \in done
  <2>1. m < phase
      BY <1>1, <1>9 DEF MeshInv, DropsFirst
  <2> QED
      BY <2>1 DEF MeshInv, Barrier
<1>10. ASSUME e[1] = "update"
       PROVE  e[2] \in DesiredIds(cfg) /\ e[2][1] = "subscription" /\ ~Due(<<"delete", e[2]>>)
    BY <1>1, <1>10 DEF MeshInv, Mending, Due
<1>11. ASSUME NEW o \in Node, NEW s \in Node, e = <<"delete", <<"orphan", o, s>>>>
       PROVE  o \notin cfg.nodes /\ s \in cfg.nodes /\ sub[<<o, s>>] = "none"
  <2>1. o \notin cfg.nodes /\ s \in cfg.nodes /\ Earlier(phase, <<"delete", Subscription(o, s)>>)
      BY <1>1, <1>11 DEF MeshInv, Cleaning
  <2>2. <<"delete", Subscription(o, s)>> \in done
      BY <1>5, <2>1
  <2> QED
      BY <2>1, <2>2 DEF MeshInv, Lasting
<1> QED
    BY <1>1, <1>2, <1>6, <1>7, <1>8, <1>9, <1>10, <1>11

\* The catalogs after a call, whether or not its answer arrives.
LEMMA EffectOnCatalogs ==
  ASSUME MeshInv, NEW e \in running, Effect(e)
  PROVE  /\ user \subseteq user' /\ local \subseteq local' /\ seeded' = seeded
         /\ user' \subseteq Node /\ local' \subseteq Node
         /\ known' \in [Node -> SUBSET Node] /\ sub' \in [Node \X Node -> SubState]
         /\ slot' \subseteq Pairs(Node)
         /\ Catalogs'
<1>1. /\ e \in {"create", "update", "delete"} \X Keys
      /\ e[1] = "create" =>
           /\ e[2] \in DesiredIds(cfg)
           /\ \A n \in Node : SpockNode(n) \in Dependencies(cfg, e[2]) => n \in local
           /\ \A n \in Node : User(n) \in Dependencies(cfg, e[2]) => n \in user
      /\ \A o \in Node, s \in Node : e = <<"delete", <<"orphan", o, s>>>> =>
           o \notin cfg.nodes /\ s \in cfg.nodes /\ sub[<<o, s>>] = "none"
    BY RunningEvent
<1>2. /\ user \subseteq Node /\ local \subseteq Node /\ known \in [Node -> SUBSET Node]
      /\ sub \in [Node \X Node -> SubState] /\ slot \subseteq Pairs(Node) /\ cfg.nodes \subseteq Node
      /\ IsConfig(cfg) /\ OneNew(cfg)
    BY DEF MeshInv, TypeOK, ConfigIs
<1>3. /\ local \subseteq user
      /\ \A n \in Node : n \in local <=> n \in known[n]
      /\ \A n \in Node : sub[<<n, n>>] = "none"
      /\ \A pr \in slot : pr[1] \in local
      /\ \A p \in Node, s \in Node :
           sub[<<p, s>>] # "none" => s \in local /\ p \in known[s] /\ s \in known[s]
    BY DEF MeshInv, Catalogs, SubscriptionsStayVisible
<1>4. PICK p \in Node, s \in Node : Change(e, p, s)
    BY <1>1, Effects
<1> DEFINE Goal == /\ user \subseteq user' /\ local \subseteq local' /\ seeded' = seeded
                   /\ user' \subseteq Node /\ local' \subseteq Node
                   /\ known' \in [Node -> SUBSET Node] /\ sub' \in [Node \X Node -> SubState]
                   /\ slot' \subseteq Pairs(Node)
                   /\ Catalogs'
\* One subscription is set to a state.
<1>5. ASSUME NEW state \in SubState, SetSub(p, s, state)
      PROVE  /\ sub' \in [Node \X Node -> SubState]
             /\ sub'[<<p, s>>] = state
             /\ \A q \in Node, r \in Node :
                  ~(q = p /\ r = s) => sub'[<<q, r>>] = sub[<<q, r>>]
  <2>1. \A q \in Node, r \in Node : <<q, r>> = <<p, s>> <=> q = p /\ r = s
      OBVIOUS
  <2> QED
      BY <1>2, <1>5, <2>1 DEF SetSub
<1>6. ASSUME NEW n \in Node, Knows(s, n)
      PROVE  /\ known' \in [Node -> SUBSET Node]
             /\ known'[s] = known[s] \union {n} /\ \A r \in Node : r # s => known'[r] = known[r]
    BY <1>2, <1>6 DEF Knows
<1> USE DEF NodesKept, SlotsKept, Catalogs, SubscriptionsStayVisible
<1>7. CASE UNCHANGED catalog
    BY <1>2, <1>3, <1>7 DEF catalog
<1>8. CASE /\ user' = user \union {p} /\ UNCHANGED <<local, known, sub>> /\ SlotsKept
    BY <1>2, <1>3, <1>8
<1>9. CASE /\ e[1] = "create" /\ e[2][1] = "node" /\ e[2][2] = s
           /\ local' = local \union {s} /\ Knows(s, s) /\ UNCHANGED <<user, sub>> /\ SlotsKept
  <2>1. s \in user
    <3>1. User(s) \in Dependencies(cfg, e[2])
        BY <1>9 DEF Dependencies, NodeDeps
    <3> QED
        BY <1>1, <1>9, <3>1
  <2> QED
      BY <1>2, <1>3, <1>6, <1>9, <2>1
<1>10. CASE /\ sub[<<p, s>>] # "none" /\ UNCHANGED <<user, local, known>> /\ SlotsKept
            /\ \E state \in SubState : SetSub(p, s, state)
    BY <1>2, <1>3, <1>5, <1>10
<1>11. CASE /\ e \in {<<"create", Subscription(p, s)>>, <<"create", DisabledSub(p, s)>>}
            /\ \E state \in SubState : SetSub(p, s, state)
            /\ Knows(s, p) /\ UNCHANGED <<user, local>> /\ SlotsKept
  <2>1. p # s
      BY <1>1, <1>2, <1>11, DesiredShapes
  <2>2. s \in local
    <3>1. SpockNode(s) \in Dependencies(cfg, e[2])
        BY <1>11, DependenciesAre
    <3> QED
        BY <1>1, <1>11, <3>1
  <2>3. /\ known' \in [Node -> SUBSET Node]
        /\ known'[s] = known[s] \union {p} /\ \A r \in Node : r # s => known'[r] = known[r]
      BY <1>6, <1>11
  <2>4. PICK state \in SubState : SetSub(p, s, state)
      BY <1>11
  <2>5. /\ sub' \in [Node \X Node -> SubState]
        /\ \A q \in Node, r \in Node : ~(q = p /\ r = s) => sub'[<<q, r>>] = sub[<<q, r>>]
      BY <1>5, <2>4
  <2> QED
      BY <1>2, <1>3, <1>11, <2>1, <2>2, <2>3, <2>5
<1>12. CASE /\ e = <<"create", SlotCreate(p, s)>> /\ slot' = slot \union {<<p, s>>}
            /\ NodesKept /\ UNCHANGED <<sub, seeded>>
  <2>1. p # s
      BY <1>1, <1>2, <1>12, DesiredShapes
  <2>2. p \in local
    <3>1. SpockNode(p) \in Dependencies(cfg, e[2])
        BY <1>12, DependenciesAre
    <3> QED
        BY <1>1, <1>12, <3>1
  <2>3. slot' \subseteq Pairs(Node) /\ \A pr \in slot' : pr[1] \in local
      BY <1>2, <1>3, <1>12, <2>1, <2>2 DEF Pairs
  <2> QED
      BY <1>2, <1>3, <1>12, <2>3
<1>13. CASE SetSub(p, s, "none") /\ NodesKept /\ SlotsKept
  <2>1. "none" \in SubState
      BY DEF SubState
  <2> QED
      BY <1>2, <1>3, <1>5, <1>13, <2>1
<1>14. CASE slot' = slot \ {<<p, s>>} /\ NodesKept /\ UNCHANGED <<sub, seeded>>
    BY <1>2, <1>3, <1>14
<1>15. CASE /\ e = <<"delete", <<"orphan", p, s>>>>
            /\ known' = [known EXCEPT ![s] = @ \ {p}] /\ UNCHANGED <<user, local, sub>> /\ SlotsKept
  <2>1. p # s /\ sub[<<p, s>>] = "none"
      BY <1>1, <1>15
  <2>2. /\ known' \in [Node -> SUBSET Node]
        /\ known'[s] = known[s] \ {p} /\ \A r \in Node : r # s => known'[r] = known[r]
      BY <1>2, <1>15
  <2> QED
      BY <1>2, <1>3, <1>15, <2>1, <2>2
<1>16. sub[<<p, s>>] \in SubState /\ {"none", "disabled", "initializing", "copying"} \subseteq SubState
    BY <1>2 DEF SubState
<1> HIDE DEF NodesKept, Catalogs
<1> QED
    BY <1>4, <1>7, <1>8, <1>9, <1>10, <1>11, <1>12, <1>13, <1>14, <1>15, <1>16 DEF NodesKept, Change

\* What a call brings about, and what it leaves.
LEMMA EffectOnMesh ==
  ASSUME MeshInv, NEW e \in running, Effect(e)
  PROVE  /\ \A n \in Node : e = <<"create", User(n)>> => n \in user'
         /\ \A n \in Node : e = <<"create", SpockNode(n)>> => n \in local'
         /\ \A p \in Node, s \in Node :
              /\ e = <<"create", Subscription(p, s)>> => sub'[<<p, s>>] \in Enabled
              /\ e = <<"update", Subscription(p, s)>> => sub'[<<p, s>>] \in Enabled
              /\ e = <<"delete", Subscription(p, s)>> => sub'[<<p, s>>] = "none"
              /\ sub[<<p, s>>] = "none" /\ p \notin cfg.nodes => sub'[<<p, s>>] = "none"
              /\ sub[<<p, s>>] \in Enabled /\ e # <<"delete", Subscription(p, s)>>
                   => sub'[<<p, s>>] \in Enabled
<1>0. /\ e \in {"create", "update", "delete"} \X Keys
      /\ e[1] = "create" => e[2] \in DesiredIds(cfg)
    BY RunningEvent
<1>1. TypeOK /\ sub \in [Node \X Node -> SubState] /\ IsConfig(cfg) /\ OneNew(cfg)
    BY DEF MeshInv, TypeOK, ConfigIs
<1>2. ASSUME NEW n \in Node, e = <<"create", User(n)>> PROVE n \in user'
    BY <1>2 DEF Effect, Create, CreateUser, User, Positions
<1>3. ASSUME NEW n \in Node, e = <<"create", SpockNode(n)>> PROVE n \in local'
  <2>1. CreateNode(n)
      BY <1>3 DEF Effect, Create, SpockNode, Positions
  <2>2. n \in local <=> n \in known[n]
      BY DEF MeshInv, Catalogs
  <2> QED
      BY <2>1, <2>2 DEF CreateNode, catalog
<1>4. ASSUME NEW p \in Node, NEW s \in Node
      PROVE  /\ e = <<"create", Subscription(p, s)>> => sub'[<<p, s>>] \in Enabled
             /\ e = <<"update", Subscription(p, s)>> => sub'[<<p, s>>] \in Enabled
             /\ e = <<"delete", Subscription(p, s)>> => sub'[<<p, s>>] = "none"
             /\ sub[<<p, s>>] = "none" /\ p \notin cfg.nodes => sub'[<<p, s>>] = "none"
             /\ sub[<<p, s>>] \in Enabled /\ e # <<"delete", Subscription(p, s)>>
                  => sub'[<<p, s>>] \in Enabled
  <2>1. <<p, s>> \in Node \X Node /\ sub[<<p, s>>] \in {"none", "disabled"} \union Enabled
      BY <1>1 DEF SubState, Enabled
  <2>2. CASE e = <<"create", Subscription(p, s)>>
    <3>1. CreateSubscription(p, s)
        BY <2>2 DEF Effect, Create, Subscription, Positions
    <3>2. p \in cfg.nodes
        BY <1>0, <1>1, <2>2, DesiredShapes
    <3> QED
        BY <1>1, <2>1, <2>2, <3>1, <3>2 DEF CreateSubscription, SetSub, Enabled, catalog
  <2>3. CASE e = <<"update", Subscription(p, s)>>
    <3>1. UpdateSubscription(p, s)
        BY <2>3 DEF Effect, Subscription
    <3> QED
        BY <1>1, <2>1, <2>3, <3>1 DEF UpdateSubscription, SetSub, Enabled
  <2>4. CASE e = <<"delete", Subscription(p, s)>>
    <3>1. DeleteSubscription(p, s)
        BY <2>4 DEF Effect, Delete, Subscription
    <3> QED
        BY <1>1, <2>1, <2>4, <3>1 DEF DeleteSubscription, SetSub
  <2>5. CASE /\ e # <<"create", Subscription(p, s)>> /\ e # <<"update", Subscription(p, s)>>
             /\ e # <<"delete", Subscription(p, s)>>
    <3>1. \/ sub'[<<p, s>>] = sub[<<p, s>>]
          \/ e = <<"create", DisabledSub(p, s)>> /\ sub[<<p, s>>] = "none"
          \/ sub[<<p, s>>] = "disabled" /\ sub'[<<p, s>>] = "initializing"
        BY <1>0, <1>1, <2>5, EffectOnSub
    <3>2. e = <<"create", DisabledSub(p, s)>> => p \in cfg.nodes
        BY <1>0, <1>1, DesiredShapes DEF Peers
    <3> QED
        BY <2>1, <2>5, <3>1, <3>2 DEF Enabled
  <2> QED
      BY <2>2, <2>3, <2>4, <2>5
<1> QED
    BY <1>2, <1>3, <1>4

-----------------------------------------------------------------------------
(* The steps.                                                              *)

\* The databases move by themselves.
Environment ==
  \E n \in Node, m \in Node : WorkerStarts(n, m) \/ LoseSlot(n, m) \/ NodeGone(n)

\* The call e returns, with an error or without.
Called(e) ==
  /\ running' = running \ {e}
  /\ UNCHANGED <<phases, phase, cancelled, result, cfg, started, blind, upgrades>>
  /\ \/ done' = done \union {e} /\ UNCHANGED failed /\ Effect(e)
     \/ UNCHANGED done /\ failed' = TRUE /\ (Effect(e) \/ UNCHANGED catalog)
  /\ UNCHANGED faults \/ (faults < MaxFaults /\ faults' = faults + 1)

\* A cancelled context, or nothing at all.
Waits ==
  /\ UNCHANGED <<cfg, catalog, started, blind, phases, phase, running, done, failed, result, upgrades>>
  /\ cancelled' \in {cancelled, TRUE}
  /\ UNCHANGED faults \/ (faults < MaxFaults /\ faults' = faults + 1)

\* Another run is created.
Starts ==
  \E c : /\ Launch(c) /\ IsConfig(c) /\ OneNew(c) /\ c.nodes \subseteq Node
         /\ KeepBootstrap \/ \A n \in NewNodes(c) : n \notin user
         /\ UNCHANGED upgrades \/ (upgrades < MaxUpgrades /\ upgrades' = upgrades + 1)

\* Without bootstrap blocks nothing is new.
LEMMA PlainIsConfig ==
  ASSUME NEW nodes, IsFiniteSet(nodes), NoSource \notin nodes
  PROVE  IsConfig(Plain(nodes)) /\ NewNodes(Plain(nodes)) = {} /\ OneNew(Plain(nodes))
BY DEF Plain, IsConfig, NewNodes, OneNew

\* The steps, told apart by what the invariant needs of them.
LEMMA Steps ==
  ASSUME MeshInv, [Next]_mvars
  PROVE  \/ MakePlan \/ PlanFails \/ NextPhase \/ Return \/ Environment \/ Waits \/ Starts
         \/ \E e \in running : Called(e)
<1>0. ConfigIs /\ IsFiniteSet(Node) /\ NoSource \notin Node
    BY MeshAssumption DEF MeshInv
<1>1. ASSUME NEW e \in running, Succeed(e) PROVE Called(e)
    BY <1>1 DEF Succeed, Called, Executor!Succeed
<1>2. ASSUME NEW e \in running, Fail(e) PROVE Called(e)
    BY <1>2 DEF Fail, FailWith, Called, Executor!Fail
<1>3. CASE Stop \/ TimeOut \/ UNCHANGED mvars
    BY <1>3 DEF Stop, TimeOut, Waits, Executor!Cancel, mvars, catalog, execution
<1>4. ASSUME NEW nodes \in SUBSET Node
      PROVE  /\ IsConfig(Plain(nodes)) /\ OneNew(Plain(nodes)) /\ Plain(nodes).nodes \subseteq Node
             /\ NewNodes(Plain(nodes)) = {}
  <2>1. IsFiniteSet(nodes) /\ NoSource \notin nodes
      BY <1>0, FS_Subset
  <2> QED
      BY <2>1, PlainIsConfig DEF Plain
<1>5. CASE Rerun
  <2>1. PICK c \in Repeats : Launch(c)
      BY <1>5 DEF Rerun
  <2>2. c = Plain(cfg.nodes) \/ (KeepBootstrap /\ c = cfg)
      BY <2>1 DEF Repeats
  <2>3. /\ IsConfig(c) /\ OneNew(c) /\ c.nodes \subseteq Node
        /\ KeepBootstrap \/ NewNodes(c) = {}
      BY <1>0, <1>4, <2>2 DEF ConfigIs
  <2> QED
      BY <1>5, <2>1, <2>3 DEF Rerun, Starts
<1>6. ASSUME NEW n \in Node, RemoveNode(n) PROVE Starts
  <2>1. cfg.nodes \ {n} \in SUBSET Node
      BY <1>0 DEF ConfigIs
  <2>2. Launch(Plain(cfg.nodes \ {n})) /\ upgrades < MaxUpgrades /\ upgrades' = upgrades + 1
      BY <1>6 DEF RemoveNode
  <2> QED
      BY <1>4, <2>1, <2>2 DEF Starts
<1>7. ASSUME NEW n \in Node, NEW m \in Node, AddNode(n, m) PROVE Starts
  <2> DEFINE c == Adding(n, m)
  <2>1. n \notin cfg.nodes /\ m \in cfg.nodes /\ Launch(c) /\ n \notin user
          /\ upgrades < MaxUpgrades /\ upgrades' = upgrades + 1
      BY <1>7 DEF AddNode
  <2>2. /\ c.nodes = cfg.nodes \union {n} /\ c.order = <<n>>
        /\ c.source = [k \in cfg.nodes \union {n} |-> IF k = n THEN m ELSE NoSource]
      BY DEF Adding
  <2> HIDE DEF c
  <2>3. c.nodes \subseteq Node /\ NoSource \notin c.nodes /\ IsFiniteSet(c.nodes) /\ m \in c.nodes /\ m # n
      BY <1>0, <2>1, <2>2, FS_Subset DEF ConfigIs
  <2>4. IsConfig(c)
      BY <2>2, <2>3 DEF IsConfig
  <2>5. NewNodes(c) = {n}
      BY <2>2, <2>3 DEF NewNodes
  <2> QED
      BY <2>1, <2>2, <2>3, <2>4, <2>5 DEF Starts, OneNew
<1> QED
    BY <1>1, <1>2, <1>3, <1>5, <1>6, <1>7 DEF Next, Environment

-----------------------------------------------------------------------------
(* The steps keep the invariant.                                           *)

\* Empty databases, the mesh, and what a reset leaves.
LEMMA InitIsFine ==
  ASSUME Init PROVE MeshInv
<1>0. /\ IsFiniteSet(Node) /\ InitialNodes \subseteq Node /\ NoSource \notin Node
      /\ MaxUpgrades \in Nat /\ MaxFaults \in Nat
      /\ Past \subseteq {"nothing", "mesh", "reset"} /\ (Past # {"mesh"} => MaxUpgrades > 0)
    BY MeshAssumption
<1>1. PICK N \in {{}, InitialNodes}, R \in SUBSET InitialNodes, L \in SUBSET Pairs(InitialNodes) :
        /\ InitWith(N, R, L) /\ L \subseteq R \X Node /\ R \subseteq N
        /\ IsFiniteSet(L) => Cardinality(L) <= MaxFaults
        /\ N = {} \/ R # {} => MaxUpgrades > 0
        /\ N = InitialNodes \/ R = {}
  <2>1. CASE "nothing" \in Past /\ InitWith({}, {}, {})
    <3>1. Cardinality({}) = 0
        BY FS_EmptySet
    <3> QED
        BY <1>0, <2>1, <3>1
  <2>2. CASE "mesh" \in Past /\ InitWith(InitialNodes, {}, {})
    <3>1. Cardinality({}) = 0 /\ InitialNodes # {}
        BY FS_EmptySet, MeshAssumption
    <3> QED
        BY <1>0, <2>2, <3>1
  <2>3. CASE /\ "reset" \in Past
             /\ \E R \in (SUBSET InitialNodes) \ {{}}, L \in SUBSET Pairs(InitialNodes) :
                  /\ L \subseteq R \X Node /\ Cardinality(L) <= MaxFaults
                  /\ InitWith(InitialNodes, R, L)
      BY <1>0, <2>3
  <2> QED
      BY <2>1, <2>2, <2>3 DEF Init
<1>2. /\ cfg = Plain(InitialNodes) /\ blind = {}
      /\ started = (N = {} \/ R # {})
      /\ user = N /\ local = N
      /\ known = [n \in Node |-> IF n \in R THEN {n} ELSE IF n \in N THEN N ELSE {}]
      /\ sub = [pr \in Node \X Node |->
                  IF pr \in Pairs(N) /\ pr[2] \notin R THEN "replicating" ELSE "none"]
      /\ slot = {pr \in Pairs(N) : pr[1] \notin R} \union L
      /\ seeded = InitialNodes
      /\ phases = <<>> /\ phase = 0 /\ running = {} /\ done = {}
      /\ failed = FALSE /\ cancelled = FALSE /\ result = "ok"
      /\ upgrades = (IF started THEN 1 ELSE 0) /\ faults = Cardinality(L)
    BY <1>1 DEF InitWith
<1>3. /\ IsConfig(cfg) /\ OneNew(cfg) /\ cfg.nodes = InitialNodes
      /\ cfg.source = [n \in InitialNodes |-> NoSource]
  <2>1. IsFiniteSet(InitialNodes) /\ NoSource \notin InitialNodes
      BY <1>0, FS_Subset
  <2> QED
      BY <1>2, <2>1, PlainIsConfig DEF Plain
<1>4. ConfigIs
    BY <1>0, <1>3 DEF ConfigIs
<1>5. \A pr \in slot : pr \in Pairs(Node) /\ pr[1] \in N
    BY <1>0, <1>1, <1>2 DEF Pairs
<1>6. faults \in 0 .. MaxFaults
  <2>1. IsFiniteSet(Node \X Node) /\ L \subseteq Node \X Node
      BY <1>0, FS_Product DEF Pairs
  <2>2. IsFiniteSet(L)
      BY <2>1, FS_Subset
  <2>3. Cardinality(L) \in Nat
      BY <2>2, FS_CardinalityType
  <2> QED
      BY <1>0, <1>1, <1>2, <2>2, <2>3
<1>7. upgrades \in 0 .. MaxUpgrades /\ started \in BOOLEAN
  <2>1. started = (N = {} \/ R # {})
      BY <1>2
  <2>2. CASE N = {} \/ R # {}
    <3>1. started = TRUE
        BY <2>1, <2>2
    <3>2. upgrades = 1 /\ MaxUpgrades > 0
        BY <1>1, <1>2, <2>2, <3>1
    <3>3. upgrades \in 0 .. MaxUpgrades
        BY <1>0, <3>2
    <3> QED
        BY <3>1, <3>3
  <2>3. CASE ~(N = {} \/ R # {})
    <3>1. started = FALSE
        BY <2>1, <2>3
    <3>2. upgrades = 0
        BY <1>2, <3>1
    <3>3. upgrades \in 0 .. MaxUpgrades
        BY <1>0, <3>2
    <3> QED
        BY <3>1, <3>3
  <2> QED
      BY <2>2, <2>3
<1>8. Executor!TypeOK
  <2>1. phases \in Seq(SUBSET ({"create", "update", "delete"} \X Keys))
      BY <1>2
  <2>2. phase \in 0 .. Len(phases)
      BY <1>2
  <2>3. failed \in BOOLEAN /\ cancelled \in BOOLEAN /\ result \in {"running", "ok", "error"}
      BY <1>2
  <2>4. running \subseteq {"create", "update", "delete"} \X Keys
          /\ done \subseteq {"create", "update", "delete"} \X Keys
      BY <1>2
  <2> QED
      BY <2>1, <2>2, <2>3, <2>4 DEF Executor!TypeOK
<1>9. N \subseteq Node /\ N \subseteq InitialNodes /\ R \subseteq N
    BY <1>0, <1>1
<1>10. /\ known \in [Node -> SUBSET Node] /\ sub \in [Node \X Node -> SubState]
       /\ \A n \in Node : known[n] = IF n \in R THEN {n} ELSE IF n \in N THEN N ELSE {}
    BY <1>2, <1>9 DEF SubState
<1>11. \A p \in Node, s \in Node :
         sub[<<p, s>>] = IF p \in N /\ s \in N /\ p # s /\ s \notin R THEN "replicating" ELSE "none"
  <2> TAKE p \in Node, s \in Node
  <2>1. <<p, s>> \in Pairs(N) <=> p \in N /\ s \in N /\ p # s
      BY DEF Pairs
  <2> QED
      BY <1>2, <2>1
<1>12. TypeOK
    BY <1>0, <1>2, <1>3, <1>5, <1>6, <1>7, <1>8, <1>9, <1>10 DEF TypeOK
<1>13. Barrier
    BY <1>2 DEF Barrier
<1>14. Catalogs
  <2>1. local \subseteq user /\ \A pr \in slot : pr[1] \in local
      BY <1>2, <1>5
  <2>2. \A n \in Node : n \in local <=> n \in known[n]
      BY <1>2, <1>9, <1>10
  <2>3. \A n \in Node : sub[<<n, n>>] = "none"
      BY <1>11
  <2>4. ASSUME NEW p \in Node, NEW s \in Node, sub[<<p, s>>] # "none"
        PROVE  s \in local /\ {p, s} \subseteq known[s]
    <3>1. p \in N /\ s \in N /\ s \notin R
        BY <1>11, <2>4
    <3> QED
        BY <1>2, <1>10, <3>1
  <2> QED
      BY <2>1, <2>2, <2>3, <2>4 DEF Catalogs, SubscriptionsStayVisible
<1>15. Gated /\ Cleaning /\ Mending /\ DropsFirst /\ Lasting /\ Promised
    BY <1>2 DEF Gated, Cleaning, Mending, DropsFirst, Lasting, Promised
<1>16. SuccessMeansMeshed
  <2> SUFFICES ASSUME ~started PROVE SuccessMeansMeshed
      BY DEF SuccessMeansMeshed
  <2>1. N = InitialNodes /\ R = {}
      BY <1>1, <1>2
  <2>2. \A pr \in Pairs(cfg.nodes) : sub[pr] \in Enabled
    <3> TAKE pr \in Pairs(cfg.nodes)
    <3>1. pr \in Pairs(N) /\ pr \in Node \X Node
        BY <1>0, <1>3, <2>1 DEF Pairs
    <3> QED
        BY <1>2, <2>1, <3>1 DEF Enabled
  <2>3. \A s \in cfg.nodes \ blind, o \in Node \ cfg.nodes : sub[<<o, s>>] = "none"
      BY <1>0, <1>3, <1>11, <2>1
  <2> QED
      BY <1>2, <1>3, <2>1, <2>2, <2>3 DEF SuccessMeansMeshed
<1> QED
    BY <1>4, <1>12, <1>13, <1>14, <1>15, <1>16 DEF MeshInv

\* The plan of the run goes on, or there is none: what is said of its phases
\* is kept while the two lists of nodes grow and the configuration stays.
LEMMA PlanStays ==
  ASSUME MeshInv, UNCHANGED <<cfg, phases>>,
         \A n \in cfg.nodes : (n \in user => n \in user') /\ (n \in local => n \in local')
  PROVE  Gated' /\ Cleaning' /\ Mending' /\ DropsFirst'
<1>1. IsConfig(cfg) /\ OneNew(cfg)
    BY DEF MeshInv, ConfigIs
<1>2. Gated'
  <2>1. ASSUME NEW n \in DOMAIN phases, NEW e \in phases[n], e[1] = "create",
               NEW d \in Dependencies(cfg, e[2])
        PROVE  Earlier(n, <<"create", d>>) \/ Stays(d)'
    <3>1. e[2] \in DesiredIds(cfg) /\ (Earlier(n, <<"create", d>>) \/ Stays(d))
        BY <2>1 DEF MeshInv, Gated
    <3>2. d \in DesiredIds(cfg)
        BY <1>1, <3>1, DependenciesAreRanked
    <3>3. d[2] \in cfg.nodes
        BY <1>1, <3>2, DesiredAreKeys
    <3> QED
        BY <3>1, <3>3 DEF Stays
  <2>2. \A n \in DOMAIN phases : \A e \in phases[n] : e[1] = "create" => e[2] \in DesiredIds(cfg)
      BY DEF MeshInv, Gated
  <2>3. \A n, e : Earlier(n, e)' <=> Earlier(n, e)
      BY DEF Earlier
  <2> QED
      BY <2>1, <2>2, <2>3 DEF Gated
<1>3. Cleaning' /\ Mending' /\ DropsFirst'
    BY DEF MeshInv, Cleaning, Mending, DropsFirst, Earlier
<1> QED
    BY <1>2, <1>3

\* The job ends before it has a plan.
LEMMA PlanFailsKeeps ==
  ASSUME MeshInv, PlanFails PROVE MeshInv'
<1>1. /\ started /\ started' = FALSE /\ result' = "error" /\ faults < MaxFaults /\ faults' = faults + 1
      /\ UNCHANGED <<cfg, user, local, known, sub, slot, seeded, blind, phases, phase, running,
                     done, failed, cancelled, upgrades>>
    BY DEF PlanFails, catalog
<1>2. phases = <<>> /\ phase = 0 /\ done = {} /\ running = {}
  <2>1. result # "running"
      BY <1>1 DEF MeshInv, Barrier
  <2> QED
      BY <2>1 DEF MeshInv, Barrier
<1>3. TypeOK'
  <2>1. faults' \in 0 .. MaxFaults
      BY <1>1, MeshAssumption DEF MeshInv, TypeOK
  <2>2. Executor!TypeOK'
      BY <1>1 DEF MeshInv, TypeOK, Executor!TypeOK
  <2>3. started' \in BOOLEAN
      BY <1>1
  <2> QED
      BY <1>1, <2>1, <2>2, <2>3 DEF MeshInv, TypeOK
<1>4. ConfigIs' /\ Catalogs'
    BY <1>1 DEF MeshInv, ConfigIs, Catalogs, SubscriptionsStayVisible
<1>5. Barrier'
    BY <1>1, <1>2 DEF Barrier
<1>6. (phases = <<>> /\ done = {} /\ result # "running")'
    BY <1>1, <1>2
<1>7. Gated' /\ Cleaning' /\ Mending' /\ DropsFirst' /\ Lasting' /\ Promised'
    BY <1>6 DEF Gated, Cleaning, Mending, DropsFirst, Lasting, Promised
<1>8. SuccessMeansMeshed'
    BY <1>1 DEF SuccessMeansMeshed
<1> QED
    BY <1>3, <1>4, <1>5, <1>7, <1>8 DEF MeshInv

\* Another run is created, with any configuration.
LEMMA StartsKeeps ==
  ASSUME MeshInv, Starts PROVE MeshInv'
<1>0. PICK c : /\ Launch(c) /\ IsConfig(c) /\ OneNew(c) /\ c.nodes \subseteq Node
               /\ UNCHANGED upgrades \/ (upgrades < MaxUpgrades /\ upgrades' = upgrades + 1)
    BY DEF Starts
<1>1. /\ ~started /\ result # "running" /\ cfg' = c /\ started' = TRUE /\ blind' = {}
      /\ UNCHANGED <<user, local, known, sub, slot, seeded, phases, phase, running,
                     done, failed, cancelled, result, faults>>
    BY <1>0 DEF Launch, Idle, catalog, execution
<1>2. phases = <<>> /\ phase = 0 /\ done = {} /\ running = {}
    BY <1>1 DEF MeshInv, Barrier
<1>3. TypeOK'
  <2>1. upgrades' \in 0 .. MaxUpgrades
      BY <1>0, MeshAssumption DEF MeshInv, TypeOK
  <2>2. Executor!TypeOK'
      BY <1>1 DEF MeshInv, TypeOK, Executor!TypeOK
  <2>3. started' \in BOOLEAN
      BY <1>1
  <2>4. c.source \in [c.nodes -> c.nodes \union {NoSource}]
      BY <1>0 DEF IsConfig
  <2> QED
      BY <1>0, <1>1, <2>1, <2>2, <2>3, <2>4 DEF MeshInv, TypeOK
<1>4. ConfigIs'
    BY <1>0, <1>1 DEF ConfigIs
<1>5. Catalogs'
    BY <1>1 DEF MeshInv, Catalogs, SubscriptionsStayVisible
<1>6. Barrier'
    BY <1>1, <1>2 DEF Barrier
<1>7. (phases = <<>> /\ done = {} /\ result # "running")'
    BY <1>1, <1>2
<1>8. Gated' /\ Cleaning' /\ Mending' /\ DropsFirst' /\ Lasting' /\ Promised'
    BY <1>7 DEF Gated, Cleaning, Mending, DropsFirst, Lasting, Promised
<1>9. SuccessMeansMeshed'
    BY <1>1 DEF SuccessMeansMeshed
<1> QED
    BY <1>3, <1>4, <1>5, <1>6, <1>8, <1>9 DEF MeshInv

\* The context is cancelled.
LEMMA WaitsKeeps ==
  ASSUME MeshInv, Waits PROVE MeshInv'
<1>1. /\ UNCHANGED <<cfg, user, local, known, sub, slot, seeded, started, blind, phases, phase,
                     running, done, failed, result, upgrades>>
      /\ cancelled' \in {cancelled, TRUE}
      /\ UNCHANGED faults \/ (faults < MaxFaults /\ faults' = faults + 1)
    BY DEF Waits, catalog
<1>2. TypeOK'
  <2>1. faults' \in 0 .. MaxFaults
      BY <1>1, MeshAssumption DEF MeshInv, TypeOK
  <2>2. cancelled' \in BOOLEAN
      BY <1>1 DEF MeshInv, TypeOK, Executor!TypeOK
  <2>3. Executor!TypeOK'
      BY <1>1, <2>2 DEF MeshInv, TypeOK, Executor!TypeOK
  <2> QED
      BY <1>1, <2>1, <2>3 DEF MeshInv, TypeOK
<1>3. ConfigIs' /\ Catalogs'
    BY <1>1 DEF MeshInv, ConfigIs, Catalogs, SubscriptionsStayVisible
<1>4. Barrier'
    BY <1>1 DEF MeshInv, Barrier
<1>5. Gated' /\ Cleaning' /\ Mending' /\ DropsFirst'
    BY <1>1, PlanStays
<1>6. Lasting'
    BY <1>1 DEF MeshInv, Lasting
<1>7. Promised'
    BY <1>1 DEF MeshInv, Promised, Due
<1>8. SuccessMeansMeshed'
    BY <1>1 DEF MeshInv, SuccessMeansMeshed
<1> QED
    BY <1>2, <1>3, <1>4, <1>5, <1>6, <1>7, <1>8 DEF MeshInv

\* The next phase finds the one before it done.
LEMMA NextPhaseKeeps ==
  ASSUME MeshInv, NextPhase PROVE MeshInv'
<1>1. /\ UNCHANGED <<cfg, user, local, known, sub, slot, seeded, started, blind, upgrades, faults>>
      /\ UNCHANGED <<phases, done, failed, cancelled, result>>
      /\ result = "running" /\ running = {} /\ ~failed /\ phase < Len(phases)
      /\ phase' = phase + 1 /\ running' = phases[phase + 1]
    BY DEF NextPhase, Executor!NextPhase, catalog
<1>2. /\ phases \in Seq(SUBSET ({"create", "update", "delete"} \X Keys)) /\ phase \in 0 .. Len(phases)
      /\ DOMAIN phases = 1 .. Len(phases) /\ Len(phases) \in Nat
    BY DEF MeshInv, TypeOK, Executor!TypeOK
<1>3. phase + 1 \in DOMAIN phases
    BY <1>1, <1>2
<1>4. TypeOK'
  <2>1. running' \subseteq {"create", "update", "delete"} \X Keys
      BY <1>1, <1>2, <1>3
  <2>2. phase' \in 0 .. Len(phases)
      BY <1>1, <1>2
  <2>3. Executor!TypeOK'
      BY <1>1, <2>1, <2>2 DEF MeshInv, TypeOK, Executor!TypeOK
  <2> QED
      BY <1>1, <2>3 DEF MeshInv, TypeOK
<1>5. ConfigIs' /\ Catalogs'
    BY <1>1 DEF MeshInv, ConfigIs, Catalogs, SubscriptionsStayVisible
<1>6. Barrier'
  <2>1. /\ \A n \in DOMAIN phases, m \in DOMAIN phases : m < n => phases[m] \intersect phases[n] = {}
        /\ \A n \in DOMAIN phases : n < phase => phases[n] \subseteq done
        /\ \A n \in DOMAIN phases : phase < n => phases[n] \intersect done = {}
        /\ phase \in DOMAIN phases => phases[phase] \subseteq done
        /\ \A e \in done : \E n \in DOMAIN phases : e \in phases[n]
        /\ started => result # "running"
      BY <1>1 DEF MeshInv, Barrier
  <2>2. \A n \in DOMAIN phases :
          (n < phase + 1 => n < phase \/ n = phase) /\ (phase + 1 < n => phase < n) /\ phase < phase + 1
      BY <1>2
  <2>3. phases[phase + 1] \intersect done = {}
      BY <1>3, <2>1, <2>2
  <2>4. \A e \in running' : phase' \in DOMAIN phases /\ e \in phases[phase'] /\ e \notin done
      BY <1>1, <1>3, <2>3
  <2>5. \A n \in DOMAIN phases : n < phase' => phases[n] \subseteq done
      BY <1>1, <2>1, <2>2
  <2>6. \A n \in DOMAIN phases : phase' < n => phases[n] \intersect done = {}
      BY <1>1, <2>1, <2>2
  <2>7. phases[phase'] \subseteq running' \union done
      BY <1>1
  <2> QED
      BY <1>1, <2>1, <2>4, <2>5, <2>6, <2>7 DEF Barrier
<1>7. Gated' /\ Cleaning' /\ Mending' /\ DropsFirst'
    BY <1>1, PlanStays
<1>8. Lasting'
    BY <1>1 DEF MeshInv, Lasting
<1>9. Promised'
    BY <1>1 DEF MeshInv, Promised, Due
<1>10. SuccessMeansMeshed'
    BY <1>1 DEF SuccessMeansMeshed
<1> QED
    BY <1>4, <1>5, <1>6, <1>7, <1>8, <1>9, <1>10 DEF MeshInv

\* Execute returns nil when nothing is due.
LEMMA ReturnKeeps ==
  ASSUME MeshInv, Return PROVE MeshInv'
<1>1. /\ UNCHANGED <<cfg, user, local, known, sub, slot, seeded, started, blind, upgrades, faults>>
      /\ running' = running /\ phases' = <<>> /\ phase' = 0 /\ done' = {}
      /\ failed' = FALSE /\ cancelled' = FALSE
      /\ result = "running" /\ running = {} /\ (failed \/ phase = Len(phases))
      /\ result' = (IF failed THEN "error" ELSE "ok")
    BY DEF Return, Executor!Over, Executor!Outcome, catalog
<1>2. /\ phases \in Seq(SUBSET ({"create", "update", "delete"} \X Keys)) /\ phase \in 0 .. Len(phases)
      /\ DOMAIN phases = 1 .. Len(phases) /\ Len(phases) \in Nat
    BY DEF MeshInv, TypeOK, Executor!TypeOK
<1>3. TypeOK'
  <2>1. phases' \in Seq(SUBSET ({"create", "update", "delete"} \X Keys)) /\ Len(phases') = 0
      BY <1>1
  <2>2. phase' \in 0 .. Len(phases')
      BY <1>1, <2>1
  <2>3. failed' \in BOOLEAN /\ cancelled' \in BOOLEAN
      BY <1>1
  <2>4. running' \subseteq {"create", "update", "delete"} \X Keys
          /\ done' \subseteq {"create", "update", "delete"} \X Keys
      BY <1>1
  <2>5. result' \in {"running", "ok", "error"}
      BY <1>1
  <2>6. Executor!TypeOK'
      BY <2>1, <2>2, <2>3, <2>4, <2>5 DEF Executor!TypeOK
  <2> QED
      BY <1>1, <2>6 DEF MeshInv, TypeOK
<1>4. ConfigIs' /\ Catalogs'
    BY <1>1 DEF MeshInv, ConfigIs, Catalogs, SubscriptionsStayVisible
<1>5. Barrier'
  <2>1. ~started
      BY <1>1 DEF MeshInv, Barrier
  <2> QED
      BY <1>1, <2>1 DEF Barrier
<1>6. (phases = <<>> /\ done = {} /\ result # "running")'
    BY <1>1
<1>7. Gated' /\ Cleaning' /\ Mending' /\ DropsFirst' /\ Lasting' /\ Promised'
    BY <1>6 DEF Gated, Cleaning, Mending, DropsFirst, Lasting, Promised
<1>8. ASSUME ~failed PROVE SuccessMeansMeshed'
  <2>0. phase = Len(phases)
      BY <1>1, <1>8
  <2>1. \A n \in DOMAIN phases : n < phase \/ n = phase
      BY <1>2, <2>0
  <2>2. \A n \in DOMAIN phases : phases[n] \subseteq done
      BY <1>1, <1>8, <2>1 DEF MeshInv, Barrier
  <2>3. \A e : ~Due(e)
      BY <2>2 DEF Due
  <2>4. /\ \A n \in cfg.nodes : n \in user /\ n \in local
        /\ \A p \in cfg.nodes, s \in cfg.nodes : p # s => sub[<<p, s>>] \in Enabled
        /\ \A s \in cfg.nodes \ blind, o \in Node \ cfg.nodes : sub[<<o, s>>] = "none"
      BY <1>1, <2>3 DEF MeshInv, Promised
  <2>5. \A pr \in Pairs(cfg.nodes) : sub[pr] \in Enabled
    <3> TAKE pr \in Pairs(cfg.nodes)
    <3>1. pr[1] \in cfg.nodes /\ pr[2] \in cfg.nodes /\ pr[1] # pr[2] /\ pr = <<pr[1], pr[2]>>
        BY DEF Pairs
    <3>2. sub[<<pr[1], pr[2]>>] \in Enabled
        BY <2>4, <3>1
    <3> QED
        BY <3>1, <3>2
  <2> QED
      BY <1>1, <2>4, <2>5 DEF SuccessMeansMeshed, Enabled
<1>9. failed => SuccessMeansMeshed'
    BY <1>1 DEF SuccessMeansMeshed
<1> QED
    BY <1>3, <1>4, <1>5, <1>7, <1>8, <1>9 DEF MeshInv

\* A call returns, and what it did or did not do is what the mesh lacks less.
LEMMA CalledKeeps ==
  ASSUME MeshInv, NEW e \in running, Called(e) PROVE MeshInv'
<1>1. /\ running' = running \ {e}
      /\ UNCHANGED <<phases, phase, cancelled, result, cfg, started, blind, upgrades>>
      /\ \/ done' = done \union {e} /\ failed' = failed /\ Effect(e)
         \/ done' = done /\ failed' = TRUE /\ (Effect(e) \/ UNCHANGED catalog)
      /\ UNCHANGED faults \/ (faults < MaxFaults /\ faults' = faults + 1)
    BY DEF Called
<1>2. /\ e \in {"create", "update", "delete"} \X Keys
      /\ e \notin done /\ result = "running" /\ ~started
      /\ phase \in DOMAIN phases /\ e \in phases[phase]
      /\ e[1] = "create" => \A m \in DOMAIN phases : \A d \in phases[m] : d[1] = "delete" => d \in done
    BY RunningEvent
\* The catalogs after the call.
<1>3. /\ user \subseteq user' /\ local \subseteq local' /\ seeded' = seeded
      /\ user' \subseteq Node /\ local' \subseteq Node
      /\ known' \in [Node -> SUBSET Node] /\ sub' \in [Node \X Node -> SubState]
      /\ slot' \subseteq Pairs(Node)
      /\ Catalogs'
  <2>1. CASE Effect(e)
      BY <2>1, EffectOnCatalogs
  <2>2. CASE UNCHANGED catalog
      BY <2>2 DEF catalog, MeshInv, TypeOK, Catalogs, SubscriptionsStayVisible
  <2> QED
      BY <1>1, <2>1, <2>2
<1>4. \A p \in Node, s \in Node :
        /\ sub[<<p, s>>] = "none" /\ p \notin cfg.nodes => sub'[<<p, s>>] = "none"
        /\ sub[<<p, s>>] \in Enabled /\ e # <<"delete", Subscription(p, s)>>
             => sub'[<<p, s>>] \in Enabled
  <2>1. CASE Effect(e)
      BY <2>1, EffectOnMesh
  <2>2. CASE UNCHANGED catalog
      BY <2>2 DEF catalog
  <2> QED
      BY <1>1, <2>1, <2>2
<1>5. e \in done' =>
        /\ \A n \in Node : e = <<"create", User(n)>> => n \in user'
        /\ \A n \in Node : e = <<"create", SpockNode(n)>> => n \in local'
        /\ \A p \in Node, s \in Node :
             /\ e = <<"create", Subscription(p, s)>> => sub'[<<p, s>>] \in Enabled
             /\ e = <<"update", Subscription(p, s)>> => sub'[<<p, s>>] \in Enabled
             /\ e = <<"delete", Subscription(p, s)>> => sub'[<<p, s>>] = "none"
  <2>1. e \in done' => Effect(e)
      BY <1>1, <1>2
  <2> QED
      BY <2>1, EffectOnMesh
<1>6. \A d : d \in done' <=> d \in done \/ (d = e /\ e \in done')
    BY <1>1
<1>7. TypeOK'
  <2>1. faults' \in 0 .. MaxFaults
      BY <1>1, MeshAssumption DEF MeshInv, TypeOK
  <2>2. failed' \in BOOLEAN
      BY <1>1 DEF MeshInv, TypeOK, Executor!TypeOK
  <2>3. done' \subseteq {"create", "update", "delete"} \X Keys
      BY <1>1, <1>2 DEF MeshInv, TypeOK, Executor!TypeOK
  <2>4. Executor!TypeOK'
      BY <1>1, <2>2, <2>3 DEF MeshInv, TypeOK, Executor!TypeOK
  <2>5. seeded' \subseteq Node
      BY <1>3 DEF MeshInv, TypeOK
  <2> QED
      BY <1>1, <1>3, <2>1, <2>4, <2>5 DEF MeshInv, TypeOK
<1>8. ConfigIs'
    BY <1>1 DEF MeshInv, ConfigIs
<1>9. Barrier'
  <2>1. /\ \A n \in DOMAIN phases, m \in DOMAIN phases : m < n => phases[m] \intersect phases[n] = {}
        /\ \A x \in running : phase \in DOMAIN phases /\ x \in phases[phase] /\ x \notin done
        /\ \A n \in DOMAIN phases : n < phase => phases[n] \subseteq done
        /\ \A n \in DOMAIN phases : phase < n => phases[n] \intersect done = {}
        /\ ~failed /\ phase \in DOMAIN phases => phases[phase] \subseteq running \union done
        /\ \A x \in done : \E n \in DOMAIN phases : x \in phases[n]
      BY DEF MeshInv, Barrier
  <2>2. \A n \in DOMAIN phases : phase < n => e \notin phases[n]
      BY <1>2, <2>1
  <2>3. \A x \in running' : phase \in DOMAIN phases /\ x \in phases[phase] /\ x \notin done'
      BY <1>1, <2>1
  <2>4. \A n \in DOMAIN phases : n < phase => phases[n] \subseteq done'
      BY <1>1, <2>1
  <2>5. \A n \in DOMAIN phases : phase < n => phases[n] \intersect done' = {}
      BY <1>1, <2>1, <2>2
  <2>6. ASSUME ~failed' PROVE phases[phase] \subseteq running' \union done'
      BY <1>1, <1>2, <2>1, <2>6
  <2>7. \A x \in done' : \E n \in DOMAIN phases : x \in phases[n]
      BY <1>2, <1>6, <2>1
  <2> QED
      BY <1>1, <1>2, <2>1, <2>3, <2>4, <2>5, <2>6, <2>7 DEF Barrier
<1>10. Gated' /\ Cleaning' /\ Mending' /\ DropsFirst'
    BY <1>1, <1>3, PlanStays
<1>11. Lasting'
  <2>1. \A n \in Node : <<"create", User(n)>> \in done' => n \in user'
      BY <1>3, <1>5, <1>6 DEF MeshInv, Lasting
  <2>2. \A n \in Node : <<"create", SpockNode(n)>> \in done' => n \in local'
      BY <1>3, <1>5, <1>6 DEF MeshInv, Lasting
  <2>3. ASSUME NEW n \in Node, NEW s \in Node,
               <<"delete", Subscription(n, s)>> \in done', n \notin cfg.nodes
        PROVE  sub'[<<n, s>>] = "none"
    <3>1. CASE <<"delete", Subscription(n, s)>> \in done
        BY <1>4, <2>3, <3>1 DEF MeshInv, Lasting
    <3>2. CASE <<"delete", Subscription(n, s)>> = e /\ e \in done'
        BY <1>5, <3>2
    <3> QED
        BY <1>6, <2>3, <3>1, <3>2
  <2> QED
      BY <1>1, <2>1, <2>2, <2>3 DEF Lasting
<1>12. Promised'
  <2>1. \A x : Due(x)' <=> Due(x) /\ ~(x = e /\ e \in done')
      BY <1>1, <1>6 DEF Due
  <2>2. cfg.nodes \subseteq Node
      BY DEF MeshInv, TypeOK
  <2>3. ASSUME NEW n \in cfg.nodes
        PROVE  /\ n \in user' \/ Due(<<"create", User(n)>>)'
               /\ n \in local' \/ Due(<<"create", SpockNode(n)>>)'
    <3>1. /\ n \in user \/ Due(<<"create", User(n)>>)
          /\ n \in local \/ Due(<<"create", SpockNode(n)>>)
        BY <1>2 DEF MeshInv, Promised
    <3> QED
        BY <1>3, <1>5, <2>1, <2>2, <3>1
  <2>4. ASSUME NEW p \in cfg.nodes, NEW s \in cfg.nodes, p # s
        PROVE  \/ Due(<<"create", Subscription(p, s)>>)'
               \/ /\ ~Due(<<"delete", Subscription(p, s)>>)'
                  /\ sub'[<<p, s>>] \in Enabled \/ Due(<<"update", Subscription(p, s)>>)'
    <3>1. \/ Due(<<"create", Subscription(p, s)>>)
          \/ /\ ~Due(<<"delete", Subscription(p, s)>>)
             /\ sub[<<p, s>>] \in Enabled \/ Due(<<"update", Subscription(p, s)>>)
        BY <1>2, <2>4 DEF MeshInv, Promised
    <3>2. CASE <<"create", Subscription(p, s)>> = e /\ e \in done'
      <4>1. sub'[<<p, s>>] \in Enabled
          BY <1>5, <2>2, <3>2
      <4>2. ~Due(<<"delete", Subscription(p, s)>>)
          BY <1>2, <3>2 DEF Due
      <4> QED
          BY <2>1, <4>1, <4>2
    <3>3. ASSUME ~Due(<<"delete", Subscription(p, s)>>) PROVE e # <<"delete", Subscription(p, s)>>
        BY <1>2, <3>3 DEF Due
    <3> QED
        BY <1>4, <1>5, <2>1, <2>2, <3>1, <3>2, <3>3
  <2>5. ASSUME NEW s \in cfg.nodes \ blind, NEW o \in Node \ cfg.nodes
        PROVE  sub'[<<o, s>>] = "none" \/ Due(<<"delete", Subscription(o, s)>>)'
    <3>1. sub[<<o, s>>] = "none" \/ Due(<<"delete", Subscription(o, s)>>)
        BY <1>2 DEF MeshInv, Promised
    <3> QED
        BY <1>4, <1>5, <2>1, <2>2, <3>1
  <2> QED
      BY <1>1, <2>3, <2>4, <2>5 DEF Promised
<1>13. SuccessMeansMeshed'
    BY <1>1, <1>2 DEF SuccessMeansMeshed
<1> QED
    BY <1>7, <1>8, <1>3, <1>9, <1>10, <1>11, <1>12, <1>13 DEF MeshInv

\* The databases by themselves undo nothing the mesh relies on.
LEMMA EnvironmentKeeps ==
  ASSUME MeshInv, Environment PROVE MeshInv'
<1>0. PICK p \in Node, s \in Node : WorkerStarts(p, s) \/ LoseSlot(p, s) \/ NodeGone(p)
    BY DEF Environment
<1>1. /\ UNCHANGED <<cfg, started, blind, phases, phase, running, done, failed, cancelled, result, upgrades>>
      /\ UNCHANGED faults \/ (faults < MaxFaults /\ faults' = faults + 1)
    BY <1>0 DEF WorkerStarts, LoseSlot, NodeGone, execution
<1>2. /\ user \subseteq Node /\ local \subseteq Node /\ seeded \subseteq Node
      /\ known \in [Node -> SUBSET Node] /\ sub \in [Node \X Node -> SubState]
      /\ slot \subseteq Pairs(Node) /\ cfg.nodes \subseteq Node
    BY DEF MeshInv, TypeOK
<1>3. /\ local \subseteq user
      /\ \A n \in Node : n \in local <=> n \in known[n]
      /\ \A n \in Node : sub[<<n, n>>] = "none"
      /\ \A pr \in slot : pr[1] \in local
      /\ \A q \in Node, r \in Node :
           sub[<<q, r>>] # "none" => r \in local /\ q \in known[r] /\ r \in known[r]
    BY DEF MeshInv, Catalogs, SubscriptionsStayVisible
<1> DEFINE Steady ==
             /\ user' \subseteq Node /\ local' \subseteq Node /\ seeded' \subseteq Node
             /\ known' \in [Node -> SUBSET Node] /\ sub' \in [Node \X Node -> SubState]
             /\ slot' \subseteq Pairs(Node)
             /\ Catalogs'
             /\ \A n \in cfg.nodes : (n \in user => n \in user') /\ (n \in local => n \in local')
             /\ \A q \in Node, r \in Node :
                  /\ sub[<<q, r>>] = "none" => sub'[<<q, r>>] = "none"
                  /\ r \in cfg.nodes /\ sub[<<q, r>>] \in Enabled => sub'[<<q, r>>] \in Enabled
<1>4. ASSUME WorkerStarts(p, s) PROVE Steady
  <2>1. /\ sub[<<p, s>>] \in {"initializing", "copying"} /\ p \in local
        /\ sub' = [sub EXCEPT ![<<p, s>>] = "replicating"]
        /\ slot' = slot \union {<<p, s>>}
        /\ seeded' \in {seeded, seeded \union {s}}
        /\ UNCHANGED <<user, local, known>>
      BY <1>4 DEF WorkerStarts, SetSub
  <2>2. p # s
      BY <1>3, <2>1
  <2>3. slot' \subseteq Pairs(Node) /\ \A pr \in slot' : pr[1] \in local
      BY <1>2, <1>3, <2>1, <2>2 DEF Pairs
  <2>4. /\ sub' \in [Node \X Node -> SubState]
        /\ \A q \in Node, r \in Node :
             sub'[<<q, r>>] = IF q = p /\ r = s THEN "replicating" ELSE sub[<<q, r>>]
    <3>1. \A q \in Node, r \in Node : <<q, r>> = <<p, s>> <=> q = p /\ r = s
        OBVIOUS
    <3> QED
        BY <1>2, <2>1, <3>1 DEF SubState
  <2>5. Catalogs'
      BY <1>3, <2>1, <2>2, <2>3, <2>4 DEF Catalogs, SubscriptionsStayVisible
  <2>6. \A q \in Node, r \in Node :
          /\ sub[<<q, r>>] = "none" => sub'[<<q, r>>] = "none"
          /\ sub[<<q, r>>] \in Enabled => sub'[<<q, r>>] \in Enabled
      BY <2>1, <2>4 DEF Enabled
  <2>7. seeded' \subseteq Node
      BY <1>2, <2>1
  <2> QED
      BY <1>2, <2>1, <2>3, <2>4, <2>5, <2>6, <2>7
<1>5. ASSUME LoseSlot(p, s) PROVE Steady
  <2>1. slot' \subseteq slot /\ UNCHANGED <<user, local, known, sub, seeded>>
      BY <1>5 DEF LoseSlot
  <2>2. Catalogs'
      BY <1>3, <2>1 DEF Catalogs, SubscriptionsStayVisible
  <2> QED
      BY <1>2, <2>1, <2>2
<1>6. ASSUME NodeGone(p) PROVE Steady
  <2>1. /\ p \notin cfg.nodes
        /\ user' = user \ {p} /\ local' = local \ {p} /\ seeded' = seeded \ {p}
        /\ known' = [known EXCEPT ![p] = {}]
        /\ sub' = [pr \in DOMAIN sub |-> IF pr[2] = p THEN "none" ELSE sub[pr]]
        /\ slot' = {pr \in slot : pr[1] # p}
      BY <1>6 DEF NodeGone
  <2>2. /\ known' \in [Node -> SUBSET Node]
        /\ \A n \in Node : known'[n] = IF n = p THEN {} ELSE known[n]
      BY <1>2, <2>1
  <2>3. sub' \in [Node \X Node -> SubState]
    <3>1. DOMAIN sub = Node \X Node /\ \A pr \in Node \X Node : sub[pr] \in SubState
        BY <1>2
    <3>2. "none" \in SubState
        BY DEF SubState
    <3> QED
        BY <2>1, <3>1, <3>2
  <2>4. \A q \in Node, r \in Node : sub'[<<q, r>>] = IF r = p THEN "none" ELSE sub[<<q, r>>]
      BY <1>2, <2>1
  <2>5. Catalogs'
      BY <1>3, <2>1, <2>2, <2>4 DEF Catalogs, SubscriptionsStayVisible
  <2> QED
      BY <1>2, <2>1, <2>2, <2>3, <2>4, <2>5
<1>7. Steady
    BY <1>0, <1>4, <1>5, <1>6
<1> HIDE DEF Steady
<1>8. TypeOK'
  <2>1. faults' \in 0 .. MaxFaults
      BY <1>1, MeshAssumption DEF MeshInv, TypeOK
  <2>2. Executor!TypeOK'
      BY <1>1 DEF MeshInv, TypeOK, Executor!TypeOK
  <2> QED
      BY <1>1, <1>7, <2>1, <2>2 DEF MeshInv, TypeOK, Steady
<1>9. ConfigIs'
    BY <1>1 DEF MeshInv, ConfigIs
<1>10. Barrier'
    BY <1>1 DEF MeshInv, Barrier
<1>11. Gated' /\ Cleaning' /\ Mending' /\ DropsFirst'
    BY <1>1, <1>7, PlanStays DEF Steady
<1>12. Lasting'
  <2>1. ASSUME NEW n \in Node
        PROVE  /\ <<"create", User(n)>> \in done => n \in cfg.nodes
               /\ <<"create", SpockNode(n)>> \in done => n \in cfg.nodes
    <3>1. \A k : <<"create", k>> \in done => k \in DesiredIds(cfg)
      <4>1. \A x \in done : \E m \in DOMAIN phases : x \in phases[m]
          BY DEF MeshInv, Barrier
      <4>2. \A m \in DOMAIN phases : \A x \in phases[m] : x[1] = "create" => x[2] \in DesiredIds(cfg)
          BY DEF MeshInv, Gated
      <4> QED
          BY <4>1, <4>2
    <3>2. IsConfig(cfg) /\ OneNew(cfg)
        BY DEF MeshInv, ConfigIs
    <3>3. /\ User(n) \in DesiredIds(cfg) => n \in cfg.nodes
          /\ SpockNode(n) \in DesiredIds(cfg) => n \in cfg.nodes
        BY <3>2, DesiredShapes
    <3> QED
        BY <3>1, <3>3
  <2> QED
      BY <1>1, <1>7, <2>1 DEF MeshInv, Lasting, Steady
<1>13. Promised'
  <2>1. \A x : Due(x)' <=> Due(x)
      BY <1>1 DEF Due
  <2> QED
      BY <1>1, <1>2, <1>7, <2>1 DEF MeshInv, Promised, Steady
<1>14. SuccessMeansMeshed'
  <2> SUFFICES ASSUME result = "ok", ~started PROVE SuccessMeansMeshed'
      BY <1>1 DEF SuccessMeansMeshed
  <2>1. /\ cfg.nodes \subseteq user \intersect local
        /\ \A pr \in Pairs(cfg.nodes) : sub[pr] \in Enabled
        /\ \A r \in cfg.nodes \ blind, o \in Node \ cfg.nodes : sub[<<o, r>>] = "none"
      BY DEF MeshInv, SuccessMeansMeshed
  <2>2. \A pr \in Pairs(cfg.nodes) : sub'[pr] \in Enabled
    <3> TAKE pr \in Pairs(cfg.nodes)
    <3>1. pr[1] \in Node /\ pr[2] \in cfg.nodes /\ pr[2] \in Node /\ pr = <<pr[1], pr[2]>>
        BY <1>2 DEF Pairs
    <3>2. sub[<<pr[1], pr[2]>>] \in Enabled
        BY <2>1, <3>1
    <3>3. sub'[<<pr[1], pr[2]>>] \in Enabled
        BY <1>7, <3>1, <3>2 DEF Steady
    <3> QED
        BY <3>1, <3>3
  <2>3. \A r \in cfg.nodes \ blind, o \in Node \ cfg.nodes : sub'[<<o, r>>] = "none"
      BY <1>2, <1>7, <2>1 DEF Steady
  <2>4. cfg.nodes \subseteq user' \intersect local'
      BY <1>7, <2>1 DEF Steady
  <2> QED
      BY <1>1, <2>2, <2>3, <2>4 DEF SuccessMeansMeshed
<1>15. Catalogs'
    BY <1>7 DEF Steady
<1> QED
    BY <1>8, <1>9, <1>10, <1>11, <1>12, <1>13, <1>14, <1>15 DEF MeshInv

\* What the mesh lacks is in the plan.
LEMMA MakePlanKeeps ==
  ASSUME MeshInv, MakePlan PROVE MeshInv'
<1>1. /\ started /\ started' = FALSE
      /\ \E missed \in SUBSET (OrphanNodes \union OrphanSlots) :
           /\ faults' = faults + Cardinality({Scan(k) : k \in missed}) /\ faults' <= MaxFaults
           /\ blind' = {k[3] : k \in missed \intersect OrphanNodes}
           /\ phases' \in PlansFor(missed)
      /\ phase' = 0 /\ running' = {} /\ done' = {} /\ failed' = FALSE
      /\ cancelled' = FALSE /\ result' = "running"
      /\ UNCHANGED <<cfg, user, local, known, sub, slot, seeded, upgrades>>
    BY DEF MakePlan, PlansFor, catalog
<1>2. TypeOK /\ ConfigIs /\ IsConfig(cfg) /\ OneNew(cfg)
    BY DEF MeshInv, ConfigIs
<1>3. PICK missed, p :
        /\ missed \in SUBSET (OrphanNodes \union OrphanSlots)
        /\ faults' = faults + Cardinality({Scan(k) : k \in missed}) /\ faults' <= MaxFaults
        /\ blind' = {k[3] : k \in missed \intersect OrphanNodes}
        /\ p = phases' /\ p \in PlansFor(missed)
    BY <1>1
<1>4. /\ p \in Seq(SUBSET ({"create", "update", "delete"} \X Keys))
      /\ \A n \in DOMAIN p, m \in DOMAIN p : m < n => p[m] \intersect p[n] = {}
      /\ \A k \in ToCreate : \E n \in DOMAIN p : <<"create", k>> \in p[n]
      /\ \A k \in ToUpdate : \E n \in DOMAIN p : <<"update", k>> \in p[n]
      /\ \A k \in ToDelete(missed) : k[1] # "orphan" => \E n \in DOMAIN p : <<"delete", k>> \in p[n]
      /\ \A n \in DOMAIN p : \A e \in p[n] :
           \/ e = <<"create", e[2]>> /\ e[2] \in ToCreate
           \/ e = <<"update", e[2]>> /\ e[2] \in ToUpdate
           \/ e = <<"delete", e[2]>> /\ e[2] \in ToDelete(missed)
      /\ \A n \in DOMAIN p : \A k \in ToCreate : <<"create", k>> \in p[n] =>
           \A d \in Dependencies(cfg, k) : d \in ToCreate =>
             \E m \in 1 .. n - 1 : <<"create", d>> \in p[m]
      /\ \A m \in DOMAIN p, n \in DOMAIN p : \A d \in p[m], e \in p[n] :
           d[1] = "delete" /\ e[1] = "create" => m < n
      /\ \A n \in DOMAIN p, o \in Node, s \in Node : <<"delete", <<"orphan", o, s>>>> \in p[n] =>
           /\ o \notin cfg.nodes /\ s \in cfg.nodes
           /\ \E m \in 1 .. n - 1 : <<"delete", Subscription(o, s)>> \in p[m]
    BY <1>2, <1>3, EventsOfPlan
<1>5. /\ Orphans(missed) \intersect DesiredIds(cfg) = {}
      /\ Present \subseteq DesiredIds(cfg)
      /\ NeedsRecreate \subseteq Present /\ NeedsUpdate \subseteq Present
      /\ \A k \in NeedsUpdate : k[1] = "subscription"
    BY <1>2, KeysOfTheMaps DEF NeedsUpdate
<1>6. /\ ToCreate \subseteq DesiredIds(cfg)
      /\ \A k \in DesiredIds(cfg) : k \in ToCreate \/ (k \in Present /\ k \notin NeedsRecreate)
      /\ \A k \in Present : Exists(k)
    BY <1>5 DEF ToCreate, Present
<1>7. \A n, e : Earlier(n, e)' <=> \E m \in 1 .. n - 1 : e \in p[m]
    BY <1>3 DEF Earlier
<1>8. \A e : Due(e)' <=> \E n \in DOMAIN p : e \in p[n]
    BY <1>1, <1>3 DEF Due
<1>9. TypeOK'
  <2>1. faults' \in 0 .. MaxFaults
    <3>1. Cardinality({Scan(k) : k \in missed}) \in Nat
        BY <1>2, <1>3, ScansAreFew
    <3> QED
        BY <1>2, <1>3, <3>1, MeshAssumption DEF TypeOK
  <2>2. Executor!TypeOK'
    <3>1. phases' \in Seq(SUBSET ({"create", "update", "delete"} \X Keys)) /\ Len(phases') \in Nat
        BY <1>3, <1>4
    <3>2. phase' \in 0 .. Len(phases')
        BY <1>1, <3>1
    <3>3. failed' \in BOOLEAN /\ cancelled' \in BOOLEAN
        BY <1>1
    <3> QED
        BY <1>1, <3>1, <3>2, <3>3 DEF Executor!TypeOK
  <2>3. started' \in BOOLEAN /\ blind' \subseteq Node
    <3>1. \A k \in OrphanNodes : k[3] \in cfg.nodes
        BY DEF OrphanNodes
    <3> QED
        BY <1>1, <1>2, <1>3, <3>1 DEF ConfigIs
  <2> QED
      BY <1>1, <1>2, <2>1, <2>2, <2>3 DEF TypeOK
<1>10. ConfigIs' /\ Catalogs'
    BY <1>1 DEF MeshInv, ConfigIs, Catalogs, SubscriptionsStayVisible
<1>11. Barrier'
  <2>1. \A n \in DOMAIN p : ~(n < 0) /\ 0 \notin DOMAIN p
      BY <1>4
  <2> QED
      BY <1>1, <1>3, <1>4, <2>1 DEF Barrier
<1>12. Gated'
  <2>1. ASSUME NEW n \in DOMAIN p, NEW e \in p[n], e[1] = "create"
        PROVE  /\ e[2] \in DesiredIds(cfg)
               /\ \A d \in Dependencies(cfg, e[2]) : Earlier(n, <<"create", d>>)' \/ Stays(d)
    <3>1. e = <<"create", e[2]>> /\ e[2] \in ToCreate
        BY <1>4, <2>1
    <3>2. <<"create", e[2]>> \in p[n]
        BY <3>1
    <3>3. ASSUME NEW d \in Dependencies(cfg, e[2])
          PROVE  Earlier(n, <<"create", d>>)' \/ Stays(d)
      <4>1. d \in DesiredIds(cfg)
          BY <1>2, <1>6, <3>1, DependenciesAreRanked
      <4>2. CASE d \in ToCreate
          BY <1>4, <1>7, <3>1, <3>2, <4>2
      <4>3. CASE d \in Present
        <5>1. Exists(d)
            BY <1>6, <4>3
        <5> QED
            BY <5>1 DEF Exists, UserExists, NodeExists, Stays
      <4> QED
          BY <1>6, <4>1, <4>2, <4>3
    <3> QED
        BY <1>6, <3>1, <3>3
  <2>2. \A d : Stays(d)' <=> Stays(d)
      BY <1>1 DEF Stays
  <2> QED
      BY <1>1, <1>3, <2>1, <2>2 DEF Gated
<1>13. Cleaning'
    BY <1>1, <1>3, <1>4, <1>7 DEF Cleaning
<1>14. Mending'
  <2>1. ASSUME NEW n \in DOMAIN p, NEW e \in p[n], e[1] = "update"
        PROVE  /\ e[2] \in DesiredIds(cfg) /\ e[2][1] = "subscription"
               /\ \A m \in DOMAIN p : <<"delete", e[2]>> \notin p[m]
    <3>1. e[2] \in NeedsUpdate /\ e[2] \notin NeedsRecreate
        BY <1>4, <2>1 DEF ToUpdate
    <3>2. e[2] \in DesiredIds(cfg) /\ e[2][1] = "subscription"
        BY <1>5, <3>1
    <3>3. e[2] \notin ToDelete(missed)
        BY <1>5, <3>1, <3>2 DEF ToDelete
    <3>4. ASSUME NEW m \in DOMAIN p, NEW d \in p[m], d[1] = "delete" PROVE d[2] \in ToDelete(missed)
        BY <1>4, <3>4
    <3> QED
        BY <3>2, <3>3, <3>4
  <2> QED
      BY <1>1, <1>3, <2>1 DEF Mending
<1>15. DropsFirst'
    BY <1>3, <1>4 DEF DropsFirst
<1>16. Lasting'
    BY <1>1 DEF Lasting
<1>17. Promised'
  <2>1. ASSUME NEW n \in cfg.nodes
        PROVE  /\ n \in user \/ Due(<<"create", User(n)>>)'
               /\ n \in local \/ Due(<<"create", SpockNode(n)>>)'
    <3>1. User(n) \in DesiredIds(cfg) /\ SpockNode(n) \in DesiredIds(cfg)
        BY <1>2, DesiredShapes
    <3>2. User(n) \in ToCreate \/ Exists(User(n))
        BY <1>6, <3>1
    <3>3. SpockNode(n) \in ToCreate \/ Exists(SpockNode(n))
        BY <1>6, <3>1
    <3>4. n \in user \/ User(n) \in ToCreate
        BY <3>2 DEF Exists, User, UserExists
    <3>5. n \in local \/ SpockNode(n) \in ToCreate
        BY <3>3 DEF Exists, SpockNode, NodeExists
    <3> QED
        BY <1>4, <1>8, <3>4, <3>5
  <2>2. ASSUME NEW q \in cfg.nodes, NEW s \in cfg.nodes, q # s
        PROVE  \/ Due(<<"create", Subscription(q, s)>>)'
               \/ /\ ~Due(<<"delete", Subscription(q, s)>>)'
                  /\ sub[<<q, s>>] \in Enabled \/ Due(<<"update", Subscription(q, s)>>)'
    <3> DEFINE k == Subscription(q, s)
    <3>1. k \in DesiredIds(cfg) /\ k[1] = "subscription" /\ k[2] = q /\ k[3] = s
        BY <1>2, <2>2, DesiredShapes DEF Subscription
    <3>2. <<q, s>> \in Node \X Node /\ sub[<<q, s>>] \in {"none", "disabled"} \union Enabled
        BY <1>2 DEF TypeOK, ConfigIs, SubState, Enabled
    <3> HIDE DEF k
    <3>3. CASE k \in ToCreate
        BY <1>4, <1>8, <3>3 DEF k
    <3>4. CASE k \in Present /\ k \notin NeedsRecreate
      <4>1. k \notin ToDelete(missed)
          BY <1>5, <3>1, <3>4 DEF ToDelete
      <4>2. ASSUME NEW m \in DOMAIN p, <<"delete", k>> \in p[m] PROVE FALSE
        <5> DEFINE d == <<"delete", k>>
        <5>1. d[1] = "delete" /\ d[2] = k
            OBVIOUS
        <5> HIDE DEF d
        <5>2. d \in p[m]
            BY <4>2 DEF d
        <5> QED
            BY <1>4, <4>1, <5>1, <5>2
      <4>3. ~Due(<<"delete", k>>)'
          BY <1>8, <4>2
      <4>4. sub[<<q, s>>] # "none"
        <5>1. Exists(k)
            BY <1>6, <3>4
        <5> QED
            BY <3>1, <5>1 DEF Exists, SubExists
      <4>5. sub[<<q, s>>] = "disabled" => k \in ToUpdate
          BY <3>1, <3>4 DEF ToUpdate, NeedsUpdate
      <4>6. k \in ToUpdate => Due(<<"update", k>>)'
          BY <1>4, <1>8
      <4> QED
          BY <3>2, <4>3, <4>4, <4>5, <4>6 DEF k
    <3> QED
        BY <1>6, <3>1, <3>3, <3>4
  <2>3. ASSUME NEW s \in cfg.nodes \ blind', NEW o \in Node \ cfg.nodes
        PROVE  sub[<<o, s>>] = "none" \/ Due(<<"delete", Subscription(o, s)>>)'
    <3>1. CASE sub[<<o, s>>] # "none"
      <4>1. o \in known[s]
          BY <1>2, <3>1 DEF MeshInv, Catalogs, SubscriptionsStayVisible, ConfigIs
      <4>2. Subscription(o, s) \in Orphans(missed)
        <5> DEFINE row == <<"orphan", o, s>>
        <5>1. row \in OrphanNodes
            BY <4>1, RowsOfOrphans
        <5>2. row \notin missed
          <6>1. row[3] = s
              OBVIOUS
          <6> HIDE DEF row
          <6> QED
              BY <1>3, <2>3, <5>1, <6>1
        <5> QED
            BY <4>1, <5>2, OrphansAre
      <4>3. Subscription(o, s) \in ToDelete(missed) /\ Subscription(o, s)[1] # "orphan"
          BY <4>2 DEF ToDelete, Subscription
      <4> QED
          BY <1>4, <1>8, <4>3
    <3> QED
        BY <3>1
  <2> QED
      BY <1>1, <1>3, <2>1, <2>2, <2>3 DEF Promised
<1>18. SuccessMeansMeshed'
    BY <1>1 DEF SuccessMeansMeshed
<1> QED
    BY <1>9, <1>10, <1>11, <1>12, <1>13, <1>14, <1>15, <1>16, <1>17, <1>18 DEF MeshInv

\* The invariant of every history of runs.
LEMMA Invariant ==
  Spec => []MeshInv
<1>1. Init => MeshInv
    BY InitIsFine
<1>2. MeshInv /\ [Next]_mvars => MeshInv'
    BY Steps, MakePlanKeeps, PlanFailsKeeps, NextPhaseKeeps, ReturnKeeps, EnvironmentKeeps,
       WaitsKeeps, StartsKeeps, CalledKeeps
<1> QED
    BY <1>1, <1>2, PTL DEF Spec

(* The catalogs, the bounds and the executor's state are of the types the  *)
(* declarations give them: no call of a run stores anything that names a   *)
(* node outside Node, or a pair of one node with itself.                   *)
THEOREM MeshTypes ==
  Spec => []TypeOK
<1>1. MeshInv => TypeOK
    BY DEF MeshInv
<1> QED
    BY <1>1, Invariant, PTL

(* A job that exits with success leaves every pair of configured nodes     *)
(* with an enabled subscription, and none from a removed node on a         *)
(* survivor whose orphan nodes it read, whatever failed before; this lasts *)
(* until the next job is created.                                          *)
THEOREM MeshAfterSuccess ==
  Spec => []SuccessMeansMeshed
<1>1. MeshInv => SuccessMeansMeshed
    BY DEF MeshInv
<1> QED
    BY <1>1, Invariant, PTL

(* discoverOrphanNodes (refresh.go) infers the subscriptions of removed    *)
(* nodes from spock.node, and nothing in any order of runs, failures and   *)
(* losses hides a subscription from it: the row of its provider is there   *)
(* as long as the subscription is.                                         *)
THEOREM OrphansStayVisible ==
  Spec => []SubscriptionsStayVisible
<1>1. MeshInv => SubscriptionsStayVisible
    BY DEF MeshInv, Catalogs
<1> QED
    BY <1>1, Invariant, PTL

-----------------------------------------------------------------------------
(* What a plan leaves alone.                                               *)

\* Planning is the step MakePlan.
LEMMA OnlyMakePlanPlans ==
  ASSUME MeshInv, [Next]_mvars, Planning
  PROVE  /\ MakePlan
         /\ \E missed : phases' \in PlansFor(missed)
         /\ UNCHANGED <<cfg, user, local, known, sub, slot>>
<1>1. started /\ started' # started /\ result' = "running" /\ result # "running"
    BY DEF Planning, MeshInv, Barrier
<1>2. ASSUME PlanFails \/ NextPhase \/ Return \/ Environment \/ Waits \/ Starts
             \/ \E e \in running : Called(e)
      PROVE  started' = started \/ started' = TRUE \/ result' = "error"
    BY <1>2 DEF PlanFails, NextPhase, Return, Environment, WorkerStarts, LoseSlot, NodeGone,
                Waits, Starts, Launch, Called
<1>3. MakePlan
    BY <1>1, <1>2, Steps DEF Planning
<1> QED
    BY <1>3 DEF MakePlan, PlansFor, catalog

(* checkSlotHealth and Subscription.Refresh (refresh.go, subscription.go)  *)
(* mark what is broken and nothing else: no plan of any run updates or     *)
(* deletes a subscription that is enabled and has its slot, or the slot.   *)
THEOREM PlansSpareTheHealthy ==
  Spec => PlanSparesHealthy
<1>1. ASSUME MeshInv, [Next]_mvars, Planning, NEW pr \in Pairs(cfg.nodes),
             sub[pr] \in Enabled, pr \in slot
      PROVE  EventsOf(phases') \intersect
               ({"update", "delete"} \X {Slot(pr[1], pr[2]), Subscription(pr[1], pr[2])}) = {}
  <2>0. TypeOK /\ ConfigIs /\ IsConfig(cfg) /\ OneNew(cfg)
      BY <1>1 DEF MeshInv, ConfigIs
  <2>1. PICK missed, p : p = phases' /\ p \in PlansFor(missed)
      BY <1>1, OnlyMakePlanPlans
  <2>2. \A n \in DOMAIN p : \A e \in p[n] :
          \/ e = <<"create", e[2]>> /\ e[2] \in ToCreate
          \/ e = <<"update", e[2]>> /\ e[2] \in ToUpdate
          \/ e = <<"delete", e[2]>> /\ e[2] \in ToDelete(missed)
      BY <2>0, <2>1, EventsOfPlan
  <2>3. /\ Orphans(missed) \intersect DesiredIds(cfg) = {}
        /\ \A k \in NeedsRecreate : k[1] = "subscription"
      BY <2>0, KeysOfTheMaps
  <2>4. pr[1] \in cfg.nodes /\ pr[2] \in cfg.nodes /\ pr[1] # pr[2] /\ pr = <<pr[1], pr[2]>>
      BY DEF Pairs
  <2>5. Slot(pr[1], pr[2]) \in DesiredIds(cfg) /\ Subscription(pr[1], pr[2]) \in DesiredIds(cfg)
      BY <2>0, <2>4, DesiredShapes
  <2>6. Slot(pr[1], pr[2]) \in Present
    <3>1. Exists(Slot(pr[1], pr[2]))
        BY <1>1, <2>4 DEF Exists, SlotExists, Slot
    <3> QED
        BY <2>5, <3>1 DEF Present
  <2>7. Subscription(pr[1], pr[2]) \notin NeedsRecreate /\ Slot(pr[1], pr[2]) \notin NeedsRecreate
    <3>1. Subscription(pr[1], pr[2]) \notin NeedsRecreate
        BY <2>6 DEF NeedsRecreate, Subscription
    <3> QED
        BY <2>3, <3>1 DEF Slot
  <2>8. Subscription(pr[1], pr[2]) \notin NeedsUpdate /\ Slot(pr[1], pr[2]) \notin NeedsUpdate
      BY <1>1, <2>4 DEF NeedsUpdate, Subscription, Slot, Enabled
  <2>9. ASSUME NEW k \in {Slot(pr[1], pr[2]), Subscription(pr[1], pr[2])}
        PROVE  k \notin ToUpdate /\ k \notin ToDelete(missed)
      BY <2>3, <2>5, <2>7, <2>8 DEF ToUpdate, ToDelete
  <2>10. ASSUME NEW n \in DOMAIN p, NEW e \in p[n],
                e \in {"update", "delete"} \X {Slot(pr[1], pr[2]), Subscription(pr[1], pr[2])}
         PROVE  FALSE
    <3>1. e[1] # "create" /\ e[2] \in {Slot(pr[1], pr[2]), Subscription(pr[1], pr[2])}
        BY <2>10
    <3>2. e[2] \in ToUpdate \/ e[2] \in ToDelete(missed)
        BY <2>2, <3>1
    <3> QED
        BY <2>9, <3>1, <3>2
  <2> QED
      BY <2>1, <2>10 DEF EventsOf
<1>2. MeshInv /\ [Next]_mvars
        => [Planning =>
              \A pr \in Pairs(cfg.nodes) :
                sub[pr] \in Enabled /\ pr \in slot =>
                  EventsOf(phases') \intersect
                    ({"update", "delete"} \X {Slot(pr[1], pr[2]), Subscription(pr[1], pr[2])})
                  = {}]_mvars
    BY <1>1
<1> QED
    BY <1>2, Invariant, PTL DEF Spec, PlanSparesHealthy

\* No events, no phases.
LEMMA PhasesOfNothing ==
  ASSUME NEW action, NEW reverse \in BOOLEAN, NEW idOf, NEW deps
  PROVE  Phases(action, {}, reverse, idOf, deps) = <<>>
<1> DEFINE before == Order({}, reverse, idOf, deps)
           P == Phases(action, {}, reverse, idOf, deps)
<1>1. before = {}
  <2>1. before \in SUBSET ({} \X {})
      BY OrderIs
  <2> QED
      BY <2>1
<1>2. P = [n \in DOMAIN Layers({}, before) |-> {<<action, k>> : k \in Layers({}, before)[n]}]
    BY DEF Phases, Order
<1> HIDE DEF before, P
<1>3. Layers({}, before) = <<>>
    BY <1>1, LayersOfNothing
<1>4. P = [n \in {} |-> {<<action, k>> : k \in <<>>[n]}]
    BY <1>2, <1>3
<1>5. P = <<>>
    BY <1>4
<1> QED
    BY <1>5 DEF P

(* What Refresh finds in its final state makes an empty plan: a second     *)
(* helm upgrade does nothing, for any number of nodes and whatever the     *)
(* scans for orphans miss.                                                 *)
THEOREM RerunsDoNothing ==
  Spec => RerunIsIdempotent
<1>1. ASSUME MeshInv, [Next]_mvars, Planning, Settled, NewNodes(cfg) = {}
      PROVE  phases' = <<>>
  <2>0. TypeOK /\ ConfigIs /\ IsConfig(cfg) /\ OneNew(cfg)
      BY <1>1 DEF MeshInv, ConfigIs
  <2>1. PICK missed, p : p = phases' /\ p \in PlansFor(missed)
      BY <1>1, OnlyMakePlanPlans
  <2>2. DesiredIds(cfg) \subseteq Present
    <3>1. ASSUME NEW k \in DesiredIds(cfg) PROVE Exists(k)
      <4>1. \/ \E n \in cfg.nodes : k \in {User(n), SpockNode(n)}
            \/ \E q \in cfg.nodes, s \in cfg.nodes : q # s /\ k \in {Slot(q, s), Subscription(q, s)}
          BY <1>1, DesiredWithoutNew
      <4>2. CASE \E n \in cfg.nodes : k \in {User(n), SpockNode(n)}
          BY <1>1, <4>2 DEF Settled, Exists, UserExists, NodeExists, User, SpockNode
      <4>3. CASE \E q \in cfg.nodes, s \in cfg.nodes :
                   q # s /\ k \in {Slot(q, s), Subscription(q, s)}
        <5>1. PICK q \in cfg.nodes, s \in cfg.nodes :
                q # s /\ k \in {Slot(q, s), Subscription(q, s)}
            BY <4>3
        <5>2. <<q, s>> \in Pairs(cfg.nodes)
            BY <5>1 DEF Pairs
        <5>3. sub[<<q, s>>] = "replicating" /\ <<q, s>> \in slot
            BY <1>1, <5>2 DEF Settled
        <5> QED
            BY <5>1, <5>3 DEF Exists, SlotExists, SubExists, Slot, Subscription
      <4> QED
          BY <4>1, <4>2, <4>3
    <3> QED
        BY <3>1 DEF Present
  <2>3. NeedsRecreate = {} /\ NeedsUpdate = {}
    <3>1. ASSUME NEW k \in Present, k[1] = "subscription"
          PROVE  Slot(k[2], k[3]) \in Present /\ sub[<<k[2], k[3]>>] # "disabled"
      <4>1. PICK q \in cfg.nodes, s \in cfg.nodes : q # s /\ k = Subscription(q, s)
        <5>1. k \in DesiredIds(cfg)
            BY <2>0, KeysOfTheMaps
        <5> QED
            BY <1>1, <3>1, <5>1, DesiredWithoutNew DEF User, SpockNode, Slot
      <4>2. <<q, s>> \in Pairs(cfg.nodes)
          BY <4>1 DEF Pairs
      <4>3. k[2] = q /\ k[3] = s
          BY <4>1 DEF Subscription
      <4>4. Slot(q, s) \in DesiredIds(cfg)
          BY <1>1, <4>1, DesiredWithoutNew
      <4> QED
          BY <1>1, <2>2, <4>2, <4>3, <4>4 DEF Settled
    <3> QED
        BY <3>1 DEF NeedsRecreate, NeedsUpdate
  <2>4. Orphans(missed) = {}
    <3>1. ASSUME NEW o \in Node, NEW s \in cfg.nodes, o \in known[s], o \notin cfg.nodes PROVE FALSE
      <4>1. <<"orphan", o, s>> \in OrphanNodes
          BY <3>1, RowsOfOrphans
      <4> QED
          BY <1>1, <4>1 DEF Settled
    <3>2. ASSUME NEW pr \in slot, pr[1] \in cfg.nodes, pr[2] \notin cfg.nodes PROVE FALSE
      <4>1. Slot(pr[1], pr[2]) \in OrphanSlots
          BY <3>2 DEF OrphanSlots
      <4> QED
          BY <1>1, <4>1 DEF Settled
    <3> QED
        BY <3>1, <3>2, OrphansAre
  <2> DEFINE desired == DesiredIds(cfg)
             actual  == Present \union Orphans(missed)
             idOf    == [k \in actual \union desired |-> Identifier(k)]
             deps    == [k \in actual \union desired |-> Deps(k)]
  <2>5. /\ Deletes(actual, desired, NeedsRecreate) = {}
        /\ Updates(actual, desired, NeedsRecreate, NeedsUpdate) = {}
        /\ Creates(actual, desired, NeedsRecreate) = {}
    <3>1. ToDelete(missed) = {} /\ ToUpdate = {} /\ ToCreate = {}
        BY <2>2, <2>3, <2>4 DEF ToDelete, ToUpdate, ToCreate
    <3> QED
        BY <2>0, <3>1, KeysOfTheMaps DEF Actual
  <2>6. p \in Plans(actual, desired, NeedsRecreate, NeedsUpdate, idOf, deps)
      BY <2>1 DEF PlansFor
  <2> HIDE DEF desired, actual, idOf, deps
  <2>7. ASSUME NEW action, NEW reverse \in BOOLEAN PROVE Phases(action, {}, reverse, idOf, deps) = <<>>
      BY PhasesOfNothing
  <2>8. p = (<<>> \o <<>>) \o <<>>
    <3>1. PICK W \in Kept({}, idOf) :
            p = Phases("delete", W, TRUE, idOf, deps) \o Phases("update", {}, FALSE, idOf, deps)
                  \o Phases("create", {}, FALSE, idOf, deps)
        BY <2>5, <2>6 DEF Plans
    <3>2. W = {}
        BY DEF Kept
    <3> QED
        BY <2>7, <3>1, <3>2
  <2> QED
      BY <2>1, <2>8
<1>2. MeshInv /\ [Next]_mvars
        => [Planning /\ Settled /\ NewNodes(cfg) = {} => phases' = <<>>]_mvars
    BY <1>1
<1> QED
    BY <1>2, Invariant, PTL DEF Spec, RerunIsIdempotent

-----------------------------------------------------------------------------
(* The run that adds a node.                                               *)

\* The new node and the one it is populated from.
LEMMA SourceOfTheNew ==
  ASSUME ConfigIs, NEW n \in NewNodes(cfg)
  PROVE  /\ IsConfig(cfg) /\ OneNew(cfg) /\ n \in cfg.nodes /\ cfg.source[n] \in cfg.nodes
         /\ n \in Node /\ cfg.source[n] \in Node /\ cfg.source[n] # n
         /\ \A p : IsCopy(cfg, p, n) <=> p = cfg.source[n]
<1>1. IsConfig(cfg) /\ OneNew(cfg) /\ cfg.nodes \subseteq Node
    BY DEF ConfigIs
<1>2. n \in cfg.nodes /\ cfg.source[n] \in cfg.nodes /\ cfg.source[n] # n
    BY <1>1, GatesOfTheNewNode DEF GatesAre
<1> QED
    BY <1>1, <1>2 DEF IsCopy

\* A call on a subscription of the node that is new.
LEMMA CallsOnTheNew ==
  ASSUME MeshInv, FirstRun, NEW n \in NewNodes(cfg), NEW e \in running, Called(e)
  PROVE  LET src == cfg.source[n] IN
         /\ sub'[<<src, n>>] \in {sub[<<src, n>>], "none", "copying"}
         /\ \A p \in Node : sub[<<p, n>>] = "disabled" /\ sub'[<<p, n>>] \in Enabled =>
              <<"create", OriginAdvance(p, n)>> \in done
         /\ \A s \in Node : sub[<<n, s>>] \notin Enabled /\ sub'[<<n, s>>] \in Enabled =>
              <<"create", WaitForSync(src, n)>> \in done
<1> DEFINE src == cfg.source[n]
<1>0. /\ IsConfig(cfg) /\ OneNew(cfg) /\ n \in cfg.nodes /\ src \in cfg.nodes
      /\ n \in Node /\ src \in Node /\ src # n
      /\ \A p : IsCopy(cfg, p, n) <=> p = src
    BY SourceOfTheNew DEF MeshInv
<1> HIDE DEF src
<1>1. TypeOK /\ (Effect(e) \/ UNCHANGED sub)
    BY DEF Called, catalog, MeshInv
<1>2. /\ e \in {"create", "update", "delete"} \X Keys
      /\ phase \in DOMAIN phases /\ e \in phases[phase]
      /\ e[1] = "create" =>
           /\ e[2] \in DesiredIds(cfg)
           /\ \A d \in Dependencies(cfg, e[2]) : <<"create", d>> \in done \/ Stays(d)
      /\ e[1] = "update" => e[2] \in DesiredIds(cfg) /\ e[2][1] = "subscription"
    BY RunningEvent
<1>3. sub[<<src, n>>] \in {"none", "copying", "replicating"}
    BY DEF FirstRun, src
<1>4. ASSUME NEW p \in Node, NEW s \in Node, p = n \/ s = n, e[1] = "update"
      PROVE  ~(e[2][2] = p /\ e[2][3] = s)
  <2> SUFFICES ASSUME e[2][2] = p /\ e[2][3] = s PROVE FALSE
      OBVIOUS
  <2>1. e = <<"update", Subscription(p, s)>>
      BY <1>2, <1>4 DEF Subscription, Keys
  <2> QED
      BY <1>2, <1>4, <2>1 DEF FirstRun
<1>5. \A p \in Node, s \in Node : p = n \/ s = n =>
        \/ sub'[<<p, s>>] = sub[<<p, s>>]
        \/ /\ e = <<"create", Subscription(p, s)>>
           /\ \/ sub[<<p, s>>] = "disabled" /\ sub'[<<p, s>>] = "initializing"
              \/ /\ sub[<<p, s>>] = "none"
                 /\ sub'[<<p, s>>] = (IF IsCopy(cfg, p, s) THEN "copying" ELSE "initializing")
        \/ e = <<"create", DisabledSub(p, s)>> /\ sub'[<<p, s>>] = "disabled"
        \/ e = <<"delete", Subscription(p, s)>> /\ sub'[<<p, s>>] = "none"
    BY <1>1, <1>2, <1>4, EffectOnSub
<1>6. sub'[<<src, n>>] \in {sub[<<src, n>>], "none", "copying"}
  <2>1. e # <<"create", DisabledSub(src, n)>>
    <3>1. DisabledSub(src, n) \notin DesiredIds(cfg)
        BY <1>0, DesiredShapes DEF Peers, src
    <3> QED
        BY <1>2, <3>1
  <2> QED
      BY <1>0, <1>3, <1>5, <2>1
<1>7. \A d : d[1] \in {"origin_advance", "wait_for_sync_event"} => ~Stays(d)
    BY DEF Stays
<1>8. ASSUME NEW p \in Node, sub[<<p, n>>] = "disabled", sub'[<<p, n>>] \in Enabled
      PROVE  <<"create", OriginAdvance(p, n)>> \in done
  <2>1. e = <<"create", Subscription(p, n)>> /\ p # src
      BY <1>0, <1>3, <1>5, <1>8 DEF Enabled
  <2>2. p \in Peers(cfg, n)
      BY <1>0, <1>2, <2>1, DesiredShapes DEF Peers, src
  <2>3. OriginAdvance(p, n) \in Dependencies(cfg, Subscription(p, n))
    <3>1. SubscriptionGates(cfg, p, n) = {OriginAdvance(p, n)}
        BY <1>0, <2>2, GatesOfTheNewNode DEF GatesAre
    <3>2. {p, n} \subseteq cfg.nodes
        BY <1>0, <2>2 DEF Peers
    <3> QED
        BY <3>1, <3>2, DependenciesAre
  <2> QED
      BY <1>2, <1>7, <2>1, <2>3 DEF OriginAdvance
<1>9. ASSUME NEW s \in Node, sub[<<n, s>>] \notin Enabled, sub'[<<n, s>>] \in Enabled
      PROVE  <<"create", WaitForSync(src, n)>> \in done
  <2>1. e = <<"create", Subscription(n, s)>>
      BY <1>0, <1>5, <1>9 DEF Enabled
  <2>2. s \in cfg.nodes /\ s # n
      BY <1>0, <1>2, <2>1, DesiredShapes
  <2>3. WaitForSync(src, n) \in Dependencies(cfg, Subscription(n, s))
    <3>1. SubscriptionGates(cfg, n, s) = {WaitForSync(src, n)}
        BY <1>0, <2>2, GatesOfTheNewNode DEF GatesAre, src
    <3>2. {n, s} \subseteq cfg.nodes
        BY <1>0, <2>2
    <3> QED
        BY <3>1, <3>2, DependenciesAre
  <2> QED
      BY <1>2, <1>7, <2>1, <2>3 DEF WaitForSync
<1> QED
    BY <1>6, <1>8, <1>9 DEF src

\* Workers start what is enabled.
LEMMA WorkersEnableNothing ==
  ASSUME MeshInv, Environment, NEW p \in Node, NEW s \in Node
  PROVE  /\ sub'[<<p, s>>] \in {sub[<<p, s>>], "none", "replicating"}
         /\ sub'[<<p, s>>] \in Enabled => sub[<<p, s>>] \in Enabled
         /\ sub'[<<p, s>>] = "replicating" =>
              \/ sub[<<p, s>>] = "replicating"
              \/ sub[<<p, s>>] = "copying" /\ (p \in seeded => s \in seeded')
              \/ sub[<<p, s>>] = "initializing"
         /\ user' \subseteq user
         /\ \A n \in cfg.nodes : n \in seeded => n \in seeded'
<1>0. PICK q \in Node, r \in Node : WorkerStarts(q, r) \/ LoseSlot(q, r) \/ NodeGone(q)
    BY DEF Environment
<1>1. sub \in [Node \X Node -> SubState] /\ <<p, s>> \in Node \X Node
    BY DEF MeshInv, TypeOK
<1>2. CASE WorkerStarts(q, r)
  <2>1. /\ sub[<<q, r>>] \in {"initializing", "copying"}
        /\ sub' = [sub EXCEPT ![<<q, r>>] = "replicating"] /\ user' = user
        /\ seeded' = IF sub[<<q, r>>] = "copying" /\ q \in seeded THEN seeded \union {r} ELSE seeded
      BY <1>2 DEF WorkerStarts, SetSub
  <2>2. sub'[<<p, s>>] = IF <<p, s>> = <<q, r>> THEN "replicating" ELSE sub[<<p, s>>]
      BY <1>1, <2>1
  <2>3. <<p, s>> = <<q, r>> <=> p = q /\ s = r
      OBVIOUS
  <2>4. CASE p = q /\ s = r
      BY <2>1, <2>2, <2>3, <2>4 DEF Enabled
  <2>5. CASE ~(p = q /\ s = r)
      BY <2>1, <2>2, <2>3, <2>5
  <2> QED
      BY <2>4, <2>5
<1>3. CASE LoseSlot(q, r)
    BY <1>3 DEF LoseSlot
<1>4. CASE NodeGone(q)
  <2>1. sub'[<<p, s>>] \in {sub[<<p, s>>], "none"}
      BY <1>1, <1>4 DEF NodeGone
  <2>2. /\ user' \subseteq user /\ \A n \in cfg.nodes : n \in seeded => n \in seeded'
      BY <1>4 DEF NodeGone
  <2> QED
      BY <2>1, <2>2 DEF Enabled
<1> QED
    BY <1>0, <1>2, <1>3, <1>4

\* An empty node has no subscriptions and no slots.
LEMMA NothingOnAnEmptyNode ==
  ASSUME TypeOK, Catalogs, NEW n \in Node, n \notin user, NEW s \in Node
  PROVE  sub[<<s, n>>] = "none" /\ <<n, s>> \notin slot
<1>1. n \notin local
    BY DEF Catalogs
<1>2. <<n, s>>[1] = n
    OBVIOUS
<1> QED
    BY <1>1, <1>2 DEF Catalogs, SubscriptionsStayVisible

\* A run that adds a node finds nothing of it to repair.
LEMMA FirstRunLasts ==
  ASSUME ~KeepBootstrap, MeshInv, FirstRun, [Next]_mvars
  PROVE  FirstRun'
<1>0. TypeOK /\ ConfigIs /\ Catalogs
    BY DEF MeshInv
<1>1. CASE MakePlan
  <2>1. /\ started /\ started' = FALSE /\ UNCHANGED <<cfg, sub>>
        /\ \E missed : phases' \in PlansFor(missed)
      BY <1>1 DEF MakePlan, PlansFor, catalog
  <2>2. PICK missed, p : p = phases' /\ p \in PlansFor(missed)
      BY <2>1
  <2>3. \A m \in DOMAIN p : \A e \in p[m] : e[1] = "update" => e[2] \in ToUpdate
    <3>1. \A m \in DOMAIN p : \A e \in p[m] :
            \/ e = <<"create", e[2]>> /\ e[2] \in ToCreate
            \/ e = <<"update", e[2]>> /\ e[2] \in ToUpdate
            \/ e = <<"delete", e[2]>> /\ e[2] \in ToDelete(missed)
        BY <1>0, <2>2, EventsOfPlan
    <3> QED
        BY <3>1
  <2>4. ASSUME NEW n \in NewNodes(cfg), NEW s \in Node
        PROVE  Subscription(s, n) \notin ToUpdate /\ Subscription(n, s) \notin ToUpdate
    <3>1. n \in Node /\ n \notin user
        BY <1>0, <2>1, SourceOfTheNew DEF FirstRun
    <3>2. sub[<<s, n>>] = "none" /\ <<n, s>> \notin slot
        BY <1>0, <3>1, NothingOnAnEmptyNode
    <3>3. Slot(n, s) \notin Present
        BY <3>2 DEF Present, Exists, SlotExists, Slot
    <3>4. Subscription(n, s) \notin ToUpdate
        BY <3>3 DEF ToUpdate, NeedsUpdate, NeedsRecreate, Subscription
    <3>5. Subscription(s, n) \notin NeedsUpdate
        BY <3>2 DEF NeedsUpdate, Subscription
    <3> QED
        BY <3>4, <3>5 DEF ToUpdate
  <2>5. ASSUME NEW n \in NewNodes(cfg), NEW m \in DOMAIN p, NEW s \in Node
        PROVE  {<<"update", Subscription(s, n)>>, <<"update", Subscription(n, s)>>} \intersect p[m] = {}
    <3>1. \A k : <<"update", k>>[1] = "update" /\ <<"update", k>>[2] = k
        OBVIOUS
    <3> QED
        BY <2>3, <2>4, <3>1
  <2>6. ASSUME NEW n \in NewNodes(cfg)
        PROVE  sub[<<cfg.source[n], n>>] \in {"none", "copying", "replicating"}
      BY DEF FirstRun
  <2>7. cfg' = cfg /\ sub' = sub /\ phases' = p /\ started' = FALSE
      BY <2>1, <2>2
  <2> QED
      BY <2>5, <2>6, <2>7 DEF FirstRun
<1>2. CASE PlanFails \/ NextPhase \/ Waits
  <2>1. UNCHANGED <<cfg, user, sub, phases>>
      BY <1>2 DEF PlanFails, NextPhase, Executor!NextPhase, Waits, catalog
  <2>2. started' = FALSE \/ started' = started
      BY <1>2 DEF PlanFails, NextPhase, Waits
  <2> QED
      BY <2>1, <2>2 DEF FirstRun
<1>3. CASE Return
  <2>1. UNCHANGED <<cfg, user, sub, started>> /\ phases' = <<>>
      BY <1>3 DEF Return, catalog
  <2> QED
      BY <2>1 DEF FirstRun
<1>4. CASE Environment
  <2>1. UNCHANGED <<cfg, started, phases>>
      BY <1>4 DEF Environment, WorkerStarts, LoseSlot, NodeGone, execution
  <2>2. ASSUME NEW n \in NewNodes(cfg)
        PROVE  /\ sub'[<<cfg.source[n], n>>] \in {sub[<<cfg.source[n], n>>], "none", "replicating"}
               /\ user' \subseteq user
    <3>1. n \in Node /\ cfg.source[n] \in Node
        BY <1>0, SourceOfTheNew
    <3> QED
        BY <1>4, <3>1, WorkersEnableNothing
  <2> QED
      BY <2>1, <2>2 DEF FirstRun
<1>5. CASE Starts
  <2>1. PICK c : Launch(c) /\ IsConfig(c) /\ OneNew(c) /\ c.nodes \subseteq Node
                   /\ \A n \in NewNodes(c) : n \notin user
      BY <1>5 DEF Starts
  <2>2. /\ cfg' = c /\ ~started /\ result # "running" /\ UNCHANGED <<user, sub, phases>>
      BY <2>1 DEF Launch, Idle, catalog, execution
  <2>3. phases = <<>>
      BY <2>2 DEF MeshInv, Barrier
  <2>4. ASSUME NEW n \in NewNodes(c) PROVE sub[<<c.source[n], n>>] = "none"
    <3>1. n \in Node /\ c.source[n] \in Node /\ n \notin user
        BY <2>1 DEF NewNodes, IsConfig
    <3> QED
        BY <1>0, <3>1, NothingOnAnEmptyNode
  <2> QED
      BY <2>1, <2>2, <2>3, <2>4 DEF FirstRun
<1>6. ASSUME NEW e \in running, Called(e) PROVE FirstRun'
  <2>1. UNCHANGED <<cfg, started, phases>>
      BY <1>6 DEF Called
  <2>2. ~started
      BY RunningEvent
  <2>3. \A n \in NewNodes(cfg) :
          sub'[<<cfg.source[n], n>>] \in {sub[<<cfg.source[n], n>>], "none", "copying"}
      BY <1>6, CallsOnTheNew
  <2> QED
      BY <2>1, <2>2, <2>3 DEF FirstRun
<1> QED
    BY <1>1, <1>2, <1>3, <1>4, <1>5, <1>6, Steps

\* So does every such run of a history.
LEMMA FirstRunAlways ==
  ASSUME ~KeepBootstrap PROVE Spec => []FirstRun
<1>1. Init => FirstRun
  <2> SUFFICES ASSUME Init PROVE FirstRun
      OBVIOUS
  <2>1. cfg = Plain(InitialNodes)
      BY DEF Init, InitWith
  <2>2. NewNodes(cfg) = {}
      BY <2>1 DEF NewNodes, Plain
  <2> QED
      BY <2>2 DEF FirstRun
<1>2. MeshInv /\ FirstRun /\ [Next]_mvars => FirstRun'
    BY FirstRunLasts
<1> QED
    BY <1>1, <1>2, Invariant, PTL DEF Spec

\* Only calls and workers touch subscriptions.
LEMMA SubscriptionsMove ==
  ASSUME MeshInv, [Next]_mvars
  PROVE  UNCHANGED sub \/ Environment \/ \E e \in running : Called(e)
<1>1. ASSUME MakePlan \/ PlanFails \/ NextPhase \/ Return \/ Waits \/ Starts PROVE UNCHANGED sub
    BY <1>1 DEF MakePlan, PlanFails, NextPhase, Return, Waits, Starts, Launch, catalog
<1> QED
    BY <1>1, Steps

(* The subscriptions that populate made disabled (extraDeps in desired.go) *)
(* are enabled once slot and origin have been advanced, in every order of  *)
(* calls and failures of the run that adds the node, as long as no run is  *)
(* repeated with its bootstrap blocks.  If one is, a run of TLC shows the  *)
(* property violated.                                                      *)
THEOREM EnabledAfterTheAdvance ==
  ASSUME ~KeepBootstrap PROVE Spec => EnableAfterAdvance
<1>1. ASSUME MeshInv, FirstRun, [Next]_mvars, NEW p \in Node, NEW s \in NewNodes(cfg),
             sub[<<p, s>>] = "disabled", sub'[<<p, s>>] \in Enabled
      PROVE  <<"create", OriginAdvance(p, s)>> \in done
  <2>1. sub'[<<p, s>>] # sub[<<p, s>>] /\ sub[<<p, s>>] \notin Enabled
      BY <1>1 DEF Enabled
  <2>2. s \in Node
      BY <1>1, SourceOfTheNew DEF MeshInv
  <2>3. ~Environment
      BY <1>1, <2>1, <2>2, WorkersEnableNothing
  <2>4. PICK e \in running : Called(e)
      BY <1>1, <2>1, <2>3, SubscriptionsMove
  <2> QED
      BY <1>1, <2>4, CallsOnTheNew
<1>2. MeshInv /\ FirstRun /\ [Next]_mvars
        => [\A p \in Node, s \in NewNodes(cfg) :
              sub[<<p, s>>] = "disabled" /\ sub'[<<p, s>>] \in Enabled =>
                <<"create", OriginAdvance(p, s)>> \in done]_mvars
    BY <1>1
<1> QED
    BY <1>2, Invariant, FirstRunAlways, PTL DEF Spec, EnableAfterAdvance

\* The copy is made from a node that holds the data.
LEMMA FillingLasts ==
  ASSUME ~KeepBootstrap, MeshInv, FirstRun, SourcesHoldData, Copying, AddedNodesHoldData,
         [Next]_mvars
  PROVE  Copying' /\ AddedNodesHoldData'
<1>0. TypeOK /\ ConfigIs /\ Catalogs
    BY DEF MeshInv
<1> DEFINE src(n) == cfg.source[n]
           wait(n) == <<"create", WaitForSync(cfg.source[n], n)>>
<1>1. CASE MakePlan
  <2>1. /\ UNCHANGED <<cfg, sub, seeded>> /\ \E missed : phases' \in PlansFor(missed)
        /\ done' = {} /\ result' = "running"
      BY <1>1 DEF MakePlan, PlansFor, catalog
  <2>2. PICK missed, p : p = phases' /\ p \in PlansFor(missed)
      BY <2>1
  <2>3. ASSUME NEW n \in NewNodes(cfg) PROVE \E m \in DOMAIN p : wait(n) \in p[m]
    <3>1. WaitForSync(src(n), n) \in DesiredIds(cfg)
        BY <1>0, SourceOfTheNew, DesiredWithOneNew
    <3>2. WaitForSync(src(n), n) \notin Present
        BY DEF Present, Exists, WaitForSync
    <3>3. WaitForSync(src(n), n) \in ToCreate
        BY <3>1, <3>2 DEF ToCreate
    <3> QED
        BY <1>0, <2>2, <3>3, EventsOfPlan
  <2>4. Copying'
      BY <2>1, <2>2, <2>3 DEF Copying, Due
  <2> QED
      BY <2>1, <2>4 DEF AddedNodesHoldData
<1>2. CASE PlanFails \/ NextPhase \/ Waits
  <2>1. UNCHANGED <<cfg, sub, seeded, phases, done>>
      BY <1>2 DEF PlanFails, NextPhase, Executor!NextPhase, Waits, catalog
  <2>2. result' = "error" \/ (result' = result /\ started' = started)
      BY <1>2 DEF PlanFails, NextPhase, Executor!NextPhase, Waits
  <2>3. Copying'
      BY <2>1, <2>2 DEF Copying, Due
  <2> QED
      BY <2>1, <2>2, <2>3 DEF AddedNodesHoldData
<1>3. CASE Return
  <2>1. /\ UNCHANGED <<cfg, sub, seeded>> /\ phases' = <<>> /\ done' = {} /\ result' # "running"
        /\ result = "running" /\ running = {} /\ (failed \/ phase = Len(phases))
        /\ result' = (IF failed THEN "error" ELSE "ok")
      BY <1>3 DEF Return, catalog, Executor!Over, Executor!Outcome
  <2>2. Copying'
      BY <2>1 DEF Copying
  <2>3. ASSUME ~failed, NEW n \in NewNodes(cfg) PROVE n \in seeded
    <3>1. /\ DOMAIN phases = 1 .. Len(phases) /\ Len(phases) \in Nat /\ phase = Len(phases)
        BY <1>0, <2>1, <2>3 DEF TypeOK, Executor!TypeOK
    <3>2. \A m \in DOMAIN phases : m < phase \/ m = phase
        BY <3>1
    <3>3. \A m \in DOMAIN phases : phases[m] \subseteq done
        BY <2>1, <2>3, <3>2 DEF MeshInv, Barrier
    <3> QED
        BY <2>1, <3>3 DEF Copying, Due
  <2>4. result' = "ok" => ~failed
      BY <2>1
  <2> QED
      BY <2>1, <2>2, <2>3, <2>4 DEF AddedNodesHoldData
<1>4. CASE Environment
  <2>1. UNCHANGED <<cfg, started, phases, done, result>>
      BY <1>4 DEF Environment, WorkerStarts, LoseSlot, NodeGone, execution
  <2>2. ASSUME NEW n \in NewNodes(cfg)
        PROVE  /\ n \in seeded => n \in seeded'
               /\ sub'[<<src(n), n>>] = "replicating" => n \in seeded'
    <3>1. n \in Node /\ src(n) \in Node /\ n \in cfg.nodes
        BY <1>0, SourceOfTheNew
    <3>2. /\ n \in seeded => n \in seeded'
          /\ sub'[<<src(n), n>>] = "replicating" =>
               \/ sub[<<src(n), n>>] = "replicating"
               \/ sub[<<src(n), n>>] = "copying" /\ (src(n) \in seeded => n \in seeded')
               \/ sub[<<src(n), n>>] = "initializing"
        BY <1>4, <3>1, WorkersEnableNothing
    <3>3. sub[<<src(n), n>>] # "initializing" /\ src(n) \in seeded
        BY DEF FirstRun, SourcesHoldData
    <3>4. sub[<<src(n), n>>] = "replicating" => n \in seeded
        BY DEF Copying
    <3> QED
        BY <3>2, <3>3, <3>4
  <2>3. Copying'
      BY <2>1, <2>2 DEF Copying, Due
  <2> QED
      BY <2>1, <2>2, <2>3 DEF AddedNodesHoldData
<1>5. CASE Starts
  <2>1. PICK c : Launch(c) /\ IsConfig(c) /\ OneNew(c) /\ c.nodes \subseteq Node
                   /\ \A n \in NewNodes(c) : n \notin user
      BY <1>5 DEF Starts
  <2>2. /\ cfg' = c /\ started' = TRUE /\ result # "running" /\ UNCHANGED <<user, sub, done, result>>
      BY <2>1 DEF Launch, Idle, catalog, execution
  <2>3. done = {}
      BY <2>2 DEF MeshInv, Barrier
  <2>4. ASSUME NEW n \in NewNodes(c) PROVE sub[<<c.source[n], n>>] = "none"
    <3>1. n \in Node /\ c.source[n] \in Node /\ n \notin user
        BY <2>1 DEF NewNodes, IsConfig
    <3> QED
        BY <1>0, <3>1, NothingOnAnEmptyNode
  <2>5. Copying'
      BY <2>2, <2>3, <2>4 DEF Copying
  <2> QED
      BY <2>2, <2>5 DEF AddedNodesHoldData
<1>6. ASSUME NEW e \in running, Called(e) PROVE Copying' /\ AddedNodesHoldData'
  <2>1. /\ UNCHANGED <<cfg, phases, result>>
        /\ \/ done' = done \union {e} /\ Effect(e)
           \/ done' = done /\ (Effect(e) \/ UNCHANGED catalog)
      BY <1>6 DEF Called
  <2>2. result = "running" /\ seeded' = seeded
    <3>1. UNCHANGED catalog => seeded' = seeded
        BY DEF catalog
    <3> QED
        BY <2>1, <3>1, RunningEvent, EffectOnCatalogs
  <2>3. ASSUME NEW n \in NewNodes(cfg)
        PROVE  sub'[<<src(n), n>>] = "replicating" => n \in seeded
    <3>1. sub'[<<src(n), n>>] \in {sub[<<src(n), n>>], "none", "copying"}
        BY <1>6, CallsOnTheNew
    <3> QED
        BY <3>1 DEF Copying
  <2>4. ASSUME NEW n \in NewNodes(cfg), e = wait(n), e \in done' PROVE n \in seeded
    <3>1. e \notin done
        BY RunningEvent
    <3>2. Effect(e)
        BY <2>1, <2>4, <3>1
    <3>3. Arrived(src(n), n)
        BY <2>4, <3>2 DEF Effect, Create, CreateWaitForSync, WaitForSync, Positions
    <3> QED
        BY <3>3 DEF Arrived, Copying
  <2>5. \A d : d \in done' <=> d \in done \/ (d = e /\ e \in done')
      BY <2>1
  <2>6. ASSUME NEW n \in NewNodes(cfg)
        PROVE  /\ wait(n) \in done' => n \in seeded
               /\ n \in seeded \/ Due(wait(n))'
    <3>1. /\ wait(n) \in done => n \in seeded
          /\ n \in seeded \/ Due(wait(n))
        BY <2>2 DEF Copying
    <3>2. n \in seeded \/ wait(n) \notin done'
        BY <2>4, <2>5, <3>1
    <3> QED
        BY <2>1, <3>1, <3>2 DEF Due
  <2>7. Copying'
      BY <2>1, <2>2, <2>3, <2>6 DEF Copying
  <2> QED
      BY <2>1, <2>2, <2>7 DEF AddedNodesHoldData
<1> QED
    BY <1>1, <1>2, <1>3, <1>4, <1>5, <1>6, Steps

\* So is every copy of a history.
LEMMA FillingAlways ==
  ASSUME ~KeepBootstrap PROVE Spec /\ []SourcesHoldData => [](Copying /\ AddedNodesHoldData)
<1>1. Init => Copying /\ AddedNodesHoldData
  <2> SUFFICES ASSUME Init PROVE Copying /\ AddedNodesHoldData
      OBVIOUS
  <2>1. cfg = Plain(InitialNodes)
      BY DEF Init, InitWith
  <2>2. NewNodes(cfg) = {}
      BY <2>1 DEF NewNodes, Plain
  <2> QED
      BY <2>2 DEF Copying, AddedNodesHoldData
<1>2. MeshInv /\ FirstRun /\ SourcesHoldData /\ Copying /\ AddedNodesHoldData /\ [Next]_mvars
        => Copying' /\ AddedNodesHoldData'
    BY FillingLasts
<1> QED
    BY <1>1, <1>2, Invariant, FirstRunAlways, PTL DEF Spec

(* A job that adds a node and exits with success has copied the data of    *)
(* its source, if sourceNode names a node that holds the data.  A node     *)
(* whose own population failed, and that a later run without bootstrap     *)
(* blocks joined to the mesh, does not: nothing in the code tells it apart.*)
THEOREM AddedNodesAreFilled ==
  ASSUME ~KeepBootstrap PROVE Spec /\ []SourcesHoldData => []AddedNodesHoldData
BY FillingAlways, PTL

(* Nothing enables a subscription to the new node, or creates one, before  *)
(* the wait for its copy has ended (extraDeps in desired.go), with what    *)
(* failed runs and removed nodes of the same name may have left behind.    *)
THEOREM NewSpeaksLast ==
  ASSUME ~KeepBootstrap PROVE Spec /\ []SourcesHoldData => NewSpeaksAfterCopy
<1>1. ASSUME MeshInv, FirstRun, Copying, [Next]_mvars, NEW n \in NewNodes(cfg), NEW s \in Node,
             sub[<<n, s>>] \notin Enabled, sub'[<<n, s>>] \in Enabled
      PROVE  n \in seeded
  <2>1. sub'[<<n, s>>] # sub[<<n, s>>]
      BY <1>1
  <2>2. n \in Node
      BY <1>1, SourceOfTheNew DEF MeshInv
  <2>3. ~Environment
      BY <1>1, <2>2, WorkersEnableNothing
  <2>4. PICK e \in running : Called(e)
      BY <1>1, <2>1, <2>3, SubscriptionsMove
  <2>5. <<"create", WaitForSync(cfg.source[n], n)>> \in done
      BY <1>1, <2>4, CallsOnTheNew
  <2> QED
      BY <1>1, <2>5 DEF Copying
<1>2. MeshInv /\ FirstRun /\ Copying /\ [Next]_mvars
        => [\A n \in NewNodes(cfg), s \in Node :
              sub[<<n, s>>] \notin Enabled /\ sub'[<<n, s>>] \in Enabled => n \in seeded]_mvars
    BY <1>1
<1> QED
    BY <1>2, Invariant, FirstRunAlways, FillingAlways, PTL DEF Spec, NewSpeaksAfterCopy
=============================================================================
