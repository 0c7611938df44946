------------------------------- MODULE Desired -------------------------------
(***************************************************************************)
(* ComputeDesired of internal/spock/desired.go and the Dependencies() of   *)
(* every resource type of internal/spock: what a configuration asks for.   *)
(*                                                                         *)
(* A configuration is a record: nodes, the set of node names; source, the  *)
(* bootstrap.sourceNode of each node with bootstrap.mode spock, and        *)
(* NoSource for the others; order, the new nodes in the order in which the *)
(* iteration of the newNodes map happens to visit them.                    *)
(*                                                                         *)
(* Identifiers are triples.  Slot names and subscription names are         *)
(* injective here (Node values are opaque); the collisions the real names  *)
(* allow are not modelled in this module.                                  *)
(***************************************************************************)
EXTENDS Naturals, Sequences

CONSTANT NoSource

User(n)              == <<"user", n, n>>
SpockNode(n)         == <<"node", n, n>>
Slot(p, s)           == <<"slot", p, s>>
Subscription(p, s)   == <<"subscription", p, s>>
SlotCreate(p, s)     == <<"slot_create", p, s>>
DisabledSub(p, s)    == <<"disabled_subscription", p, s>>
SyncEvent(p, s)      == <<"sync_event", p, s>>
WaitForSync(p, s)    == <<"wait_for_sync_event", p, s>>
PeerCatchup(p, s)    == <<"peer_catchup", p, s>>
LagTracker(p, s)     == <<"lag_tracker_commit_ts", p, s>>
SlotAdvance(p, s)    == <<"slot_advance", p, s>>
OriginAdvance(p, s)  == <<"origin_advance", p, s>>

Pairs(nodes) == {pr \in nodes \X nodes : pr[1] # pr[2]}

\* The nodes to populate from another one.
NewNodes(cfg) == {n \in cfg.nodes : cfg.source[n] # NoSource}

Peers(cfg, new) == cfg.nodes \ {new, cfg.source[new]}

\* addPopulateResources for one new node.
PopulateResources(cfg, new) ==
  LET src == cfg.source[new]
  IN  {SyncEvent(src, new), WaitForSync(src, new)}
        \union UNION {{SlotCreate(p, new), DisabledSub(p, new), SyncEvent(p, src),
                       WaitForSync(p, src), PeerCatchup(p, src), LagTracker(p, new),
                       SlotAdvance(p, new), OriginAdvance(p, new)} :
                      p \in Peers(cfg, new)}

\* The peer-side gates of the source -> new subscription.
PeerDeps(cfg, new) ==
  LET src == cfg.source[new]
  IN  UNION {{WaitForSync(p, src), PeerCatchup(p, src)} : p \in Peers(cfg, new)}

DesiredIds(cfg) ==
  {User(n) : n \in cfg.nodes} \union {SpockNode(n) : n \in cfg.nodes}
    \union {Slot(pr[1], pr[2]) : pr \in Pairs(cfg.nodes)}
    \union {Subscription(pr[1], pr[2]) : pr \in Pairs(cfg.nodes)}
    \union UNION {PopulateResources(cfg, n) : n \in NewNodes(cfg)}

\* Mutation: no subscription synchronises data.
IsCopy_Never(cfg, p, s) == FALSE

\* The subscription that copies the source's data.
IsCopy(cfg, p, s) == s \in NewNodes(cfg) /\ cfg.source[s] = p

\* Mutation: the peers' subscriptions do not wait for the origin advance.
SubscriptionGates_NoAdvance(cfg, p, s) ==
  IF IsCopy(cfg, p, s) THEN PeerDeps(cfg, s)
  ELSE {WaitForSync(cfg.source[n], n) : n \in NewNodes(cfg) \intersect {p}}

\* Mutation: subscriptions from the new node do not wait for its copy.
SubscriptionGates_NoWait(cfg, p, s) ==
  IF IsCopy(cfg, p, s) THEN PeerDeps(cfg, s)
  ELSE {OriginAdvance(p, s) : n \in NewNodes(cfg) \intersect {s}}

\* The extraDeps of the end-state subscription p -> s.
SubscriptionGates(cfg, p, s) ==
  IF IsCopy(cfg, p, s) THEN PeerDeps(cfg, s)
  ELSE {OriginAdvance(p, s) : n \in NewNodes(cfg) \intersect {s}}
         \union {WaitForSync(cfg.source[n], n) : n \in NewNodes(cfg) \intersect {p}}

\* Several new nodes can emit a SyncEvent with the same identifier: as a
\* peer's event towards their common source, or as the source's own.  The
\* map keeps the one of the node visited last, with its extraDeps.
Emitters(cfg, p, s) ==
  {n \in NewNodes(cfg) :
     \/ cfg.source[n] = s /\ p \in Peers(cfg, n)
     \/ cfg.source[n] = p /\ n = s}

\* Mutation: a peer's event does not wait for the peer's slot.
SyncEventGates_None(cfg, p, s) == {}

SyncEventGates(cfg, p, s) ==
  LET Visits == {i \in DOMAIN cfg.order : cfg.order[i] \in Emitters(cfg, p, s)}
      last   == cfg.order[CHOOSE i \in Visits : \A j \in Visits : j <= i]
  IN  IF last = s THEN {} ELSE {SlotCreate(p, last)}

\* Dependencies() of each type.  An orphan subscription, of which one end is
\* not configured, has no extraDeps.
NodeDeps(n)              == {User(n)}
SlotDeps(p)              == {SpockNode(p)}
SubscriptionDeps(cfg, p, s) ==
  {SpockNode(p), SpockNode(s), Slot(p, s)}
    \union (IF {p, s} \subseteq cfg.nodes THEN SubscriptionGates(cfg, p, s) ELSE {})
SlotCreateDeps(p)        == {SpockNode(p)}
DisabledSubDeps(p, s)    == {SpockNode(p), SpockNode(s), SlotCreate(p, s)}
SyncEventDeps(cfg, p, s) ==
  {SpockNode(p), Subscription(p, s)} \union SyncEventGates(cfg, p, s)
WaitForSyncDeps(p, s)    == {SyncEvent(p, s)}
PeerCatchupDeps(p, s)    == {SyncEvent(p, s)}
LagTrackerDeps(cfg, s)   == {SpockNode(s), WaitForSync(cfg.source[s], s)}
SlotAdvanceDeps(p, s)    == {SpockNode(p), LagTracker(p, s)}
OriginAdvanceDeps(p, s)  == {SlotAdvance(p, s)}

Dependencies(cfg, id) ==
  LET p == id[2]
      s == id[3]
  IN CASE id[1] = "user"                  -> {}
       [] id[1] = "node"                  -> NodeDeps(p)
       [] id[1] = "slot"                  -> SlotDeps(p)
       [] id[1] = "subscription"          -> SubscriptionDeps(cfg, p, s)
       [] id[1] = "slot_create"           -> SlotCreateDeps(p)
       [] id[1] = "disabled_subscription" -> DisabledSubDeps(p, s)
       [] id[1] = "sync_event"            -> SyncEventDeps(cfg, p, s)
       [] id[1] = "wait_for_sync_event"   -> WaitForSyncDeps(p, s)
       [] id[1] = "peer_catchup"          -> PeerCatchupDeps(p, s)
       [] id[1] = "lag_tracker_commit_ts" -> LagTrackerDeps(cfg, s)
       [] id[1] = "slot_advance"          -> SlotAdvanceDeps(p, s)
       [] id[1] = "origin_advance"        -> OriginAdvanceDeps(p, s)
=============================================================================
