----------------------------- MODULE PopulatePlan -----------------------------
(***************************************************************************)
(* The plan of one reconciliation: ComputeDesired for a configuration,     *)
(* against databases where either nothing exists (a first install) or the  *)
(* nodes that are not new already form a mesh (an upgrade that adds nodes).*)
(***************************************************************************)
EXTENDS Desired, ResourcePlan

CONSTANT Configs   (* The configurations to plan for.                      *)

ASSUME ConfigAssumption ==
  \A c \in Configs :
    /\ IsFiniteSet(c.nodes) /\ NoSource \notin c.nodes
    /\ c.source \in [c.nodes -> c.nodes \union {NoSource}]
    /\ \A n \in c.nodes : c.source[n] # n
    /\ c.order \in Seq(NewNodes(c)) /\ Len(c.order) = Cardinality(NewNodes(c))
    /\ \A n \in NewNodes(c) : \E i \in DOMAIN c.order : c.order[i] = n

VARIABLES cfg, actual, phases

pvars == <<cfg, actual, phases>>

\* What exists of a healthy mesh.
Mesh(nodes) ==
  {User(n) : n \in nodes} \union {SpockNode(n) : n \in nodes}
    \union {Slot(pr[1], pr[2]) : pr \in Pairs(nodes)}
    \union {Subscription(pr[1], pr[2]) : pr \in Pairs(nodes)}

Init ==
  /\ cfg \in Configs
  /\ actual \in {{}, Mesh(cfg.nodes \ NewNodes(cfg))}
  /\ phases = <<>>

\* ComputeDesired, then Plan.
MakePlan ==
  /\ phases = <<>>
  /\ LET desired == DesiredIds(cfg)
         idOf == [k \in desired |-> k]
         deps == [k \in desired |-> Dependencies(cfg, k)]
     IN  phases' \in Plans(actual, desired, {}, {}, idOf, deps)
  /\ UNCHANGED <<cfg, actual>>

Next == MakePlan
Spec == Init /\ [][Next]_pvars

-----------------------------------------------------------------------------

\* The number of the phase that creates id.
PhaseOf(id) == CHOOSE n \in DOMAIN phases : <<"create", id>> \in phases[n]

\* a is created, and in an earlier phase than b.
Precedes(a, b) == PhaseOf(a) < PhaseOf(b)

Planned == phases # <<>>

(* "Creates are ordered so dependencies come first" (plan.go:6): what is   *)
(* created in a phase has all its dependencies from before the run or from *)
(* an earlier phase.                                                       *)
DependenciesFirst ==
  \A n \in DOMAIN phases : \A ev \in phases[n] :
    \A d \in Dependencies(cfg, ev[2]) :
      d \in actual \/ \E m \in 1 .. n - 1 : <<"create", d>> \in phases[m]

(* The gates of the initial copy: on every peer the slot that keeps its    *)
(* new writes exists, and the source has caught up with what the peer had  *)
(* written when the slot was made.  Without either, rows the peer commits  *)
(* around the copy reach the new node by neither way.                      *)
CopyAfterPeersAreCaptured ==
  Planned =>
    \A new \in NewNodes(cfg) : \A p \in Peers(cfg, new) :
      LET src == cfg.source[new]
      IN  /\ Precedes(SlotCreate(p, new), SyncEvent(p, src))
          /\ Precedes(SyncEvent(p, src), WaitForSync(p, src))
          /\ Precedes(WaitForSync(p, src), Subscription(src, new))
          /\ Precedes(PeerCatchup(p, src), Subscription(src, new))

(* The end-state Subscription of a peer enables the one DisabledSub made.  *)
(* No dependency says that DisabledSub comes first: it follows from the    *)
(* length of the chain the other one waits for.  In the other order, the   *)
(* subscription would start replicating before slot and origin advance.    *)
DisabledBeforeEnabled ==
  Planned =>
    \A new \in NewNodes(cfg) : \A p \in Peers(cfg, new) :
      /\ Precedes(DisabledSub(p, new), LagTracker(p, new))
      /\ Precedes(OriginAdvance(p, new), Subscription(p, new))

(* Nobody subscribes to a new node before it has what the source had: a    *)
(* new node's own subscribers start after the source's sync event arrived. *)
NewSpeaksAfterCopy ==
  Planned =>
    \A new \in NewNodes(cfg) : \A other \in cfg.nodes \ {new} :
      /\ Precedes(Subscription(cfg.source[new], new),
                  WaitForSync(cfg.source[new], new))
      /\ Precedes(WaitForSync(cfg.source[new], new), Subscription(new, other))
=============================================================================
