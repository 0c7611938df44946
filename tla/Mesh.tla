--------------------------------- MODULE Mesh ---------------------------------
(***************************************************************************)
(* The init-spock job against the databases of the mesh, over a history of *)
(* helm upgrades: RefreshActual, Plan, Execute, with what each resource's  *)
(* Create, Update and Delete do to the catalogs.                           *)
(*                                                                         *)
(* Between and during runs, replication workers start, slots get lost,     *)
(* removed nodes disappear, statements fail with or without their effect,  *)
(* and the job is stopped.  Every run starts from what the runs before it  *)
(* left behind.  Positions in the WAL and the rows themselves are left     *)
(* out: a node either holds the cluster's data (seeded) or does not.       *)
(***************************************************************************)
EXTENDS Desired, ResourcePlan, FiniteSets

CONSTANTS
  Node,           (* Node names.                                           *)
  InitialNodes,   (* The nodes of the first install.                       *)
  Past,           (* What the first job finds, see Init.                   *)
  MaxUpgrades,    (* Bound: upgrades that change the list of nodes, the    *)
                  (* install and a reset among them.                       *)
  MaxFaults,      (* Bound: failed statements, stopped jobs, lost slots.   *)
  KeepBootstrap   (* A run may be repeated with its bootstrap blocks.      *)

ASSUME MeshAssumption ==
  /\ IsFiniteSet(Node) /\ InitialNodes \subseteq Node /\ InitialNodes # {}
  /\ NoSource \notin Node
  /\ MaxUpgrades \in Nat /\ MaxFaults \in Nat
  /\ KeepBootstrap \in BOOLEAN
  /\ Past \subseteq {"nothing", "mesh", "reset"}
  /\ Past # {"mesh"} => MaxUpgrades > 0

VARIABLES
  cfg,        (* The configuration the job reads (Desired.tla).            *)
  user,       (* Nodes whose database has the pgedge role.                 *)
  local,      (* Nodes whose spock.local_node is set.                      *)
  known,      (* The node names in each node's spock.node.                 *)
  sub,        (* State of the subscription <<provider, subscriber>>, kept  *)
              (* on the subscriber.                                        *)
  slot,       (* Slots <<provider, subscriber>>, kept on the provider.     *)
  seeded,     (* Nodes that hold the cluster's data.                       *)
  started,    (* A job has been created and has not planned yet.           *)
  blind,      (* Survivors whose orphan nodes this run did not all read.   *)
  phases, phase, running, done, failed, cancelled, result,  (* Executor.tla *)
  upgrades, faults   (* What the bounds count.                             *)

catalog == <<user, local, known, sub, slot, seeded>>
execution == <<phases, phase, running, done, failed, cancelled, result>>
mvars == <<cfg, catalog, started, blind, execution, upgrades, faults>>

SubState == {"none", "disabled", "initializing", "copying", "replicating"}
Enabled == {"initializing", "copying", "replicating"}

\* Events carry keys of the two maps: identifiers, and <<"orphan", o, s>> for
\* the SpockNode of the orphan o on the survivor s ("o@s" in the code).
Keys == {"user", "node", "orphan", "slot", "subscription", "slot_create",
         "disabled_subscription", "sync_event", "wait_for_sync_event",
         "peer_catchup", "lag_tracker_commit_ts", "slot_advance",
         "origin_advance"} \X Node \X Node

Executor == INSTANCE Executor
              WITH Event <- {"create", "update", "delete"} \X Keys

-----------------------------------------------------------------------------
(* Refresh.                                                                *)

\* What is left of removed nodes in the catalogs of the others.
OrphanNodes ==
  {<<"orphan", pr[1], pr[2]>> :
     pr \in {q \in Node \X cfg.nodes : q[1] \in known[q[2]] \ cfg.nodes}}

OrphanSlots ==
  {Slot(pr[1], pr[2]) : pr \in {q \in slot : q[1] \in cfg.nodes /\ q[2] \notin cfg.nodes}}

\* Each survivor is asked in two queries, one for nodes and one for slots;
\* this is the one whose rows hold k.
Scan(k) == <<k[1], IF k[1] = "orphan" THEN k[3] ELSE k[2]>>

\* Mutation: orphan slots are not looked for.
Orphans_NoSlots(missed) ==
  LET Seen == OrphanNodes \ missed
  IN  Seen \union {Subscription(k[2], k[3]) : k \in Seen}

\* Mutation: the subscription of an orphan is not inferred.
Orphans_NoSubs(missed) == (OrphanNodes \union OrphanSlots) \ missed

\* discoverOrphans.  A query that fails, a row that cannot be read and a scan
\* that breaks off are no errors: what was missed stays out of the plan.
Orphans(missed) ==
  LET Seen == OrphanNodes \ missed
  IN  Seen \union {Subscription(k[2], k[3]) : k \in Seen}
        \union (OrphanSlots \ missed)

\* Refresh.  A subscription exists in any state.
UserExists(n)   == n \in user
NodeExists(n)   == n \in local
SubExists(p, s) == sub[<<p, s>>] # "none"

\* Mutation: slots are never found.
SlotExists_Never(p, s) == FALSE
SlotExists(p, s)       == <<p, s>> \in slot

\* The resources of the populate chain always answer that they do not exist.
Exists(id) ==
  \/ id[1] = "user" /\ UserExists(id[2])
  \/ id[1] = "node" /\ NodeExists(id[2])
  \/ id[1] = "slot" /\ SlotExists(id[2], id[3])
  \/ id[1] = "subscription" /\ SubExists(id[2], id[3])

\* The resources of the configuration that exist.  Orphans do not matter to
\* the statuses below: Plan reads those of desired resources only.
Present == {id \in DesiredIds(cfg) : Exists(id)}

\* Mutation: the slot of the opposite direction is looked up.
NeedsRecreate_WrongSlot ==
  {k \in Present : k[1] = "subscription" /\ Slot(k[3], k[2]) \notin Present}

\* Mutation: a subscription without its slot is not noticed.
NeedsRecreate_Never == {}

\* checkSlotHealth, which overrides the status Subscription.Refresh set.
NeedsRecreate ==
  {k \in Present : k[1] = "subscription" /\ Slot(k[2], k[3]) \notin Present}

\* Mutation: a disabled subscription is taken for a working one.
NeedsUpdate_Never == {}

\* Subscription.Refresh: a disabled subscription is to be enabled.
NeedsUpdate ==
  {k \in Present : k[1] = "subscription" /\ sub[<<k[2], k[3]>>] = "disabled"}

Identifier(k) == IF k[1] = "orphan" THEN SpockNode(k[2]) ELSE k
Deps(k) == IF k[1] = "orphan" THEN NodeDeps(k[2]) ELSE Dependencies(cfg, k)

\* Reconcile up to Execute: ComputeDesired, RefreshActual, Plan.  Each scan
\* that misses rows is a fault.
MakePlan ==
  /\ started
  /\ started' = FALSE
  /\ \E missed \in SUBSET (OrphanNodes \union OrphanSlots) :
       /\ faults' = faults + Cardinality({Scan(k) : k \in missed}) /\ faults' <= MaxFaults
       /\ blind' = {k[3] : k \in missed \intersect OrphanNodes}
       /\ LET desired == DesiredIds(cfg)
              actual  == Present \union Orphans(missed)
              idOf    == [k \in actual \union desired |-> Identifier(k)]
              deps    == [k \in actual \union desired |-> Deps(k)]
          IN  phases' \in Plans(actual, desired, NeedsRecreate, NeedsUpdate, idOf, deps)
  /\ phase' = 0 /\ running' = {} /\ done' = {} /\ failed' = FALSE
  /\ cancelled' = FALSE /\ result' = "running"
  /\ UNCHANGED <<cfg, catalog, upgrades>>

\* The job ends before it plans: a cluster does not become ready, a database
\* does not answer, or the Refresh of a resource returns an error.
PlanFails ==
  /\ started
  /\ started' = FALSE
  /\ result' = "error"
  /\ faults < MaxFaults /\ faults' = faults + 1
  /\ UNCHANGED <<cfg, catalog, blind, phases, phase, running, done, failed,
                 cancelled, upgrades>>

-----------------------------------------------------------------------------
(* What the calls do.  A transaction of several statements commits or does *)
(* not, so each call has one effect.                                       *)

SetSub(p, s, state) == sub' = [sub EXCEPT ![<<p, s>>] = state]
Knows(s, n) == known' = [known EXCEPT ![s] = @ \union {n}]

\* CREATE ROLE and grants, in a transaction.
CreateUser(n) == user' = user \union {n} /\ UNCHANGED <<local, known, sub, slot, seeded>>

\* spock.node_create, unless a row of that name is in spock.node already.
CreateNode(n) ==
  \/ n \in known[n] /\ UNCHANGED catalog
  \/ /\ n \notin known[n]
     /\ local' = local \union {n}
     /\ Knows(n, n)
     /\ UNCHANGED <<user, sub, slot, seeded>>

\* Subscription.Create: enable what populate made, else sub_create.  Spock
\* registers the provider on the subscriber with the subscription.
CreateSubscription(p, s) ==
  \/ /\ sub[<<p, s>>] = "disabled"
     /\ SetSub(p, s, "initializing")
     /\ UNCHANGED <<user, local, known, slot, seeded>>
  \/ /\ sub[<<p, s>>] = "none"
     /\ SetSub(p, s, IF IsCopy(cfg, p, s) THEN "copying" ELSE "initializing")
     /\ Knows(s, p)
     /\ UNCHANGED <<user, local, slot, seeded>>
  \/ sub[<<p, s>>] \in Enabled /\ UNCHANGED catalog

\* ReplicationSlot.Create leaves the slot to Spock.
CreateNoSlot == UNCHANGED catalog

\* ReplicationSlotCreate.Create, which skips an existing slot.
CreateSlot(p, s) ==
  slot' = slot \union {<<p, s>>} /\ UNCHANGED <<user, local, known, sub, seeded>>

\* DisabledSubscription.Create.
CreateDisabledSub(p, s) ==
  \/ sub[<<p, s>>] # "none" /\ UNCHANGED catalog
  \/ /\ sub[<<p, s>>] = "none"
     /\ SetSub(p, s, "disabled")
     /\ Knows(s, p)
     /\ UNCHANGED <<user, local, slot, seeded>>

\* Mutation: the waits end with the event, replayed or not.
Arrived_Emitted(p, s) == <<"create", SyncEvent(p, s)>> \in done

\* The event made in this run has been replayed; without an event of this
\* run there is no LSN, which is an error.
Arrived(p, s) ==
  /\ <<"create", SyncEvent(p, s)>> \in done
  /\ sub[<<p, s>>] = "replicating" /\ <<p, s>> \in slot

CreateWaitForSync(p, s) == Arrived(p, s) /\ UNCHANGED catalog
CreatePeerCatchup(p, s) == Arrived(p, s) /\ UNCHANGED catalog

\* Calls that write to the WAL, or move positions in it, and no more.
Positions == {"sync_event", "lag_tracker_commit_ts", "slot_advance", "origin_advance"}

Create(k) ==
  \/ k[1] = "user" /\ CreateUser(k[2])
  \/ k[1] = "node" /\ CreateNode(k[2])
  \/ k[1] = "slot" /\ CreateNoSlot
  \/ k[1] = "subscription" /\ CreateSubscription(k[2], k[3])
  \/ k[1] = "slot_create" /\ CreateSlot(k[2], k[3])
  \/ k[1] = "disabled_subscription" /\ CreateDisabledSub(k[2], k[3])
  \/ k[1] = "wait_for_sync_event" /\ CreateWaitForSync(k[2], k[3])
  \/ k[1] = "peer_catchup" /\ CreatePeerCatchup(k[2], k[3])
  \/ k[1] \in Positions /\ UNCHANGED catalog

\* Subscription.Update: sub_enable.  No other resource has an update.
UpdateSubscription(p, s) ==
  /\ sub[<<p, s>>] # "none"
  /\ SetSub(p, s, IF sub[<<p, s>>] = "disabled" THEN "initializing" ELSE sub[<<p, s>>])
  /\ UNCHANGED <<user, local, known, slot, seeded>>

\* sub_drop leaves the provider's row to node_drop.
DeleteSubscription(p, s) ==
  SetSub(p, s, "none") /\ UNCHANGED <<user, local, known, slot, seeded>>

\* End the connection that uses the slot, and drop it.
DeleteSlot(p, s) ==
  slot' = slot \ {<<p, s>>} /\ UNCHANGED <<user, local, known, sub, seeded>>

\* node_drop of the orphan o on the survivor s.
DeleteNode(o, s) ==
  known' = [known EXCEPT ![s] = @ \ {o}] /\ UNCHANGED <<user, local, sub, slot, seeded>>

\* Users and nodes of the configuration are never deleted: both are in the
\* desired map, and nothing marks them for recreation.
Delete(k) ==
  \/ k[1] = "subscription" /\ DeleteSubscription(k[2], k[3])
  \/ k[1] = "slot" /\ DeleteSlot(k[2], k[3])
  \/ k[1] = "orphan" /\ DeleteNode(k[2], k[3])

Effect(e) ==
  \/ e[1] = "create" /\ Create(e[2])
  \/ e[1] = "update" /\ UpdateSubscription(e[2][2], e[2][3])
  \/ e[1] = "delete" /\ Delete(e[2])

\* Calls that cannot succeed as things are.
Waiting(e) ==
  e[2][1] \in {"wait_for_sync_event", "peer_catchup"} /\ ~Arrived(e[2][2], e[2][3])

-----------------------------------------------------------------------------
(* The run.                                                                *)

NextPhase == Executor!NextPhase /\ UNCHANGED <<cfg, catalog, started, blind, upgrades, faults>>

\* Mutation: the loop index survives the process.
Return_KeepsPhase ==
  /\ Executor!Over
  /\ result' = Executor!Outcome
  /\ phases' = <<>> /\ done' = {}
  /\ failed' = FALSE /\ cancelled' = FALSE
  /\ UNCHANGED <<cfg, catalog, running, phase, started, blind, upgrades, faults>>

\* The process exits; its memory is gone.
Return ==
  /\ Executor!Over
  /\ result' = Executor!Outcome
  /\ phases' = <<>> /\ phase' = 0 /\ done' = {}
  /\ failed' = FALSE /\ cancelled' = FALSE
  /\ UNCHANGED <<cfg, catalog, running, started, blind, upgrades, faults>>

\* ReplicationSlot.Create returns nil without touching anything, so it
\* commutes with every other step: these calls are taken first.
NoOps == {e \in running : e[1] = "create" /\ e[2][1] = "slot"}
MayReturn(e) == NoOps # {} => e \in NoOps

Succeed(e) ==
  /\ MayReturn(e)
  /\ Executor!Succeed(e)
  /\ Effect(e)
  /\ UNCHANGED <<cfg, started, blind, upgrades, faults>>

\* A statement fails.  Its effect may have happened: the connection can
\* break, or the context be cancelled, after COMMIT was sent.  Errors that
\* follow from a cancelled context cost no fault.
FailWith(e, effect) ==
  /\ NoOps = {}
  /\ Executor!Fail(e)
  /\ IF Executor!Asked THEN UNCHANGED faults
     ELSE faults < MaxFaults /\ faults' = faults + 1
  /\ IF effect THEN Effect(e) ELSE UNCHANGED catalog
  /\ UNCHANGED <<cfg, started, blind, upgrades>>

Fail(e) == \E effect \in BOOLEAN : FailWith(e, effect)

\* SIGTERM, or the timeout while something could still have succeeded.
Stop ==
  /\ Executor!Cancel
  /\ faults < MaxFaults /\ faults' = faults + 1
  /\ UNCHANGED <<cfg, catalog, started, blind, upgrades>>

\* The timeout of a run whose every call is waiting.
TimeOut ==
  /\ Executor!Cancel
  /\ running # {} /\ \A e \in running : Waiting(e)
  /\ UNCHANGED <<cfg, catalog, started, blind, upgrades, faults>>

-----------------------------------------------------------------------------
(* Helm, and the operator who drives it.                                   *)

Idle == ~started /\ result # "running"

Plain(nodes) ==
  [nodes |-> nodes, source |-> [n \in nodes |-> NoSource], order |-> <<>>]

Adding(new, src) ==
  LET nodes == cfg.nodes \union {new}
  IN  [nodes |-> nodes,
       source |-> [n \in nodes |-> IF n = new THEN src ELSE NoSource],
       order |-> <<new>>]

Launch(c) ==
  /\ Idle
  /\ cfg' = c
  /\ started' = TRUE
  /\ blind' = {}
  /\ UNCHANGED <<catalog, execution, faults>>

\* One new node, with an empty database, populated from an existing node.
\* validate.newNodes makes it carry a bootstrap mode.
AddNode(new, src) ==
  /\ new \notin cfg.nodes /\ src \in cfg.nodes
  /\ new \notin user
  /\ upgrades < MaxUpgrades /\ upgrades' = upgrades + 1
  /\ Launch(Adding(new, src))

RemoveNode(n) ==
  /\ n \in cfg.nodes /\ cfg.nodes # {n}
  /\ upgrades < MaxUpgrades /\ upgrades' = upgrades + 1
  /\ Launch(Plain(cfg.nodes \ {n}))

\* An upgrade that changes no node.  validate.newNodes refuses bootstrap
\* blocks on nodes of the previous release, so they are gone; a job that is
\* created again without Helm reads the ConfigMap as it is.
Repeats == IF KeepBootstrap THEN {Plain(cfg.nodes), cfg} ELSE {Plain(cfg.nodes)}

Rerun == UNCHANGED upgrades /\ \E c \in Repeats : Launch(c)

-----------------------------------------------------------------------------
(* The databases.                                                          *)

\* Spock's worker starts an enabled subscription: it makes its slot if there
\* is none, and copies the data if it was created to.
WorkerStarts(p, s) ==
  /\ sub[<<p, s>>] \in {"initializing", "copying"}
  /\ p \in local
  /\ SetSub(p, s, "replicating")
  /\ slot' = slot \union {<<p, s>>}
  /\ seeded' = IF sub[<<p, s>>] = "copying" /\ p \in seeded
               THEN seeded \union {s} ELSE seeded
  /\ UNCHANGED <<cfg, user, local, known, started, blind, execution, upgrades, faults>>

\* A slot is lost: a restore, a PostgreSQL upgrade.
LoseSlot(p, s) ==
  /\ <<p, s>> \in slot
  /\ p \in cfg.nodes /\ s \in cfg.nodes
  /\ faults < MaxFaults /\ faults' = faults + 1
  /\ slot' = slot \ {<<p, s>>}
  /\ UNCHANGED <<cfg, user, local, known, sub, seeded, started, blind, execution, upgrades>>

\* A node that was removed from the release loses its database.
NodeGone(n) ==
  /\ n \in user \ cfg.nodes
  /\ user' = user \ {n} /\ local' = local \ {n} /\ seeded' = seeded \ {n}
  /\ known' = [known EXCEPT ![n] = {}]
  /\ sub' = [pr \in DOMAIN sub |-> IF pr[2] = n THEN "none" ELSE sub[pr]]
  /\ slot' = {pr \in slot : pr[1] # n}
  /\ UNCHANGED <<cfg, started, blind, execution, upgrades, faults>>

-----------------------------------------------------------------------------

\* The databases before the first job of the history: the nodes N are set
\* up and mesh with each other, but those of R have had their Spock reset,
\* with the slots and subscriptions they held.  Each slot that is left over
\* has cost a fault: a failed clean-up, or a failed orphan scan.
InitWith(N, R, leftover) ==
  /\ cfg = Plain(InitialNodes)
  /\ started = (N = {} \/ R # {}) /\ blind = {}
  /\ user = N /\ local = N
  /\ known = [n \in Node |-> IF n \in R THEN {n} ELSE IF n \in N THEN N ELSE {}]
  /\ sub = [pr \in Node \X Node |->
              IF pr \in Pairs(N) /\ pr[2] \notin R THEN "replicating" ELSE "none"]
  /\ slot = {pr \in Pairs(N) : pr[1] \notin R} \union leftover
  /\ seeded = InitialNodes
  /\ phases = <<>> /\ phase = 0 /\ running = {} /\ done = {}
  /\ failed = FALSE /\ cancelled = FALSE /\ result = "ok"
  /\ upgrades = (IF started THEN 1 ELSE 0) /\ faults = Cardinality(leftover)

\* Empty databases, which agree; what their install leaves once every worker
\* has started; and that after a reset of some nodes or all (Job.tla), which
\* drops slots on a best effort.
Init ==
  \/ "nothing" \in Past /\ InitWith({}, {}, {})
  \/ "mesh" \in Past /\ InitWith(InitialNodes, {}, {})
  \/ /\ "reset" \in Past
     /\ \E R \in (SUBSET InitialNodes) \ {{}}, L \in SUBSET Pairs(InitialNodes) :
          /\ L \subseteq R \X Node /\ Cardinality(L) <= MaxFaults
          /\ InitWith(InitialNodes, R, L)

Next ==
  \/ MakePlan \/ PlanFails \/ NextPhase \/ Return \/ Stop \/ TimeOut \/ Rerun
  \/ \E e \in running : Succeed(e) \/ Fail(e)
  \/ \E n \in Node, m \in Node : AddNode(n, m) \/ WorkerStarts(n, m) \/ LoseSlot(n, m)
  \/ \E n \in Node : RemoveNode(n) \/ NodeGone(n)

Spec == Init /\ [][Next]_mvars

(***************************************************************************)
(* A job that was created plans: MakePlan is possible exactly when started *)
(* holds, so []<>~started is its weak fairness.  Code that is not blocked  *)
(* runs, the timeout ends a run that only waits, and an operator repeats   *)
(* the upgrade: at most one of these is possible at a time.  A call        *)
(* returns unless it waits, and any call returns once its context is       *)
(* cancelled.  Spock starts workers, strongly fair: a run that comes       *)
(* before the worker has made its slot drops and creates the subscription  *)
(* again, and an operator does not win this race forever.                  *)
(***************************************************************************)
JobOrOperator == NextPhase \/ Return \/ TimeOut \/ Rerun
CallReturns   == \E e \in running : Succeed(e) \/ (Executor!Asked /\ Fail(e))
SomeWorker    == \E n \in Node, m \in Node : WorkerStarts(n, m)

Fairness ==
  /\ []<>~started
  /\ WF_mvars(JobOrOperator) /\ WF_mvars(CallReturns) /\ SF_mvars(SomeWorker)

FairSpec == Spec /\ Fairness

-----------------------------------------------------------------------------

TypeOK ==
  /\ cfg.nodes \subseteq Node
  /\ cfg.source \in [cfg.nodes -> cfg.nodes \union {NoSource}]
  /\ user \subseteq Node /\ local \subseteq Node /\ seeded \subseteq Node
  /\ known \in [Node -> SUBSET Node]
  /\ sub \in [Node \X Node -> SubState]
  /\ slot \subseteq Pairs(Node)
  /\ started \in BOOLEAN /\ blind \subseteq Node
  /\ Executor!TypeOK
  /\ upgrades \in 0 .. MaxUpgrades /\ faults \in 0 .. MaxFaults

\* The state every run works towards.
Settled ==
  /\ cfg.nodes \subseteq user \intersect local
  /\ \A pr \in Pairs(cfg.nodes) : sub[pr] = "replicating" /\ pr \in slot
  /\ OrphanNodes = {} /\ OrphanSlots = {}

Planning == started /\ ~started' /\ result' = "running"

\* The events of a plan.
EventsOf(plan) == UNION {plan[n] : n \in DOMAIN plan}

(* A job that exits with success leaves every pair of configured nodes with *)
(* an enabled subscription, and none from a removed node on any survivor   *)
(* whose orphan nodes it read, whatever the runs before it failed at.      *)
SuccessMeansMeshed ==
  result = "ok" /\ ~started =>
    /\ cfg.nodes \subseteq user \intersect local
    /\ \A pr \in Pairs(cfg.nodes) : sub[pr] \in Enabled
    /\ \A s \in cfg.nodes \ blind, o \in Node \ cfg.nodes : sub[<<o, s>>] = "none"

(* A job that adds a node and exits with success has copied the data of    *)
(* the source to it.                                                       *)
AddedNodesHoldData ==
  result = "ok" /\ ~started => NewNodes(cfg) \subseteq seeded

(* discoverOrphanNodes infers the subscriptions to drop from the rows of   *)
(* spock.node.  So the row of a provider must outlive its subscription,    *)
(* through every failed or interrupted clean-up, or nobody ever finds it.  *)
SubscriptionsStayVisible ==
  \A p \in Node, s \in Node :
    sub[<<p, s>>] # "none" => s \in local /\ {p, s} \subseteq known[s]

(* In the run that adds a node, the subscriptions populate made disabled   *)
(* are enabled when slot and origin have been advanced, not before.        *)
EnableAfterAdvance ==
  [][\A p \in Node, s \in NewNodes(cfg) :
       sub[<<p, s>>] = "disabled" /\ sub'[<<p, s>>] \in Enabled =>
         <<"create", OriginAdvance(p, s)>> \in done]_mvars

(* In the run that adds a node, no other node subscribes to it before it   *)
(* holds the source's data.                                                *)
NewSpeaksAfterCopy ==
  [][\A n \in NewNodes(cfg), s \in Node :
       sub[<<n, s>>] \notin Enabled /\ sub'[<<n, s>>] \in Enabled =>
         n \in seeded]_mvars

(* A plan never touches a subscription or a slot between configured nodes  *)
(* that works, whatever is broken, missing or left over beside it.         *)
PlanSparesHealthy ==
  [][Planning =>
       \A pr \in Pairs(cfg.nodes) :
         sub[pr] \in Enabled /\ pr \in slot =>
           EventsOf(phases') \intersect
             ({"update", "delete"} \X {Slot(pr[1], pr[2]), Subscription(pr[1], pr[2])})
           = {}]_mvars

(* A run that finds the mesh in its final state has nothing to do.         *)
RerunIsIdempotent ==
  [][Planning /\ Settled /\ NewNodes(cfg) = {} => phases' = <<>>]_mvars

(* "Create one SpockNode per (orphan, survivor) pair so node_drop runs on   *)
(* every survivor's connection" (refresh.go:124): each orphan row found is *)
(* dropped by the plan.                                                    *)
EveryOrphanRowDropped ==
  [][Planning => {"delete"} \X OrphanNodes \subseteq EventsOf(phases')]_mvars

(* When upgrades and faults have stopped, repeated runs reach the full     *)
(* mesh and stay there: no leftover of a failed add, a failed clean-up or  *)
(* a lost slot is beyond repair.                                           *)
EventuallySettled == <>[]Settled
=============================================================================
