# Verification of the init-spock job of pgedge-helm

The pgedge-helm chart runs pgEdge Postgres on Kubernetes: one CloudNativePG
cluster per node, and full-mesh logical replication between the nodes with the
Spock extension. What the chart cannot say declaratively is done by the
`init-spock` job, a Go program that runs after every install and upgrade and
reconciles the Spock objects in the databases with the list of nodes. That
program is what these TLA+ modules model, check and prove things about.

Paths below are relative to the root of the repository.

## The system

| component | code | state it keeps | operations |
|---|---|---|---|
| topological sort | `internal/resource/plan.go` `topoSort` | in-degree counters, phases so far | one loop iteration, cycle branch |
| plan | `internal/resource/plan.go` `Plan` | none (pure) | diff of actual and desired, recreate, update |
| executor | `internal/resource/executor.go` | goroutines of a phase, the errgroup's error and context | start a phase, return of a call, first error, cancellation |
| desired state | `internal/spock/desired.go` | none (pure) | end-state mesh, populate chain of a new node |
| refresh and orphan discovery | `internal/spock/refresh.go` | statuses | Refresh of each resource, slot health, orphan scans |
| end-state resources | `user.go`, `node.go`, `subscription.go`, `replication_slot.go` in `internal/spock` | catalogs of each database | Refresh, Create, Update, Delete |
| populate resources | the eight other resource files of `internal/spock` | slots, disabled subscriptions, LSNs handed from one to the next by pointer | Create, always |
| reset | `internal/spock/reset.go`, `repset.go` | replication sets, in memory, from the backup to the restore | reset of all nodes, or of restored ones |
| start of the job | `cmd/init-spock/main.go`, `internal/cluster`, `internal/pg` | context, pools | signals, timeout, waits for clusters and databases |
| configuration | `internal/config`, `templates/pgedge-config-map.yaml` | the node list | load |
| helm hook and validation | `templates/init-spock-job.yaml`, `templates/_helpers.tpl` | the ConfigMap of the previous release | one job per install or upgrade, `validate.newNodes` |
| names | `internal/spock/names.go` | none | slot and subscription names |

`main` loads the configuration, waits for the clusters, opens a pool per node,
resets Spock where asked, and calls `Reconcile`: `ComputeDesired` builds the
resources the configuration asks for, `RefreshActual` asks the databases which
of them exist and adds what removed nodes left behind, `Plan` makes phases of
events with `topoSort`, `Execute` runs them. There is no state outside the
databases and the ConfigMap: a run that fails is repaired by the next one, from
whatever the databases look like then.

### What is hard

* **Order.** Adding a node without stopping writes takes a chain of gates over
  three kinds of nodes. The code states them as dependencies of resources and
  leaves the order to `topoSort`; some of what it needs (the disabled
  subscription before the one that enables it) is stated nowhere.
* **Concurrency.** The events of a phase run in parallel on different
  databases; Spock's workers start subscriptions and make slots by themselves.
* **Positions.** The rows of a peer reach a new node on two ways, with the copy
  and through the peer's slot. Where one ends and the other starts is worked
  out from a timestamp, while peers write and workers run.
* **Memory that must survive.** A reset drops the extension with what users
  have configured in it, and puts that back from the memory of the process.
* **Partial failure.** Any statement can fail, with or without its effect; the
  timeout or SIGTERM cancels all; failed or incomplete
  orphan scans are only logged.
* **Repair.** Every run has to cope with any state a failed run leaves, and
  must not make what works worse.

### What makes each component correct

* topological sort: order kept on acyclic graphs, only order that cannot be
  kept given up on cyclic ones, nothing lost or repeated, no needless barrier,
  termination.
* executor: the order of the dependencies implemented by phases, nothing
  started after an error, success means everything, no goroutine left.
* desired state: the gates of the populate chain, in the phases that result.
* reconciliation as a whole: success means a full mesh; a clean-up is never
  blinded by its own half-done work; gates hold across failed runs; plans leave
  alone what works; a second run has nothing to do; repeated runs converge.

* populate: no commit of a peer is lost between copy and slot, none is applied
  twice, and all arrive.
* start and reset: nothing is dropped before all nodes answer; what users
  configured is lost only where the documentation says so; a reset that was
  left half done is completed.

`PROJECT.json` lists the hazards at their lines with the properties that cover
them.

## Modules

```
Layering            what topoSort computes, without counters
LayeringProofs      what Layers is, on every finite set
TopoSort            topoSort: counters, event map, cycle branch    (extends Layering)
TopoSortProofs      theorems about TopoSort                        (extends LayeringProofs)
DependencyOrder     abstract: an order of operations, no phases
Executor            Execute: phases, goroutines, errors, cancellation
OrderedExecutor     Executor on plans that respect an order; implements DependencyOrder
OrderedExecutorProofs  theorems about OrderedExecutor
ResourcePlan        Plan as operators                              (extends Layering)
Desired             ComputeDesired and Dependencies() as operators
PlanProofs          what a plan is                   (Desired, ResourcePlan, LayeringProofs)
PopulatePlan        one plan of one configuration                  (Desired, ResourcePlan)
PopulatePlanProofs  theorems about PopulatePlan                    (extends PlanProofs)
Mesh                runs of the job against the databases, over a history of upgrades
                    (extends Desired, ResourcePlan; instantiates Executor)
MeshProofs          theorems about Mesh                            (extends PlanProofs)
Populate            Mesh with positions in the WAL, while a node is added (extends Mesh)
PopulateProofs      theorems about Populate                        (extends MeshProofs)
Job                 the job up to Reconcile: waits, connections, the reset
JobProofs           theorems about Job
MC*                 small instances for TLC
```

**TopoSort.** One `EmitReady` is one iteration of the loop of `plan.go:97-124`,
`EmitCycle` the branch of lines 105-113. `inDegree` is the map of the code, its
domain what is still to be emitted; `phases` holds identifiers. Events and
identifiers differ, because `topoSort` files events by `Identifier()`, which
several events may share. The decrement over the ready events of an iteration
is one step; it includes what would happen if a counter that was deleted were
decremented again.

**Layering.** `Layers` gives the same phases by definition: what nothing
precedes, then what only that precedes, with everything on or behind a cycle
last. `MatchesLayers` says that `TopoSort` computes it on every graph; it is
checked and proved, and it is why `ResourcePlan` may use `Layers` for
`topoSort`.

**Executor, OrderedExecutor, DependencyOrder.** `NextPhase` spawns the
goroutines of a phase after `g.Wait()` returned nil, `Succeed` and `Fail` are
returns of one call, `Return` is the end of `Execute`, `Cancel` is the timeout
or a signal. The abstract module has no phases: an operation starts when all it
must follow have succeeded. The mapping is the identity on everything but the
plan, which becomes the set of its events.

**Desired, ResourcePlan, PopulatePlan.** `DesiredIds` is the key set of the map
that `ComputeDesired` returns. Each resource type's `Dependencies()` is an operator
(`NodeDeps`, `SubscriptionDeps`, ...) with the `extraDeps` its constructor is given;
`Dependencies` dispatches on the type. With several new nodes the events they
overwrite in the map are resolved by `order`, the order in which the `newNodes`
map happens to be visited. `Plans` is a set, because of several events with one
identifier any may survive.

**Mesh.** The catalogs are `user` (roles), `local` (`spock.local_node`),
`known` (`spock.node`), `sub` (subscription states, on the subscriber), `slot`
(on the provider); `seeded` says which nodes hold the cluster's data. One
definition per Refresh, Create, Update and Delete says what the call does to
them; `Succeed` and `Fail` join them with the executor's actions. `MakePlan`
is everything from `ComputeDesired` to `Plan`, in one step: no goroutine of
the job runs while it refreshes, and what the databases do meanwhile could as
well have happened before or after, up to a slot that appears between two
queries, whose effect is that of a run slightly earlier. `Launch` is Helm's
hook. The rest is the environment: workers, lost slots, databases that go.

Choices in `Mesh` that a reader should know:

* A call is one transaction, or one statement that matters, so it has one
  effect; `Fail` may keep it (the connection breaks after COMMIT was sent).
* `sub_drop` leaves the provider's row in `spock.node` and the slot to the
  other calls, and `node_drop` always succeeds. Both are weaker than Spock,
  which would refuse to drop a node with a subscription left:
  `SubscriptionsStayVisible` therefore rests on the order in the code alone.
* An enabled subscription gets its slot from Spock's worker, some time later.
* Calls of `ReplicationSlot.Create`, which return nil without doing anything,
  return before other calls do: they commute with every other step.
* The two orphan scans of a survivor fail separately, and each may miss any of
  its rows: the query fails, breaks off, or a row cannot be read. `MakePlan`
  chooses what is `missed`, at one fault per scan; `blind` are the survivors
  whose orphan nodes were not all read, of which `SuccessMeansMeshed` promises
  nothing about removed nodes.
* The resources of the populate chain that only move positions in the WAL have
  no effect here; that they are done, in order, is what is checked.
* The two initial nodes of `MCMesh.cfg` are symmetric: no definition that the
  run evaluates chooses between nodes. Runs with liveness use no symmetry.
* After a failed add, a repeated upgrade without the bootstrap block meshes the
  node without copying the data; `docs/usage/adding_nodes.md` ("Recovering from
  a failed add") tells the operator to remove the node first.
  `AddedNodesHoldData` speaks of the run that adds, in a history whose sources
  hold the data. It fails beyond that: a node left like this and later named as
  `sourceNode` hands on what it does not have, and that job succeeds. `MCMesh`
  has too few nodes and upgrades for two adds in a row; with one initial node,
  two upgrades and one fault TLC finds it.
* The first job of a history finds empty databases, a mesh, or a mesh of which
  some nodes or all have just had their Spock reset, with slots the reset could
  not drop (`Past`). The reset itself is in `Job`.
* Not in `Mesh`: more than one new node per upgrade (`PopulatePlan` has that)
  and nodes restored by CloudNativePG.

**Populate.** `Mesh` for the run that adds one node, with numbers. Commits of a
peer are numbered, a position is the number of the last commit before it, a
sync event is a commit. `end` is a peer's WAL, `replayed` what the source has
of it; `restart`, `flushed` and `stream` are the slot `peer -> new` and its
walsender; `origin`, `rows` and `progress` are the new node's; `event`, `stamp`
and `moved` are the fields that one resource reads from another by pointer
(`SyncEvent.LSN`, `CommitTS`, `AdvancedToLSN`), lost with the process. `Move`
gives each call of `Mesh` its effect on positions. The statements of
`ReplicationSlotAdvanceFromCTS.Create` are separate (`step`), since a walsender
can take the slot between its checks and the advance. `Refused` is the database
declining to move an active slot to a position ahead of it, or an origin in use;
a slot already past the target is left alone, active or not, and the origin
advance follows it (`AheadOfSlot`). Its choices:

* A commit's timestamp is its position: timestamps are assumed to grow along
  the WAL. Where concurrent commits break that, `get_lsn_from_commit_ts` may
  answer a position before or after the last commit copied.
* Peers may still have a slot of an earlier node of this name; as in `Mesh`,
  each counts as a fault.
* The copy is one step, with the snapshot of the source at that time.
* A walsender starts at the later of the subscriber's origin and
  `confirmed_flush_lsn`. The advance may leave `restart_lsn` where it was.
* The lag tracker has the peers' rows after the copy, or not: without a row
  slot and origin stay where they are.
* Timing and failures of calls that touch no position are left to `Mesh`: here
  they succeed first (`Quiet`), and the run can fail or stop beside them.
* `AppliedOnce` speaks of the run that adds the node, with a row in the lag
  tracker. Without one, and in runs repeated with the bootstrap block, commits
  can be applied twice: the subscription is enabled ahead of the advances
  (finding 3), and `pg_replication_origin_advance` also goes backwards.
  `NoCommitIsLost` and `AllCommitsArrive` hold in these runs too.

**Job.** `pc` walks through `run`: `WaitForAll` over the clusters that exist,
`Connect` per node in the order of the file, then per node to reset the
statements of `resetNode`, each an action, then `Reconcile`, of which only
what concerns the reset is kept: it fails on a node without the extension or
with a local node of another name. `db` holds each node's catalogs, `snap` is
the `repsetSnapshot`, `wanted` and `torn` are history. `Ends` is any end of the
process at any point, with or without the effect of the statement under way;
`CleanUp` has the three statements whose failure is a warning. One set stands
for the built-in replication sets, one for the user's. Databases run, are
empty, or are restored from a backup with the catalogs of another node.
`Retry` is what an operator does after a failure: the same job again, or an
upgrade, which `validate.newNodes` does not let carry the bootstrap blocks of
existing nodes, with `RESET_SPOCK` in their place. An upgrade without it
leaves a node that lost its extension, or a restored node that was not reset,
as it is, and every later run fails on it; `EventuallyReset` assumes that the
operator does not stop there.

## Runs

| run | instance | states | what it shows |
|---|---|---|---|
| `toposort` | all 65,536 graphs over four identifiers, both directions, one identifier with two events, one dependency outside the set | 299,020 | the promises of `topoSort`, against its definition too, and termination |
| `executor` | all plans of up to three events, all orders they respect | 9,224 | barrier, completeness, refinement of `DependencyOrder`, return under cancellation |
| `populate_plan` | all configurations of 2 to 4 nodes, at most one new, on empty or meshed databases | 225 | the gates in the resulting phases |
| `mesh` | 2 nodes and a third that may come, 2 upgrades, 1 fault | 1,554,604 | safety of reconciliation over runs |
| `mesh_live` | 2 nodes and a third that may come; empty, meshed, or some reset with up to a slot left; 1 upgrade in all, 1 fault, fair | 134,828 | convergence of installs, failed adds and removals, and after a reset |
| `mesh_remove` | 3 nodes, 1 upgrade, 2 faults, fair | 305,064 | clean-up with two failures, two survivors |
| `populate` | a source, a peer, a new node; the peer writes up to 2 commits beside the sync events; 1 fault, 1 run repeated with the bootstrap block, fair | 406,257 | no commit lost or applied twice, all arrive |
| `job` | 2 nodes of every origin, a cluster that is being deleted; 2 runs that end half way, 1 edit, 1 upgrade, fair | 1,483,222 | nothing dropped early, nothing lost but by a torn reset, resets completed |
| `orphans` | 3 nodes, one removed | violated | finding 1 |
| `two_new_nodes` | 3 or 4 nodes, two of them new | violated | finding 2 |
| `keep_bootstrap` | a failed add repeated with its bootstrap block | violated | finding 3 |
| `repsets` | the instance of `job`, no fault, 1 edit at any time | violated | finding 4 |

**Bounds.** Four identifiers hold every shape that matters to Kahn's loop: a
diamond, a cycle with a tail, two cycles, an edge to itself. Three events allow
a phase with two goroutines beside another phase on either side. Adding a node
needs three roles (source, peer, new), so three nodes; with four there are two
peers, which `populate_plan` has. Two upgrades allow a node to be added and
removed, or removed and come back; `MaxFaults` counts failed calls, stopped
jobs, failed scans and lost slots together. Reruns of an unchanged
configuration are not bounded. In `populate` two commits can lie on either side
of the copy, of the stamp and of a slot that is left over; a second peer would
follow the same steps beside the first, since nothing it does touches the
other's slot, origin or rows. In `job` the second node is there to be left
behind when the first is done, and to hold the first one's walsender; two ends
of a run allow a repair to be interrupted itself; an edit can fall into any gap
of the reset but, in `job`, the one of finding 4 (`Quiesced`).

`populate_plan` is small because a plan is one step; its configurations are
complete for their size. Deadlock is checked except where the modelled call
returns and nothing follows (`toposort`, `executor`, and the two runs of
`PopulatePlan`) and in the runs of `Job`, where nothing needs to happen after a
run that succeeded.

**Fairness.** A sequential loop goes on (`TopoSort`, `NextPhase`, `Return`).
Execute's context is cancelled sooner or later, because
`INIT_SPOCK_TIMEOUT` always has a value in `init-spock-job.yaml`, and every
call returns once its context is cancelled, since every statement and every
sleep takes it. In `Mesh` a call that is not waiting returns, an operator
repeats the upgrade, and Spock's workers start, with strong fairness: a rerun
that comes before a worker has made its slot takes the subscription for broken
and creates it again, and without strong fairness the operator could win that
race for ever. TLC finds that behaviour when the fairness is weak. A call that
waits (`WaitForSyncEvent`, `PeerCatchup`) is assumed to return only when what
it waits for has come or its context is cancelled.
In `Populate` subscriptions that work replay what there is, and their workers
come back after a broken connection. In `Job` the polls and statements return,
CloudNativePG gets its clusters ready, or rid of, and an operator runs the job
again after a failure.

## Findings

1. `orphans`: a plan drops the row of a removed node on one survivor only,
   because the survivors' `SpockNode` objects share an `Identifier()`, by which
   `topoSort` files events. The comment at `refresh.go:124` and a test expect
   one drop per survivor. Later runs drop the other rows, one survivor per run,
   which is why `EventuallySettled` holds nevertheless.
2. `two_new_nodes`: two nodes added in one upgrade give a cyclic graph; the
   cycle branch runs the gates, the copies and the subscriptions behind them in
   one phase. `validate.newNodes` does not forbid it.
3. `keep_bootstrap`: if a failed add is repeated with its bootstrap block, the
   disabled subscription is enabled by an update, before the origin advance
   that `desired.go:78` wants first. On `helm upgrade` `validate.newNodes`
   refuses such a configuration; a job created again from the same ConfigMap,
   or rendered where `.Release.IsUpgrade` is false, is not refused.

4. `repsets`: the backup of the replication sets is two queries, and the DROP a
   statement after them, with no transaction around. A set or table that is
   added in between, and with `spock.include_ddl_repset` any `CREATE TABLE` is,
   is dropped without having been saved, in a run that succeeds.
   `docs/limitations.md` knows a loss only for a job that crashes between drop
   and restore. With that gap closed (`Quiesced`) the run `job` finds no other.

## Proofs

**TopoSortProofs** (any finite set of events, any identifiers, any graph). The
inductive invariant `IInv` says that each counter equals the number of edges
into its identifier from what is still to be emitted (`Counters`), that emitted
identifiers have no counter and are in exactly one phase (`EmittedStaysOut`,
`EmittedOnce`), that the order was respected or the loop ended on a cycle
(`OnlyCyclesShareAPhase`), and that each identifier of a phase but the first
was released by the phase before (`JustReleased`). `Counters` is what makes it
inductive: it is the only link between the numbers the code tests and the graph
they stand for. Its step is a count: the edges an iteration removes are those
whose first end is ready, a subset of the edges counted before. From `IInv`
follow `TopoSortTypeOK`, `TopoSortEmittedOnce`, `TopoSortOnlyCycles`,
`TopoSortOrder` and `TopoSortNoNeedlessBarrier`. The assumption used is that
the set of events is finite and that graphs relate events to identifiers.
`TopoSortMatchesLayers` compares the loop with `Layers`: the phases so far are
the first layers, and what is left is what `Layers` would have left.

**LayeringProofs** (any finite set, any relation). `Layers` counts through
`Chains`, a recursive function on the numbers. Its induction is the principle of
the least number (`NatMin`), which is about a set, not about an operator, and
follows from the library's theorem on well-founded relations: the least number
at which a statement fails has a predecessor at which it holds. So
`LayersPartition`, `LayersKeepOrder`, `LayersKeepRank` and `LayersHaveNoGap` hold
for sets of any size. "Without a cycle" is stated as a rank: a number per
element that grows along the relation, which a relation on a finite set has
exactly when it has no cycle, and which is written down where it is needed.

**OrderedExecutorProofs** (any events, any set of plans without a common event
in two phases, any orders). The invariant `Progress` splits the plan at the loop
index: all before it done (`Behind`), nothing after it started (`NotAhead`), of
the phase itself everything running or returned (`Current`), and what the
result says (`Returned`). It gives `ExecutorTypeOK`, `ExecutorPhaseBarrier`
and `ExecutorReturnsComplete`. With `Ordered` (the plan respects the order)
it gives `ExecutorImplementsDependencyOrder`: `NextPhase` maps to `Start`, the
calls to themselves, cancellation to a stutter.

**PlanProofs** (any finite set of resources without a cycle). `IsPlan` says
what `Plan` returns: phases that hold each event once, deletes before updates
before creates, dependents deleted before what they depend on and created after
it, and a phase for an event only if one of the phase before holds it up.
`PlansAreOrdered` proves it of every member of `Plans`. `DependenciesAreRanked`
gives the rank of each resource of a configuration with at most one new node:
numbers along the populate chain, the same for every number of nodes.

**PopulatePlanProofs** (any configurations with at most one new node whose
`sourceNode` is another node of the list, any number of nodes; with two new
nodes finding 2 is the counterexample). `PInv` is that the plan `IsPlan` of
what is missing. Three gates follow along the chain of declared dependencies.
`DisabledComesFirst` does not, since no dependency says that the disabled
subscription comes before the lag tracker: it uses that plans have no needless
phase, which bounds the phase of the first by that of what it waits for, and
the second waits for more.

**JobProofs** (any finite number of nodes, tables, runs, edits and upgrades, any
order of the configuration). `JobInv` says what each statement of `resetNode`
finds on its node (`StandsOn`), that nodes behind the loop are reset and nodes
it passes over need no reset (`Behind`, `Spared`), and who has answered
(`Waited`); from it follow `JobTypes`, `OwnCatalogs`, `SlotsAreLogged` and
`DropsAfterAllAnswer`. `ResetKeepsSets` needs `Memory` too: from the second
query to the drop the process holds what the node has, and from the drop to the
restore what it had. It is proved for the behaviours in which nobody edits sets
between backup and drop (`Quiesced`); without that, finding 4 is the
counterexample.

**MeshProofs** (any finite set of nodes, any number of upgrades and faults, any
of the pasts, `KeepBootstrap` or not). None of `Mesh`'s properties is inductive,
because what a call finds is settled by the plan, which was made from what a
query once saw. `MeshInv` has three layers:

* `Barrier`, the executor: phases before the index done, phases after it
  untouched, what runs is in the phase.
* `Catalogs`, what databases keep to between any two statements: a local node
  has its role and its own row, nothing subscribes to itself, slots are on nodes
  of Spock, and `SubscriptionsStayVisible`.
* The plan between them: creates are of what is desired and after their
  dependencies, or these were there and stay (`Gated`); an orphan's row goes
  after its subscription (`Cleaning`); updates are of subscriptions that are not
  dropped, drops precede creates (`Mending`, `DropsFirst`); what succeeded lasts
  (`Lasting`); and what the mesh still lacks is among the events that have not
  succeeded (`Promised`).

`Promised` is what makes success mean something: when `Execute` returns nil
nothing is due, so nothing is lacking (`MeshAfterSuccess`). `Cleaning` with
`Barrier` is why a row of `spock.node` outlives the subscription it stands for
although Spock's own refusal is left out (`OrphansStayVisible`). Each plan is
brought into `IsPlan` first (`PlanIs`), with the orphans' order of deletion as
the second rank. `PlansSpareTheHealthy` and `RerunsDoNothing` are about the one
step that plans.

Three theorems follow the run that adds a node, and hold when bootstrap blocks
are not kept for a repeated run (`~KeepBootstrap`; with them kept, `keep_bootstrap`
shows the first violated). `FirstRun` says that such a run finds a node
without a role, hence without catalogs, so that nothing on it is taken for a
repair, and from this follows `EnabledAfterTheAdvance`. `Copying` says that the
data is there or the wait for it still due, and gives `AddedNodesAreFilled` and
`NewSpeaksLast`, for histories in which every `sourceNode` holds the data
(`SourcesHoldData`). That hypothesis is about the operator's choice and cannot
be had from the code, see the choices in `Mesh` above; in `MCMesh`'s histories
it always holds.

**PopulateProofs** (any number of peers, commits, faults, slots left over and
repeated runs; with the bootstrap blocks kept or not, but for one theorem). What
a step does to a peer is first reduced to one of a dozen motions of its
positions (`Motion`), the rest of the proof speaks of these.

`NoCommitIsLost` is about nodes that hold their copy, but is decided long before:
slot and origin are advanced by positions the run has read, while a run that was
stopped, or a repeated one, may have read others. `Filled(p, b)` says that the new
node has the peer's commits up to every position a slot or an origin was ever
set to, or could be set to (`flushed`, `origin`, `progress`, `stamp`, `moved`),
except for some up to `b`. `Covered` is the argument: from the sync event on, `b`
is that event; when the copy is created, the source has replayed the event
(`Waited`), so `b` is what the source has replayed, and the copy brings it;
after the copy `b` is 0. `Held` says that from then on nothing removes the slot,
because plans spare it (`SlotsSpared`) and nothing relied on it before; and
`Streams` that a walsender has sent what the node has, no more. A slot made anew
stands at the end of the WAL; that is harmless only where nothing relies on one.

`AppliedOnce` and `Lockstep` are about equality, which holds only in the run that
adds the node. `FirstInv` follows it: until the slot is advanced it stands where
it was made, before the event, hence before what the lag tracker shows
(`Before`), so the advance is never skipped with a row in the lag tracker; until
the subscription is enabled, the copy ends exactly at what the lag tracker shows
(`Copied`); slot and origin are moved there (`Advanced`); afterwards the node has
exactly what is before its origin (`Sent`). That the subscription is not enabled
by an update (finding 3) rests on the plan of a run that finds none
(`SubsSpared`). `SlotMeetsOrigin` states `Lockstep` for `~KeepBootstrap`; TLC
checks it with one run repeated with its bootstrap block too.

The parts of all invariants were checked with TLC, on the instances above,
before they were proved.

**What stays with TLC**: liveness under fairness (`Terminates`, `AlwaysReturns`,
`AllCommitsArrive`, `EventuallyReset`, `EventuallySettled`), which is out of the
provers' reach; `Lockstep` in runs repeated with their bootstrap block, where it
rests on the phase in which disabled subscriptions are made. Every safety
property and action property of a passing run is a theorem.

## Not modelled, and what comes next

In the order in which it is worth doing:

1. **Release**: Helm releases, the ConfigMap and `validate.newNodes` on their
   own, failed releases included, with several new nodes.
2. **Names**: collisions of slot and subscription names, and what the desired
   map makes of them.
3. Populating in the presence of timestamps that do not follow the WAL; what
   `get_lsn_from_commit_ts` answers then is not in this repository.

A subscription that lost its slot is created again without a copy
(`refresh.go:57`); what was written in between is missing on the subscriber,
and no code is meant to bring it back, so `Mesh` has no property about it.
Column lists, row filters and the relation kinds of `repset.go` are left out,
as is the arithmetic of the 30 seconds between the two timeouts: any run can
end at any time.

Out of scope: TLS and dialling (`internal/pg` but for `WaitReady`), YAML and
environment parsing, the declarative templates (clusters, certificates, RBAC),
the test helpers.
