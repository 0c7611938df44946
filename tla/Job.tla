---------------------------------- MODULE Job ----------------------------------
(***************************************************************************)
(* The init-spock job up to Reconcile: it waits for the clusters, connects *)
(* to every node, and resets Spock where it is told to, one statement      *)
(* after the other.  Reconcile itself, which Mesh.tla details, is one step *)
(* here.                                                                   *)
(*                                                                         *)
(* Between a backup of the replication sets and their restore they are     *)
(* only in the memory of the process, which can end before and after each  *)
(* statement.  Kubernetes does not start it again (backoffLimit 0); an     *)
(* operator does.  Users change replication sets meanwhile.                *)
(***************************************************************************)
EXTENDS Integers, Sequences

CONSTANTS
  Order,      (* Names of the configured nodes, in the file's order.       *)
  Leaving,    (* Clusters of the release that are being deleted.           *)
  Table,      (* The user's tables.                                        *)
  Quiesced,   (* Nobody changes replication sets between backup and DROP.  *)
  MaxFaults,  (* Bound: runs that end half way.                            *)
  MaxEdits,   (* Bound: changes of replication sets by users.              *)
  MaxUpgrades (* Bound: upgrades after a run that succeeded.               *)

Nodes == {Order[i] : i \in DOMAIN Order}

ASSUME JobAssumption ==
  /\ Order \in Seq(Nodes) /\ Order # <<>>
  /\ \A i, j \in DOMAIN Order : Order[i] = Order[j] => i = j
  /\ Leaving \intersect Nodes = {}
  /\ Quiesced \in BOOLEAN
  /\ {MaxFaults, MaxEdits, MaxUpgrades} \subseteq Nat

VARIABLES
  cluster,   (* Phase of each CloudNativePG cluster.                       *)
  conf,      (* RESET_SPOCK, and the nodes with bootstrap mode cnpg.       *)
  db,        (* Each node's catalogs, see Catalogs.                        *)
  pc, at,    (* The job's next step, and the index of the node it is on.   *)
  snap,      (* repsetSnapshot.                                            *)
  warned,    (* Nodes this run has logged a warning about.                 *)
  result,    (* Of the last run that ended.                                *)
  wanted,    (* History: replication sets and tables as users made them.   *)
  torn,      (* History: nodes on which a run ended after DROP and before  *)
             (* the restore.                                               *)
  faults, edits, upgrades  (* What the bounds count.                       *)

job == <<conf, pc, at, snap, warned, result>>
counters == <<faults, edits, upgrades>>
jvars == <<cluster, db, job, wanted, torn, counters>>

\* One set stands for the built-in ones, which come with a local node, and
\* one for the user's own.
RepSet == {"default", "custom"}
BuiltIn == {"default"}

\* local: whose node spock.local_node names.  left: what the spock of before
\* has outside its schema, and a walsender that reads the slot.
Catalogs ==
  [ext : BOOLEAN, local : {"none", "own", "other"},
   sets : SUBSET RepSet, tables : SUBSET (RepSet \X Table),
   left : SUBSET {"slot", "walsender", "origin"}]

SetsAndTables == [sets : SUBSET RepSet, tables : SUBSET (RepSet \X Table)]
NoSets == [sets |-> {}, tables |-> {}]
UserSets(n) == [sets |-> db[n].sets \ BuiltIn, tables |-> db[n].tables]

AfterDrop == {"terminate", "slots", "origins", "create", "node", "restore"}
ResetSteps == {"exists", "sets", "tables", "drop"} \union AfterDrop
Steps == {"idle", "clusters", "connect", "reconcile"} \union ResetSteps

\* The step of resetNode after a statement.
Following ==
  [drop |-> "terminate", terminate |-> "slots", slots |-> "origins",
   origins |-> "create", create |-> "node", node |-> "restore"]

-----------------------------------------------------------------------------
(* Waiting.                                                                *)

\* waitForAll looks at the clusters it finds, not at those configured.
Listed == {c \in DOMAIN cluster : cluster[c] # "absent"}

\* The nodes that ResetSpock or ResetBootstrappedNodes do not pass over.
ToReset == {n \in Nodes : conf.all \/ n \in conf.restored}

\* Their loops go through the nodes in order, and on to Reconcile.
Rest(i) == {j \in DOMAIN Order : j >= i /\ Order[j] \in ToReset}

GoOn(i) ==
  IF Rest(i) = {} THEN pc' = "reconcile" /\ at' = 1
  ELSE pc' = "exists" /\ at' \in Rest(i) /\ \A j \in Rest(i) : at' <= j

\* Mutation: the pool is made without WaitReady; it dials lazily.
Answers_Always(n) == TRUE

\* The database can answer before the cluster counts as healthy.
Answers(n) == cluster[n] \in {"answering", "healthy"}

WaitForAll ==
  /\ pc = "clusters"
  /\ Listed # {} /\ \A c \in Listed : cluster[c] = "healthy"
  /\ pc' = "connect" /\ at' = 1
  /\ UNCHANGED <<cluster, db, conf, snap, warned, result, wanted, torn, counters>>

\* WaitReady and ConnectPool for the next node.
Connect ==
  /\ pc = "connect" /\ Answers(Order[at])
  /\ IF at < Len(Order) THEN at' = at + 1 /\ UNCHANGED pc
     ELSE GoOn(1)
  /\ UNCHANGED <<cluster, db, conf, snap, warned, result, wanted, torn, counters>>

-----------------------------------------------------------------------------
(* resetNode.                                                              *)

Here == Order[at]

GoTo(s) == pc' = s /\ UNCHANGED at

\* Mutation: without the extension there is nothing to reset.
Exists_Returns ==
  IF db[Here].ext THEN GoTo("sets") ELSE GoOn(at + 1)

\* Without the extension there is nothing to back up.
Exists == GoTo(IF db[Here].ext THEN "sets" ELSE "drop")

CheckExtension ==
  /\ pc = "exists" /\ Exists
  /\ UNCHANGED <<cluster, db, conf, snap, warned, result, wanted, torn, counters>>

\* backupRepsets: two queries, each with a snapshot of its own.
BackupSets ==
  /\ pc = "sets" /\ GoTo("tables")
  /\ snap' = [snap EXCEPT !.sets = db[Here].sets]
  /\ UNCHANGED <<cluster, db, conf, warned, result, wanted, torn, counters>>

BackupTables ==
  /\ pc = "tables" /\ GoTo("drop")
  /\ snap' = [snap EXCEPT !.tables = db[Here].tables]
  /\ UNCHANGED <<cluster, db, conf, warned, result, wanted, torn, counters>>

\* Mutation: a restore is skipped when the snapshot has no tables.
NothingToRestore_Or == snap.sets = {} \/ snap.tables = {}

NothingToRestore == snap.sets = {} /\ snap.tables = {}

\* What the transaction of restoreRepsets creates, and whether it can:
\* neither repset_create nor repset_add_table accepts what is there already.
Custom == snap.sets \ BuiltIn

CanRestore(n) ==
  \/ NothingToRestore
  \/ /\ Custom \intersect db[n].sets = {}
     /\ snap.tables \intersect db[n].tables = {}
     /\ \A x \in snap.tables : x[1] \in db[n].sets \union Custom

\* Mutation: only slots that nobody reads are looked for.
SlotsFound_Inactive(d) == IF "walsender" \in d.left THEN {} ELSE d.left \intersect {"slot"}

SlotsFound(d) == d.left \intersect {"slot"}

\* The effect of a statement on the catalogs d.  DROP EXTENSION CASCADE takes
\* the schema of spock along, and IF EXISTS, IF NOT EXISTS make both of the
\* extension's statements harmless where there is nothing to do.
After(s, d) ==
  CASE s = "drop" -> [d EXCEPT !.ext = FALSE, !.local = "none", !.sets = {}, !.tables = {}]
    [] s = "terminate" -> [d EXCEPT !.left = @ \ {"walsender"}]
    [] s = "slots"     -> [d EXCEPT !.left = @ \ SlotsFound(d)]
    [] s = "origins"   -> [d EXCEPT !.left = @ \ {"origin"}]
    [] s = "create"    -> [d EXCEPT !.ext = TRUE]
    [] s = "node"      -> [d EXCEPT !.local = "own", !.sets = BuiltIn]
    [] s = "restore" /\ ~NothingToRestore ->
         [d EXCEPT !.sets = @ \union Custom, !.tables = @ \union snap.tables]
    [] OTHER           -> d

\* Mutation: DROP EXTENSION without IF EXISTS.
Accepted_MustExist(s, n) ==
  /\ s = "drop" => db[n].ext
  /\ s = "restore" => CanRestore(n)

\* Statements the database accepts.
Accepted(s, n) == s = "restore" => CanRestore(n)

\* Mutation: the snapshot outlives its node.
Leave_KeepsSnapshot == GoOn(at + 1) /\ UNCHANGED snap

\* resetNode returns; the loop goes on with the next node.
Leave == GoOn(at + 1) /\ snap' = NoSets

\* The statements whose failure ends the run.
Statement(s) ==
  /\ pc = s /\ Accepted(s, Here)
  /\ db' = [db EXCEPT ![Here] = After(s, @)]
  /\ IF s = "restore" THEN Leave ELSE GoTo(Following[s]) /\ UNCHANGED snap
  /\ UNCHANGED <<cluster, conf, warned, result, wanted, torn, counters>>

\* The statements whose failure is a warning.  A slot that a walsender reads
\* cannot be dropped.
CleanUp(s) ==
  /\ pc = s
  /\ \/ /\ s = "slots" /\ SlotsFound(db[Here]) # {} => "walsender" \notin db[Here].left
        /\ db' = [db EXCEPT ![Here] = After(s, @)]
        /\ UNCHANGED warned
     \/ warned' = warned \union {Here} /\ UNCHANGED db
  /\ GoTo(Following[s])
  /\ UNCHANGED <<cluster, conf, snap, result, wanted, torn, counters>>

-----------------------------------------------------------------------------
(* The end of a run.                                                       *)

\* The process is gone, and its memory.
Exit(outcome) ==
  /\ pc' = "idle" /\ at' = 1
  /\ snap' = NoSets /\ warned' = {}
  /\ result' = outcome

\* Refresh fails on a node without the extension, and node_create on one
\* whose local node has another name.
Manageable(n) == db[n].ext /\ db[n].local # "other"

Reconcile ==
  /\ pc = "reconcile"
  /\ IF \A n \in Nodes : Manageable(n)
     THEN /\ db' = [n \in Nodes |->
                     IF db[n].local = "own" THEN db[n] ELSE After("node", db[n])]
          /\ Exit("ok")
     ELSE UNCHANGED db /\ Exit("error")
  /\ UNCHANGED <<cluster, conf, wanted, torn, counters>>

\* The database refuses a statement: the transaction of the restore.
Refused ==
  /\ pc = "restore" /\ ~Accepted(pc, Here)
  /\ torn' = torn \union {Here}
  /\ Exit("error")
  /\ UNCHANGED <<cluster, db, conf, wanted, counters>>

\* The run ends in the middle of a call: SIGTERM, SIGKILL, the timeout, a
\* failed statement.  The statement may have been executed.
Ends ==
  /\ pc # "idle"
  /\ faults < MaxFaults /\ faults' = faults + 1
  /\ \/ UNCHANGED db
     \/ /\ pc \in ResetSteps /\ Accepted(pc, Here)
        /\ pc = "slots" => "walsender" \notin db[Here].left
        /\ db' = [db EXCEPT ![Here] = After(pc, @)]
  /\ torn' = torn \union {n \in Nodes : (pc \in AfterDrop /\ Here = n) \/ (db[n].ext /\ ~db'[n].ext)}
  /\ Exit("error")
  /\ UNCHANGED <<cluster, conf, wanted, edits, upgrades>>

-----------------------------------------------------------------------------
(* Around the job.                                                         *)

Start(c) ==
  /\ conf' = c
  /\ pc' = "clusters"
  /\ UNCHANGED <<cluster, db, at, snap, warned, result, wanted, torn, faults, edits>>

\* After a failure: the job again, or an upgrade, which cannot carry the
\* bootstrap blocks of nodes that exist, with RESET_SPOCK in their place.
Retry ==
  /\ pc = "idle" /\ result = "error"
  /\ \E c \in {conf, [all |-> TRUE, restored |-> {}]} : Start(c)
  /\ UNCHANGED upgrades

\* An upgrade of a release that works.  RESET_SPOCK may have been left on.
Upgrade ==
  /\ pc = "idle" /\ result = "ok"
  /\ upgrades < MaxUpgrades /\ upgrades' = upgrades + 1
  /\ \E all \in {conf.all, FALSE} : Start([all |-> all, restored |-> {}])

\* Kubernetes and CloudNativePG.
ClusterMoves(c) ==
  /\ \/ c \in Nodes /\ cluster[c] = "absent" /\ cluster' = [cluster EXCEPT ![c] = "starting"]
     \/ c \in Nodes /\ cluster[c] = "starting" /\ cluster' = [cluster EXCEPT ![c] = "answering"]
     \/ c \in Nodes /\ cluster[c] = "answering" /\ cluster' = [cluster EXCEPT ![c] = "healthy"]
     \/ c \in Leaving /\ cluster[c] # "absent" /\ cluster' = [cluster EXCEPT ![c] = "absent"]
  /\ UNCHANGED <<db, job, wanted, torn, counters>>

\* A peer that still has its subscription connects again.
PeerReturns(n) ==
  /\ "slot" \in db[n].left
  /\ \E m \in Nodes \ {n} : db[m].ext /\ "slot" \in db[m].left
  /\ db' = [db EXCEPT ![n].left = @ \union {"walsender"}]
  /\ UNCHANGED <<cluster, job, wanted, torn, counters>>

\* A user creates a replication set or adds a table to one; CREATE TABLE
\* does so by itself (spock.include_ddl_repset).
BackupToDrop == {"tables", "drop"}

Edit(n) ==
  /\ db[n].local = "own"
  /\ edits < MaxEdits /\ edits' = edits + 1
  /\ ~(Quiesced /\ pc \in BackupToDrop /\ Here = n)
  /\ \/ \E s \in RepSet \ db[n].sets :
          /\ db' = [db EXCEPT ![n].sets = @ \union {s}]
          /\ wanted' = [wanted EXCEPT ![n].sets = @ \union ({s} \ BuiltIn)]
     \/ \E x \in (db[n].sets \X Table) \ db[n].tables :
          /\ db' = [db EXCEPT ![n].tables = @ \union {x}]
          /\ wanted' = [wanted EXCEPT ![n].tables = @ \union {x}]
  /\ UNCHANGED <<cluster, job, torn, faults, upgrades>>

-----------------------------------------------------------------------------

\* A node of the release that runs, one whose database comes from a backup
\* of another node, and one that is empty.
Plain    == [ext |-> TRUE, local |-> "own", sets |-> BuiltIn, tables |-> {},
             left |-> {"slot", "walsender", "origin"}]
Restored(T) == [ext |-> TRUE, local |-> "other", sets |-> RepSet,
                tables |-> {<<"custom", t>> : t \in T}, left |-> {"origin"}]
Empty    == [ext |-> TRUE, local |-> "none", sets |-> {}, tables |-> {}, left |-> {}]

Init ==
  /\ db \in [Nodes -> {Plain, Restored(Table), Empty}]
  /\ conf \in [all : BOOLEAN, restored : {{n \in Nodes : db[n].local = "other"}, {}}]
  /\ \A n \in Nodes : db[n].local = "other" => conf.all \/ n \in conf.restored
  /\ cluster = [c \in Nodes \union Leaving |->
                  IF c \in Leaving \/ db[c].local = "own" THEN "healthy" ELSE "absent"]
  /\ pc = "clusters" /\ at = 1 /\ snap = NoSets /\ warned = {} /\ result = "error"
  /\ wanted = [n \in Nodes |-> UserSets(n)]
  /\ torn = {} /\ faults = 0 /\ edits = 0 /\ upgrades = 0

JobStep ==
  \/ WaitForAll \/ Connect \/ CheckExtension \/ BackupSets \/ BackupTables
  \/ \E s \in {"drop", "create", "node", "restore"} : Statement(s)
  \/ \E s \in {"terminate", "slots", "origins"} : CleanUp(s)
  \/ Reconcile \/ Refused

Next ==
  \/ JobStep \/ Ends \/ Retry \/ Upgrade
  \/ \E c \in DOMAIN cluster : ClusterMoves(c)
  \/ \E n \in Nodes : PeerReturns(n) \/ Edit(n)

Spec == Init /\ [][Next]_jvars

(***************************************************************************)
(* The polls of the waits and the statements return, an operator runs the  *)
(* job again after a failure, and CloudNativePG gets its clusters ready.   *)
(***************************************************************************)
Fairness ==
  /\ WF_jvars(JobStep) /\ WF_jvars(Retry)
  /\ \A c \in Nodes \union Leaving : WF_jvars(ClusterMoves(c))

FairSpec == Spec /\ Fairness

-----------------------------------------------------------------------------

Typed ==
  /\ cluster \in [Nodes \union Leaving -> {"absent", "starting", "answering", "healthy"}]
  /\ conf \in [all : BOOLEAN, restored : SUBSET Nodes]
  /\ db \in [Nodes -> Catalogs]
  /\ pc \in Steps /\ at \in DOMAIN Order
  /\ snap \in SetsAndTables /\ wanted \in [Nodes -> SetsAndTables]
  /\ pc \in {"idle", "clusters", "connect", "exists", "sets"} => snap = NoSets
  /\ warned \subseteq Nodes /\ torn \subseteq Nodes
  /\ result \in {"ok", "error"}

TypeOK == Typed /\ \A n \in Nodes : db[n].sets # {} => db[n].ext

(* "If the job crashes [...] between the drop and restore steps, the repset *)
(* configuration is lost" (limitations.md:13), and only then: on every     *)
(* other node the replication sets and tables are those the users made, as *)
(* soon as the job is not in between, after any number of runs.            *)
OnlyACrashLoses ==
  \A n \in Nodes \ torn :
    (pc \in AfterDrop /\ Here = n) \/ UserSets(n) = wanted[n]

(* Reconcile starts on nodes that have the extension and are themselves,   *)
(* whatever a run before it left: a restored backup, a drop without create.*)
ReconcileOnOwnCatalogs ==
  pc = "reconcile" => \A n \in Nodes : Manageable(n)

(* A slot of the old spock that survives its node's reset is in the log:   *)
(* terminating its walsender and dropping it are two statements, and the   *)
(* peer may be back between them.                                          *)
SurvivorsAreLogged ==
  pc = "reconcile" => \A n \in ToReset \ warned : "slot" \notin db[n].left

(* Nothing is dropped on any node before every configured node answers,    *)
(* though the wait for clusters looks only at those that exist.            *)
TouchesNothingEarly ==
  [][(\E n \in Nodes : db[n].ext /\ ~db'[n].ext) =>
       \A m \in Nodes : cluster[m] \in {"answering", "healthy"}]_jvars

(* A reset that was left half done is completed by later runs.             *)
EventuallyReset == <>[](pc = "idle" /\ result = "ok")
=============================================================================
