------------------------------- MODULE JobProofs -------------------------------
(***************************************************************************)
(* The job resets what it must and loses nothing of it, for every          *)
(* configuration, every number of failed runs, edits and upgrades.         *)
(*                                                                         *)
(* None of the properties says what a step of resetNode relies on.  JobInv *)
(* adds it: what the step finds on its node, that the nodes behind it are  *)
(* reset, that those it passes over need no reset, and that every node has *)
(* answered.  Memory adds what the process knows of the replication sets   *)
(* its node no longer has.                                                 *)
(***************************************************************************)
EXTENDS Job, TLAPS

\* A node without the extension has no node of Spock, and without that it
\* has neither replication sets nor tables in them.
Consistent ==
  \A n \in Nodes :
    /\ ~db[n].ext => db[n].local = "none"
    /\ db[n].local = "none" => db[n].sets = {} /\ db[n].tables = {}

\* What a step of resetNode finds on its node.
StandsOn ==
  /\ pc \in ResetSteps => Here \in ToReset
  /\ pc \in {"terminate", "slots", "origins", "create"} => ~db[Here].ext
  /\ pc = "node" => db[Here].ext /\ db[Here].local = "none"
  /\ pc = "restore" => db[Here].ext /\ db[Here].local = "own"
  /\ pc \in {"origins", "create", "node", "restore"} /\ Here \notin warned
       => "slot" \notin db[Here].left

\* What a reset leaves, as far as the log does not say otherwise.
IsReset(n) == Manageable(n) /\ (n \notin warned => "slot" \notin db[n].left)

\* The loop has been at Order[j].
Visited(j) ==
  /\ Order[j] \in ToReset
  /\ pc = "reconcile" \/ (pc \in ResetSteps /\ j < at)

Behind == \A j \in DOMAIN Order : Visited(j) => IsReset(Order[j])

\* The nodes that the loop passes over need no reset.
Spared ==
  /\ \A n \in Nodes \ ToReset : Manageable(n)
  /\ pc = "idle" /\ result = "ok" => \A n \in Nodes : Manageable(n)

\* A node that has answered does so from then on.
Waited ==
  /\ pc = "connect" => \A j \in DOMAIN Order : j < at => Answers(Order[j])
  /\ pc \in ResetSteps \union {"reconcile"} => \A n \in Nodes : Answers(n)

JobInv == Typed /\ Consistent /\ StandsOn /\ Behind /\ Spared /\ Waited

\* The process holds what its node has lost or is about to.
Memory ==
  /\ pc = "tables" => snap.sets = db[Here].sets
  /\ pc = "drop" => snap.sets = db[Here].sets /\ snap.tables = db[Here].tables
  /\ pc \in AfterDrop /\ Here \notin torn =>
       /\ wanted[Here].sets = Custom \union UserSets(Here).sets
       /\ wanted[Here].tables = snap.tables \union UserSets(Here).tables

-----------------------------------------------------------------------------
(* The order of the nodes, and the catalogs a statement leaves.            *)

LEMMA Ordering ==
  /\ Len(Order) \in Nat /\ Len(Order) > 0 /\ DOMAIN Order = 1 .. Len(Order)
  /\ \A i \in DOMAIN Order : Order[i] \in Nodes
  /\ \A n \in Nodes : \E i \in DOMAIN Order : Order[i] = n
<1>1. Order \in Seq(Nodes) /\ Order # <<>>
    BY JobAssumption
<1>2. Len(Order) \in Nat /\ DOMAIN Order = 1 .. Len(Order)
    BY <1>1
<1>3. Len(Order) > 0
    BY <1>1, <1>2
<1>4. /\ \A i \in DOMAIN Order : Order[i] \in Nodes
      /\ \A n \in Nodes : \E i \in DOMAIN Order : Order[i] = n
    BY DEF Nodes
<1> QED
    BY <1>2, <1>3, <1>4

LEMMA GoesOn ==
  ASSUME NEW i \in 1 .. Len(Order) + 1, GoOn(i)
  PROVE  \/ /\ pc' = "reconcile" /\ at' = 1
            /\ \A j \in DOMAIN Order : j >= i => Order[j] \notin ToReset
         \/ /\ pc' = "exists" /\ at' \in DOMAIN Order /\ Order[at'] \in ToReset
            /\ at' >= i
            /\ \A j \in DOMAIN Order : j >= i /\ j < at' => Order[j] \notin ToReset
<1>1. CASE Rest(i) = {}
    BY <1>1 DEF GoOn, Rest
<1>2. CASE Rest(i) # {}
  <2>1. pc' = "exists" /\ at' \in Rest(i) /\ \A j \in Rest(i) : at' <= j
      BY <1>2 DEF GoOn
  <2>2. at' \in DOMAIN Order /\ Order[at'] \in ToReset /\ at' >= i
      BY <2>1 DEF Rest
  <2>3. ASSUME NEW j \in DOMAIN Order, j >= i, j < at' PROVE Order[j] \notin ToReset
    <3>1. j \notin Rest(i)
        BY <2>1, <2>2, <2>3, Ordering
    <3> QED
        BY <2>3, <3>1 DEF Rest
  <2> QED
      BY <2>1, <2>2, <2>3
<1> QED
    BY <1>1, <1>2

\* The catalogs after each statement, field by field.
Dropped(d)  == [ext |-> FALSE, local |-> "none", sets |-> {}, tables |-> {}, left |-> d.left]
Without(d, x) ==
  [ext |-> d.ext, local |-> d.local, sets |-> d.sets, tables |-> d.tables, left |-> d.left \ {x}]
Created(d)  ==
  [ext |-> TRUE, local |-> d.local, sets |-> d.sets, tables |-> d.tables, left |-> d.left]
Named(d)    ==
  [ext |-> d.ext, local |-> "own", sets |-> BuiltIn, tables |-> d.tables, left |-> d.left]
Refilled(d) ==
  [ext |-> d.ext, local |-> d.local, sets |-> d.sets \union Custom,
   tables |-> d.tables \union snap.tables, left |-> d.left]

LEMMA Effects ==
  ASSUME NEW d \in Catalogs, snap \in SetsAndTables
  PROVE  /\ \A s \in {"exists", "sets", "tables"} : After(s, d) = d
         /\ After("drop", d) = Dropped(d)
         /\ After("terminate", d) = Without(d, "walsender")
         /\ After("slots", d) = Without(d, "slot")
         /\ After("origins", d) = Without(d, "origin")
         /\ After("create", d) = Created(d)
         /\ After("node", d) = Named(d)
         /\ After("restore", d) = Refilled(d)
<1>1. \A s \in {"exists", "sets", "tables"} : After(s, d) = d
    BY DEF After
<1>2. After("drop", d) = Dropped(d)
    BY DEF After, Dropped, Catalogs
<1>3. /\ After("terminate", d) = Without(d, "walsender")
      /\ After("origins", d) = Without(d, "origin")
    BY DEF After, Without, Catalogs
<1>4. After("slots", d) = Without(d, "slot")
  <2>1. d.left \ SlotsFound(d) = d.left \ {"slot"}
      BY DEF SlotsFound
  <2> QED
      BY <2>1 DEF After, Without, Catalogs
<1>5. After("create", d) = Created(d) /\ After("node", d) = Named(d)
    BY DEF After, Created, Named, Catalogs
<1>6. After("restore", d) = Refilled(d)
  <2>1. CASE NothingToRestore
    <3>1. After("restore", d) = d
        BY <2>1 DEF After
    <3>2. d.sets \union Custom = d.sets /\ d.tables \union snap.tables = d.tables
        BY <2>1 DEF NothingToRestore, Custom
    <3> QED
        BY <3>1, <3>2 DEF Refilled, Catalogs
  <2>2. CASE ~NothingToRestore
      BY <2>2 DEF After, Refilled, Catalogs
  <2> QED
      BY <2>1, <2>2
<1> QED
    BY <1>1, <1>2, <1>3, <1>4, <1>5, <1>6

LEMMA CatalogsStay ==
  ASSUME NEW d \in Catalogs, snap \in SetsAndTables, NEW s \in ResetSteps
  PROVE  After(s, d) \in Catalogs
<1>1. BuiltIn \subseteq RepSet /\ Custom \subseteq RepSet /\ snap.tables \subseteq RepSet \X Table
    BY DEF BuiltIn, RepSet, Custom, SetsAndTables
<1>2. d.sets \union Custom \subseteq RepSet /\ d.tables \union snap.tables \subseteq RepSet \X Table
    BY <1>1 DEF Catalogs
<1>3. /\ \A x : Without(d, x) \in Catalogs
      /\ Dropped(d) \in Catalogs /\ Created(d) \in Catalogs
    BY DEF Without, Dropped, Created, Catalogs
<1>4. Named(d) \in Catalogs
    BY <1>1 DEF Named, Catalogs
<1>5. Refilled(d) \in Catalogs
    BY <1>2 DEF Refilled, Catalogs
<1> QED
    BY <1>3, <1>4, <1>5, Effects DEF ResetSteps, AfterDrop

-----------------------------------------------------------------------------
(* Types.                                                                  *)

LEMMA HereIsANode == ASSUME Typed PROVE Here \in Nodes /\ db[Here] \in Catalogs
BY Ordering DEF Typed, Here

LEMMA GoOnTypes ==
  ASSUME Typed, GoOn(at + 1)
  PROVE  pc' \in {"exists", "reconcile"} /\ at' \in DOMAIN Order
<1>1. at + 1 \in 1 .. Len(Order) + 1
    BY Ordering DEF Typed
<1> QED
    BY <1>1, GoesOn, Ordering

\* A record with one field replaced, field by field.
LEMMA Replaced ==
  /\ \A d \in Catalogs, S \in SUBSET RepSet :
       [d EXCEPT !.sets = S] =
         [ext |-> d.ext, local |-> d.local, sets |-> S, tables |-> d.tables, left |-> d.left]
  /\ \A d \in Catalogs, T \in SUBSET (RepSet \X Table) :
       [d EXCEPT !.tables = T] =
         [ext |-> d.ext, local |-> d.local, sets |-> d.sets, tables |-> T, left |-> d.left]
  /\ \A w \in SetsAndTables, S \in SUBSET RepSet :
       [w EXCEPT !.sets = S] = [sets |-> S, tables |-> w.tables]
  /\ \A w \in SetsAndTables, T \in SUBSET (RepSet \X Table) :
       [w EXCEPT !.tables = T] = [sets |-> w.sets, tables |-> T]
<1>1. ASSUME NEW d \in Catalogs, NEW S \in SUBSET RepSet
      PROVE  [d EXCEPT !.sets = S] =
               [ext |-> d.ext, local |-> d.local, sets |-> S, tables |-> d.tables, left |-> d.left]
    BY DEF Catalogs
<1>2. ASSUME NEW d \in Catalogs, NEW T \in SUBSET (RepSet \X Table)
      PROVE  [d EXCEPT !.tables = T] =
               [ext |-> d.ext, local |-> d.local, sets |-> d.sets, tables |-> T, left |-> d.left]
    BY DEF Catalogs
<1>3. ASSUME NEW w \in SetsAndTables, NEW S \in SUBSET RepSet
      PROVE  [w EXCEPT !.sets = S] = [sets |-> S, tables |-> w.tables]
    BY DEF SetsAndTables
<1>4. ASSUME NEW w \in SetsAndTables, NEW T \in SUBSET (RepSet \X Table)
      PROVE  [w EXCEPT !.tables = T] = [sets |-> w.sets, tables |-> T]
    BY DEF SetsAndTables
<1> QED
    BY <1>1, <1>2, <1>3, <1>4

\* What a user adds, and the history with it.
LEMMA Additions ==
  ASSUME Typed, NEW n \in Nodes, Edit(n)
  PROVE  \E S \in SUBSET RepSet, T \in SUBSET (RepSet \X Table) :
           /\ db' = [db EXCEPT ![n] =
                [ext |-> db[n].ext, local |-> db[n].local, sets |-> db[n].sets \union S,
                 tables |-> db[n].tables \union T, left |-> db[n].left]]
           /\ wanted' = [wanted EXCEPT ![n] =
                [sets |-> wanted[n].sets \union (S \ BuiltIn), tables |-> wanted[n].tables \union T]]
<1>1. db[n] \in Catalogs /\ wanted[n] \in SetsAndTables
    BY DEF Typed
<1>2. /\ db[n].sets \in SUBSET RepSet /\ db[n].tables \in SUBSET (RepSet \X Table)
      /\ wanted[n].sets \in SUBSET RepSet /\ wanted[n].tables \in SUBSET (RepSet \X Table)
    BY <1>1 DEF Catalogs, SetsAndTables
<1>3. CASE \E s \in RepSet \ db[n].sets :
             /\ db' = [db EXCEPT ![n].sets = @ \union {s}]
             /\ wanted' = [wanted EXCEPT ![n].sets = @ \union ({s} \ BuiltIn)]
  <2>1. PICK s \in RepSet \ db[n].sets :
             /\ db' = [db EXCEPT ![n].sets = @ \union {s}]
             /\ wanted' = [wanted EXCEPT ![n].sets = @ \union ({s} \ BuiltIn)]
      BY <1>3
  <2> DEFINE S == db[n].sets \union {s}
             W == wanted[n].sets \union ({s} \ BuiltIn)
  <2>2. /\ S \in SUBSET RepSet /\ W \in SUBSET RepSet
        /\ db[n].tables \union {} = db[n].tables
        /\ wanted[n].tables \union {} = wanted[n].tables
      BY <1>2
  <2>3. db' = [db EXCEPT ![n] = [db[n] EXCEPT !.sets = S]]
        /\ wanted' = [wanted EXCEPT ![n] = [wanted[n] EXCEPT !.sets = W]]
      BY <2>1
  <2> HIDE DEF S, W
  <2>4. /\ [db[n] EXCEPT !.sets = S] =
            [ext |-> db[n].ext, local |-> db[n].local, sets |-> S,
             tables |-> db[n].tables, left |-> db[n].left]
        /\ [wanted[n] EXCEPT !.sets = W] = [sets |-> W, tables |-> wanted[n].tables]
      BY <1>1, <2>2, Replaced
  <2> WITNESS {s} \in SUBSET RepSet, {} \in SUBSET (RepSet \X Table)
  <2> QED
      BY <2>2, <2>3, <2>4 DEF S, W
<1>4. CASE \E x \in (db[n].sets \X Table) \ db[n].tables :
             /\ db' = [db EXCEPT ![n].tables = @ \union {x}]
             /\ wanted' = [wanted EXCEPT ![n].tables = @ \union {x}]
  <2>1. PICK x \in (db[n].sets \X Table) \ db[n].tables :
             /\ db' = [db EXCEPT ![n].tables = @ \union {x}]
             /\ wanted' = [wanted EXCEPT ![n].tables = @ \union {x}]
      BY <1>4
  <2> DEFINE T == db[n].tables \union {x}
             W == wanted[n].tables \union {x}
  <2>2. {x} \in SUBSET (RepSet \X Table)
      BY <1>2, <2>1
  <2>3. /\ T \in SUBSET (RepSet \X Table) /\ W \in SUBSET (RepSet \X Table)
        /\ db[n].sets \union {} = db[n].sets
        /\ wanted[n].sets \union ({} \ BuiltIn) = wanted[n].sets
      BY <1>2, <2>2
  <2>4. db' = [db EXCEPT ![n] = [db[n] EXCEPT !.tables = T]]
        /\ wanted' = [wanted EXCEPT ![n] = [wanted[n] EXCEPT !.tables = W]]
      BY <2>1
  <2> HIDE DEF T, W
  <2>5. /\ [db[n] EXCEPT !.tables = T] =
            [ext |-> db[n].ext, local |-> db[n].local, sets |-> db[n].sets,
             tables |-> T, left |-> db[n].left]
        /\ [wanted[n] EXCEPT !.tables = W] = [sets |-> wanted[n].sets, tables |-> W]
      BY <1>1, <2>3, Replaced
  <2> WITNESS {} \in SUBSET RepSet, {x} \in SUBSET (RepSet \X Table)
  <2> QED
      BY <2>3, <2>4, <2>5 DEF T, W
<1> QED
    BY <1>3, <1>4 DEF Edit

LEMMA InitTypes == Init => Typed
<1> SUFFICES ASSUME Init PROVE Typed
    OBVIOUS
<1>1. Plain \in Catalogs /\ Restored(Table) \in Catalogs /\ Empty \in Catalogs
    BY DEF Plain, Restored, Empty, Catalogs, RepSet, BuiltIn
<1>2. db \in [Nodes -> Catalogs]
    BY <1>1 DEF Init
<1>3. NoSets \in SetsAndTables
    BY DEF NoSets, SetsAndTables
<1>4. wanted \in [Nodes -> SetsAndTables]
    BY <1>2 DEF Init, UserSets, SetsAndTables, Catalogs
<1>5. conf \in [all : BOOLEAN, restored : SUBSET Nodes]
    BY DEF Init
<1>6. cluster \in [Nodes \union Leaving -> {"absent", "starting", "answering", "healthy"}]
    BY DEF Init
<1>7. at \in DOMAIN Order
    BY Ordering DEF Init
<1> QED
    BY <1>2, <1>3, <1>4, <1>5, <1>6, <1>7 DEF Init, Typed, Steps

LEMMA StepTypes ==
  ASSUME Typed, [Next]_jvars
  PROVE  Typed'
<1> USE DEF Steps, ResetSteps, AfterDrop, jvars, job, counters
<1>1. Here \in Nodes /\ db[Here] \in Catalogs /\ snap \in SetsAndTables
    BY HereIsANode DEF Typed
<1>2. NoSets \in SetsAndTables
    BY DEF NoSets, SetsAndTables
<1>3. ASSUME NEW s \in ResetSteps, db' = [db EXCEPT ![Here] = After(s, @)]
      PROVE  db' \in [Nodes -> Catalogs]
    BY <1>1, <1>3, CatalogsStay DEF Typed
<1>4. CASE WaitForAll
    BY <1>4, Ordering DEF WaitForAll, Typed
<1>5. CASE Connect
  <2>1. CASE at < Len(Order)
      BY <1>5, <2>1, Ordering DEF Connect, Typed
  <2>2. CASE ~(at < Len(Order))
    <3>1. pc' \in {"exists", "reconcile"} /\ at' \in DOMAIN Order
        BY <1>5, <2>2, GoesOn, Ordering DEF Connect
    <3> QED
        BY <1>5, <3>1 DEF Connect, Typed
  <2> QED
      BY <2>1, <2>2
<1>6. CASE CheckExtension
    BY <1>6 DEF CheckExtension, Exists, GoTo, Typed
<1>7. CASE BackupSets
  <2>1. snap' \in SetsAndTables
      BY <1>1, <1>7 DEF BackupSets, SetsAndTables, Catalogs
  <2> QED
      BY <1>7, <2>1 DEF BackupSets, GoTo, Typed
<1>8. CASE BackupTables
  <2>1. snap' \in SetsAndTables
      BY <1>1, <1>8 DEF BackupTables, SetsAndTables, Catalogs
  <2> QED
      BY <1>8, <2>1 DEF BackupTables, GoTo, Typed
<1>9. ASSUME NEW s \in {"drop", "create", "node", "restore"}, Statement(s) PROVE Typed'
  <2>1. db' \in [Nodes -> Catalogs]
      BY <1>3, <1>9 DEF Statement
  <2>2. CASE s = "restore"
      BY <1>2, <1>9, <2>1, <2>2, GoOnTypes DEF Statement, Leave, Typed
  <2>3. CASE s # "restore"
      BY <1>9, <2>1, <2>3 DEF Statement, GoTo, Following, Typed
  <2> QED
      BY <2>2, <2>3
<1>10. ASSUME NEW s \in {"terminate", "slots", "origins"}, CleanUp(s) PROVE Typed'
  <2>1. db' \in [Nodes -> Catalogs]
      BY <1>3, <1>10 DEF CleanUp, Typed
  <2>2. warned' \subseteq Nodes
      BY <1>1, <1>10 DEF CleanUp, Typed
  <2> QED
      BY <1>10, <2>1, <2>2 DEF CleanUp, GoTo, Following, Typed
<1>11. CASE Reconcile
  <2>1. \A n \in Nodes : After("node", db[n]) \in Catalogs
      BY <1>1, CatalogsStay DEF Typed
  <2>2. db' \in [Nodes -> Catalogs]
      BY <1>11, <2>1 DEF Reconcile, Typed
  <2> QED
      BY <1>2, <1>11, <2>2, Ordering DEF Reconcile, Exit, Typed
<1>12. CASE Refused
    BY <1>1, <1>2, <1>12, Ordering DEF Refused, Exit, Typed
<1>13. CASE Ends
  <2>1. db' \in [Nodes -> Catalogs]
      BY <1>3, <1>13 DEF Ends, Typed
  <2> QED
      BY <1>2, <1>13, <2>1, Ordering DEF Ends, Exit, Typed
<1>14. ASSUME NEW c \in [all : BOOLEAN, restored : SUBSET Nodes], Start(c),
              pc = "idle"
       PROVE  Typed'
    BY <1>14 DEF Start, Typed
<1>15. CASE Retry
  <2>1. {conf, [all |-> TRUE, restored |-> {}]} \subseteq [all : BOOLEAN, restored : SUBSET Nodes]
      BY DEF Typed
  <2> QED
      BY <1>14, <1>15, <2>1 DEF Retry
<1>16. CASE Upgrade
  <2>1. \A all \in {conf.all, FALSE} :
          [all |-> all, restored |-> {}] \in [all : BOOLEAN, restored : SUBSET Nodes]
      BY DEF Typed
  <2> QED
      BY <1>14, <1>16, <2>1 DEF Upgrade
<1>17. ASSUME NEW c \in DOMAIN cluster, ClusterMoves(c) PROVE Typed'
  <2>1. cluster' \in [Nodes \union Leaving -> {"absent", "starting", "answering", "healthy"}]
      BY <1>17 DEF ClusterMoves, Typed
  <2> QED
      BY <1>17, <2>1 DEF ClusterMoves, Typed
<1>18. ASSUME NEW n \in Nodes, PeerReturns(n) PROVE Typed'
  <2>1. db' \in [Nodes -> Catalogs]
    <3>1. db[n] \in Catalogs /\ db[n].left \in SUBSET {"slot", "walsender", "origin"}
        BY DEF Typed, Catalogs
    <3>2. [db[n] EXCEPT !.left = @ \union {"walsender"}] \in Catalogs
        BY <3>1 DEF Catalogs
    <3> QED
        BY <1>18, <3>2 DEF PeerReturns, Typed
  <2> QED
      BY <1>18, <2>1 DEF PeerReturns, Typed
<1>19. ASSUME NEW n \in Nodes, Edit(n) PROVE Typed'
  <2>1. PICK S \in SUBSET RepSet, T \in SUBSET (RepSet \X Table) :
           /\ db' = [db EXCEPT ![n] =
                [ext |-> db[n].ext, local |-> db[n].local, sets |-> db[n].sets \union S,
                 tables |-> db[n].tables \union T, left |-> db[n].left]]
           /\ wanted' = [wanted EXCEPT ![n] =
                [sets |-> wanted[n].sets \union (S \ BuiltIn), tables |-> wanted[n].tables \union T]]
      BY <1>19, Additions
  <2>2. db' \in [Nodes -> Catalogs]
      BY <2>1 DEF Typed, Catalogs
  <2>3. wanted' \in [Nodes -> SetsAndTables]
      BY <2>1 DEF Typed, SetsAndTables
  <2> QED
      BY <1>19, <2>2, <2>3 DEF Edit, Typed
<1>20. CASE UNCHANGED jvars
    BY <1>20 DEF Typed
<1> QED
    BY <1>4, <1>5, <1>6, <1>7, <1>8, <1>9, <1>10, <1>11, <1>12, <1>13, <1>15, <1>16,
       <1>17, <1>18, <1>19, <1>20 DEF Next, JobStep

-----------------------------------------------------------------------------
(* The invariant of the job.                                               *)

\* The catalogs of its node after a step of resetNode.
LEMMA HereAfter ==
  ASSUME Typed, Consistent, StandsOn, pc \in ResetSteps,
         NEW d, d = After(pc, db[Here])
  PROVE  /\ d \in Catalogs
         /\ ~d.ext => d.local = "none"
         /\ d.local = "none" => d.sets = {} /\ d.tables = {}
         /\ pc \in {"drop", "terminate", "slots", "origins"} => ~d.ext
         /\ pc = "create" => d.ext /\ d.local = "none"
         /\ pc \in {"node", "restore"} => d.ext /\ d.local = "own"
         /\ d.left \subseteq db[Here].left
         /\ pc = "slots" => "slot" \notin d.left
<1>1. Here \in Nodes /\ db[Here] \in Catalogs /\ snap \in SetsAndTables
    BY HereIsANode DEF Typed
<1>2. d \in Catalogs
    BY <1>1, CatalogsStay
<1>3. /\ ~db[Here].ext => db[Here].local = "none"
      /\ db[Here].local = "none" => db[Here].sets = {} /\ db[Here].tables = {}
    BY <1>1 DEF Consistent
<1>4. CASE pc \in {"exists", "sets", "tables"}
    BY <1>1, <1>2, <1>3, <1>4, Effects
<1>5. CASE pc = "drop"
    BY <1>1, <1>2, <1>5, Effects DEF Dropped
<1>6. CASE pc \in {"terminate", "slots", "origins"}
  <2>1. PICK x : d = Without(db[Here], x) /\ (pc = "slots" => x = "slot")
      BY <1>1, <1>6, Effects
  <2>2. ~db[Here].ext
      BY <1>6 DEF StandsOn
  <2> QED
      BY <1>2, <1>3, <1>6, <2>1, <2>2 DEF Without
<1>7. CASE pc = "create"
  <2>1. ~db[Here].ext
      BY <1>7 DEF StandsOn
  <2> QED
      BY <1>1, <1>2, <1>3, <1>7, <2>1, Effects DEF Created
<1>8. CASE pc = "node"
  <2>1. db[Here].ext
      BY <1>8 DEF StandsOn
  <2> QED
      BY <1>1, <1>2, <1>8, <2>1, Effects DEF Named
<1>9. CASE pc = "restore"
  <2>1. db[Here].ext /\ db[Here].local = "own"
      BY <1>9 DEF StandsOn
  <2> QED
      BY <1>1, <1>2, <1>9, <2>1, Effects DEF Refilled
<1> QED
    BY <1>4, <1>5, <1>6, <1>7, <1>8, <1>9 DEF ResetSteps, AfterDrop

\* A step that stays on its node.
LEMMA Stays ==
  ASSUME JobInv, pc \in ResetSteps, pc' \in ResetSteps, at' = at, conf' = conf,
         cluster' = cluster, warned \subseteq warned',
         \A m \in Nodes \ {Here} : db'[m] = db[m]
  PROVE  Here' = Here /\ Here' \in ToReset' /\ Behind' /\ Spared' /\ Waited'
<1>1. Here' = Here /\ ToReset' = ToReset /\ Here \in ToReset
    BY DEF Here, ToReset, JobInv, StandsOn
<1>2. at \in DOMAIN Order /\ DOMAIN Order \subseteq Nat
    BY Ordering DEF JobInv, Typed
<1>3. pc' # "reconcile" /\ pc' # "idle" /\ pc' # "connect"
    BY DEF ResetSteps, AfterDrop
<1>4. ASSUME NEW j \in DOMAIN Order, Visited(j)'
      PROVE  IsReset(Order[j])'
  <2>1. j < at /\ Order[j] \in ToReset
      BY <1>1, <1>3, <1>4 DEF Visited
  <2>2. IsReset(Order[j])
      BY <2>1 DEF JobInv, Behind, Visited
  <2>3. Order[j] # Here
      BY <1>2, <2>1, JobAssumption DEF Here
  <2>4. db'[Order[j]] = db[Order[j]]
      BY <2>3, Ordering
  <2> QED
      BY <2>2, <2>4 DEF IsReset, Manageable
<1>5. Spared'
    BY <1>1, <1>3 DEF JobInv, Spared, Manageable
<1>6. Waited'
    BY <1>3 DEF JobInv, Waited, Answers
<1> QED
    BY <1>1, <1>4, <1>5, <1>6 DEF Behind

\* A run that fails.
LEMMA Fails ==
  ASSUME JobInv, pc' = "idle", result' = "error", conf' = conf,
         \A m \in Nodes \ ToReset : db'[m] = db[m]
  PROVE  StandsOn' /\ Behind' /\ Spared' /\ Waited'
<1>1. ToReset' = ToReset
    BY DEF ToReset
<1>2. Spared'
    BY <1>1 DEF JobInv, Spared, Manageable
<1> QED
    BY <1>2 DEF StandsOn, Behind, Visited, Waited, ResetSteps, AfterDrop

\* The loop goes on.
LEMMA Advances ==
  ASSUME JobInv, NEW i \in 1 .. Len(Order) + 1, GoOn(i), conf' = conf, cluster' = cluster,
         warned' = warned,
         \A m \in Nodes \ ToReset : db'[m] = db[m],
         \A j \in DOMAIN Order : j < i /\ Order[j] \in ToReset => IsReset(Order[j])',
         \A n \in Nodes : Answers(n)
  PROVE  StandsOn' /\ Behind' /\ Spared' /\ Waited'
<1>1. ToReset' = ToReset
    BY DEF ToReset
<1>2. DOMAIN Order \subseteq Nat /\ i \in Nat
    BY Ordering
<1>3. Spared'
  <2>1. pc' # "idle"
      BY GoesOn
  <2> QED
      BY <1>1, <2>1 DEF JobInv, Spared, Manageable
<1>4. Waited'
  <2>1. pc' # "connect"
      BY GoesOn
  <2> QED
      BY <2>1 DEF Waited, Answers
<1>5. CASE pc' = "reconcile"
  <2>1. \A j \in DOMAIN Order : j >= i => Order[j] \notin ToReset
      BY <1>5, GoesOn
  <2>2. \A j \in DOMAIN Order : Order[j] \in ToReset => j < i
      BY <1>2, <2>1
  <2>3. Behind'
      BY <1>1, <2>2 DEF Behind, Visited
  <2>4. StandsOn'
      BY <1>5 DEF StandsOn, ResetSteps, AfterDrop
  <2> QED
      BY <1>3, <1>4, <2>3, <2>4
<1>6. CASE pc' = "exists"
  <2>1. /\ at' \in DOMAIN Order /\ Order[at'] \in ToReset /\ at' >= i
        /\ \A j \in DOMAIN Order : j >= i /\ j < at' => Order[j] \notin ToReset
      BY <1>6, GoesOn
  <2>2. \A j \in DOMAIN Order : Order[j] \in ToReset /\ j < at' => j < i
      BY <1>2, <2>1
  <2>3. Behind'
      BY <1>1, <1>6, <2>2 DEF Behind, Visited
  <2>4. StandsOn'
      BY <1>1, <1>6, <2>1 DEF StandsOn, Here
  <2> QED
      BY <1>3, <1>4, <2>3, <2>4
<1> QED
    BY <1>5, <1>6, GoesOn
LEMMA InitInv == Init => JobInv
<1> SUFFICES ASSUME Init PROVE JobInv
    OBVIOUS
<1>1. Typed
    BY InitTypes
<1>2. \A n \in Nodes : db[n] \in {Plain, Restored(Table), Empty}
    BY DEF Init
<1>3. \A n \in Nodes : db[n].ext /\ (db[n].local = "none" => db[n].sets = {} /\ db[n].tables = {})
    BY <1>2 DEF Plain, Restored, Empty
<1>4. \A n \in Nodes \ ToReset : Manageable(n)
    BY <1>3 DEF Init, ToReset, Manageable
<1>5. pc = "clusters"
    BY DEF Init
<1> QED
    BY <1>1, <1>3, <1>4, <1>5
    DEF JobInv, Consistent, StandsOn, Behind, Visited, Spared, Waited, ResetSteps, AfterDrop

LEMMA StepInv ==
  ASSUME JobInv, [Next]_jvars
  PROVE  JobInv'
<1> USE DEF jvars, job, counters
<1>1. Typed'
    BY StepTypes DEF JobInv
<1>2. Typed /\ Here \in Nodes /\ db[Here] \in Catalogs /\ at \in DOMAIN Order
    BY HereIsANode DEF JobInv, Typed
<1>3. at + 1 \in 1 .. Len(Order) + 1 /\ DOMAIN Order \subseteq Nat /\ at \in Nat
    BY <1>2, Ordering
<1>4. ASSUME pc \in ResetSteps,
             db' = db \/ db' = [db EXCEPT ![Here] = After(pc, @)]
      PROVE  /\ Consistent'
             /\ \A m \in Nodes \ {Here} : db'[m] = db[m]
             /\ \A m \in Nodes \ ToReset : db'[m] = db[m]
  <2>1. Here \in ToReset
      BY <1>4 DEF JobInv, StandsOn
  <2>2. CASE db' = db
      BY <2>2 DEF JobInv, Consistent
  <2>3. CASE db' = [db EXCEPT ![Here] = After(pc, @)]
    <3>1. db'[Here] = After(pc, db[Here]) /\ \A m \in Nodes \ {Here} : db'[m] = db[m]
        BY <1>2, <2>3 DEF Typed
    <3>2. Consistent'
        BY <1>4, <3>1, HereAfter DEF JobInv, Consistent
    <3> QED
        BY <2>1, <3>1, <3>2
  <2> QED
      BY <1>4, <2>2, <2>3
<1>5. CASE WaitForAll
    BY <1>1, <1>5, <1>3, Ordering DEF WaitForAll, JobInv, Consistent, StandsOn, Behind, Visited, Spared,
       Waited, ToReset, Manageable, ResetSteps, AfterDrop
<1>6. CASE Connect
  <2>1. Consistent'
      BY <1>6 DEF Connect, JobInv, Consistent
  <2>2. \A j \in DOMAIN Order : j < at + 1 => Answers(Order[j])
      BY <1>2, <1>3, <1>6 DEF Connect, JobInv, Waited
  <2>3. CASE at < Len(Order)
      BY <1>1, <1>6, <2>1, <2>2, <2>3
      DEF Connect, JobInv, StandsOn, Behind, Visited, Spared, Waited, Answers, ToReset,
          Manageable, ResetSteps, AfterDrop
  <2>4. CASE ~(at < Len(Order))
    <3>1. \A n \in Nodes : Answers(n)
        BY <1>2, <2>2, <2>4, Ordering
    <3>2. 1 \in 1 .. Len(Order) + 1
        BY Ordering
    <3>3. \A j \in DOMAIN Order : ~(j < 1)
        BY Ordering
    <3>4. StandsOn' /\ Behind' /\ Spared' /\ Waited'
        BY <1>6, <2>4, <3>1, <3>2, <3>3, Advances DEF Connect
    <3> QED
        BY <1>1, <2>1, <3>4 DEF JobInv
  <2> QED
      BY <2>3, <2>4
<1>7. CASE CheckExtension
  <2>1. pc \in ResetSteps /\ pc' \in {"sets", "drop"} /\ pc' \in ResetSteps
      BY <1>7 DEF CheckExtension, Exists, GoTo, ResetSteps
  <2>2. Consistent' /\ Here' \in ToReset' /\ Behind' /\ Spared' /\ Waited'
      BY <1>4, <1>7, <2>1, Stays DEF CheckExtension, Exists, GoTo
  <2> QED
      BY <1>1, <2>1, <2>2 DEF JobInv, StandsOn
<1>8. CASE BackupSets \/ BackupTables
  <2>1. pc \in ResetSteps /\ pc' \in {"tables", "drop"} /\ pc' \in ResetSteps
      BY <1>8 DEF BackupSets, BackupTables, GoTo, ResetSteps
  <2>2. Consistent' /\ Here' \in ToReset' /\ Behind' /\ Spared' /\ Waited'
      BY <1>4, <1>8, <2>1, Stays DEF BackupSets, BackupTables, GoTo
  <2> QED
      BY <1>1, <2>1, <2>2 DEF JobInv, StandsOn
<1>9. ASSUME NEW s \in {"drop", "create", "node", "restore"}, Statement(s)
      PROVE  JobInv'
  <2>1. pc = s /\ pc \in ResetSteps /\ db' = [db EXCEPT ![Here] = After(pc, @)]
      BY <1>9 DEF Statement, ResetSteps, AfterDrop
  <2>2. /\ Consistent'
        /\ \A m \in Nodes \ {Here} : db'[m] = db[m]
        /\ \A m \in Nodes \ ToReset : db'[m] = db[m]
      BY <1>4, <2>1
  <2>3. db'[Here] = After(pc, db[Here])
      BY <1>2, <2>1 DEF Typed
  <2>4. CASE s # "restore"
    <3>1. /\ pc' = Following[s] /\ pc' \in ResetSteps /\ at' = at /\ conf' = conf
          /\ cluster' = cluster /\ warned' = warned
        BY <1>9, <2>4 DEF Statement, GoTo, Following, ResetSteps, AfterDrop
    <3>2. Here' = Here /\ Here' \in ToReset' /\ Behind' /\ Spared' /\ Waited'
        BY <2>1, <2>2, <3>1, Stays
    <3>3. /\ s = "drop" => pc' = "terminate"
          /\ s = "create" => pc' = "node"
          /\ s = "node" => pc' = "restore"
        BY <3>1 DEF Following
    <3>4. db'[Here'] = After(pc, db[Here])
        BY <2>3, <3>2
    <3>5. StandsOn'
        BY <2>1, <2>4, <3>1, <3>2, <3>3, <3>4, HereAfter DEF JobInv, StandsOn
    <3> QED
        BY <1>1, <2>2, <3>2, <3>5 DEF JobInv
  <2>5. CASE s = "restore"
    <3>1. GoOn(at + 1) /\ conf' = conf /\ cluster' = cluster /\ warned' = warned
        BY <1>9, <2>5 DEF Statement, Leave
    <3>2. PICK h \in Nodes : h = Here
        BY <1>2
    <3>3. IsReset(h)'
      <4>1. db'[h] = After(pc, db[h])
          BY <2>3, <3>2
      <4>2. db'[h].ext /\ db'[h].local = "own" /\ db'[h].left \subseteq db[h].left
          BY <2>1, <2>5, <3>2, <4>1, HereAfter DEF JobInv
      <4>3. h \notin warned => "slot" \notin db[h].left
          BY <2>1, <2>5, <3>2 DEF JobInv, StandsOn
      <4> QED
          BY <3>1, <4>2, <4>3 DEF IsReset, Manageable
    <3>4. ASSUME NEW j \in DOMAIN Order, j < at + 1, Order[j] \in ToReset
          PROVE  IsReset(Order[j])'
      <4>1. CASE j = at
          BY <3>2, <3>3, <4>1 DEF Here
      <4>2. CASE j # at
        <5>1. j < at
            BY <1>3, <3>4, <4>2
        <5>2. IsReset(Order[j])
            BY <2>1, <3>4, <5>1 DEF JobInv, Behind, Visited
        <5>3. Order[j] # Here
            BY <1>2, <4>2, JobAssumption DEF Here
        <5>4. db'[Order[j]] = db[Order[j]]
            BY <2>2, <5>3, Ordering
        <5> QED
            BY <3>1, <5>2, <5>4 DEF IsReset, Manageable
      <4> QED
          BY <4>1, <4>2
    <3>5. \A n \in Nodes : Answers(n)
        BY <2>1 DEF JobInv, Waited
    <3>6. StandsOn' /\ Behind' /\ Spared' /\ Waited'
        BY <1>3, <2>2, <3>1, <3>4, <3>5, Advances
    <3> QED
        BY <1>1, <2>2, <3>6 DEF JobInv
  <2> QED
      BY <2>4, <2>5
<1>10. ASSUME NEW s \in {"terminate", "slots", "origins"}, CleanUp(s)
       PROVE  JobInv'
  <2>1. /\ pc = s /\ pc \in ResetSteps
        /\ db' = db \/ db' = [db EXCEPT ![Here] = After(pc, @)]
        /\ pc' = Following[s] /\ pc' \in ResetSteps /\ at' = at /\ conf' = conf
        /\ cluster' = cluster /\ warned \subseteq warned'
      BY <1>10 DEF CleanUp, GoTo, Following, ResetSteps, AfterDrop
  <2>2. Consistent' /\ \A m \in Nodes \ {Here} : db'[m] = db[m]
      BY <1>4, <2>1
  <2>3. Here' = Here /\ Here' \in ToReset' /\ Behind' /\ Spared' /\ Waited'
      BY <2>1, <2>2, Stays
  <2>4. /\ s = "terminate" => pc' = "slots"
        /\ s = "slots" => pc' = "origins"
        /\ s = "origins" => pc' = "create"
      BY <2>1 DEF Following
  <2>5. CASE db' = [db EXCEPT ![Here] = After(pc, @)]
    <3>1. db'[Here'] = After(pc, db[Here])
        BY <1>2, <2>3, <2>5 DEF Typed
    <3>2. /\ ~db'[Here'].ext
          /\ db'[Here'].left \subseteq db[Here].left
          /\ pc = "slots" => "slot" \notin db'[Here'].left
        BY <2>1, <3>1, HereAfter DEF JobInv
    <3>3. StandsOn'
        BY <2>1, <2>3, <2>4, <3>2 DEF JobInv, StandsOn
    <3> QED
        BY <1>1, <2>2, <2>3, <3>3 DEF JobInv
  <2>6. CASE db' = db /\ warned' = warned \union {Here}
    <3>1. StandsOn'
        BY <2>1, <2>3, <2>4, <2>6 DEF JobInv, StandsOn
    <3> QED
        BY <1>1, <2>2, <2>3, <3>1 DEF JobInv
  <2> QED
      BY <1>10, <2>1, <2>5, <2>6 DEF CleanUp
<1>11. CASE Reconcile
  <2>1. conf' = conf /\ cluster' = cluster /\ pc' = "idle" /\ ToReset' = ToReset
      BY <1>11 DEF Reconcile, Exit, ToReset
  <2>2. StandsOn' /\ Behind' /\ Waited'
      BY <2>1 DEF StandsOn, Behind, Visited, Waited, ResetSteps, AfterDrop
  <2>3. CASE \A n \in Nodes : Manageable(n)
    <3>1. \A n \in Nodes : db'[n] = IF db[n].local = "own" THEN db[n] ELSE After("node", db[n])
        BY <1>11, <2>3 DEF Reconcile
    <3>2. ASSUME NEW n \in Nodes
          PROVE  db'[n].ext /\ db'[n].local = "own"
      <4>1. CASE db[n].local = "own"
          BY <2>3, <3>1, <4>1 DEF Manageable
      <4>2. CASE db[n].local # "own"
        <5>1. db'[n] = Named(db[n])
            BY <1>2, <3>1, <4>2, Effects DEF Typed
        <5> QED
            BY <2>3, <5>1 DEF Named, Manageable
      <4> QED
          BY <4>1, <4>2
    <3>3. Consistent' /\ Spared'
        BY <2>1, <3>2 DEF Consistent, Spared, Manageable
    <3> QED
        BY <1>1, <2>2, <3>3 DEF JobInv
  <2>4. CASE ~ \A n \in Nodes : Manageable(n)
    <3>1. db' = db /\ result' = "error"
        BY <1>11, <2>4 DEF Reconcile, Exit
    <3>2. Consistent' /\ Spared'
        BY <2>1, <3>1 DEF JobInv, Consistent, Spared, Manageable
    <3> QED
        BY <1>1, <2>2, <3>2 DEF JobInv
  <2> QED
      BY <2>3, <2>4
<1>12. CASE Refused
  <2>1. Consistent' /\ StandsOn' /\ Behind' /\ Spared' /\ Waited'
      BY <1>12, Fails DEF Refused, Exit, JobInv, Consistent
  <2> QED
      BY <1>1, <2>1 DEF JobInv
<1>13. CASE Ends
  <2>1. /\ pc' = "idle" /\ result' = "error" /\ conf' = conf
        /\ \/ db' = db
           \/ pc \in ResetSteps /\ db' = [db EXCEPT ![Here] = After(pc, @)]
      BY <1>13 DEF Ends, Exit
  <2>2. Consistent' /\ \A m \in Nodes \ ToReset : db'[m] = db[m]
    <3>1. CASE db' = db
        BY <3>1 DEF JobInv, Consistent
    <3>2. CASE pc \in ResetSteps /\ db' = [db EXCEPT ![Here] = After(pc, @)]
        BY <1>4, <3>2
    <3> QED
        BY <2>1, <3>1, <3>2
  <2>3. StandsOn' /\ Behind' /\ Spared' /\ Waited'
      BY <2>1, <2>2, Fails
  <2> QED
      BY <1>1, <2>2, <2>3 DEF JobInv
<1>14. CASE Retry
  <2>1. /\ pc' = "clusters" /\ db' = db
        /\ conf' = conf \/ conf' = [all |-> TRUE, restored |-> {}]
      BY <1>14 DEF Retry, Start
  <2>2. ToReset \subseteq ToReset'
      BY <2>1 DEF ToReset
  <2>3. Consistent' /\ Spared'
      BY <2>1, <2>2 DEF JobInv, Consistent, Spared, Manageable
  <2> QED
      BY <1>1, <2>1, <2>3 DEF JobInv, StandsOn, Behind, Visited, Waited, ResetSteps, AfterDrop
<1>15. CASE Upgrade
  <2>1. pc' = "clusters" /\ db' = db /\ pc = "idle" /\ result = "ok"
      BY <1>15 DEF Upgrade, Start
  <2>2. \A n \in Nodes : Manageable(n)
      BY <2>1 DEF JobInv, Spared
  <2>3. Consistent' /\ Spared'
      BY <2>1, <2>2 DEF JobInv, Consistent, Spared, Manageable
  <2> QED
      BY <1>1, <2>1, <2>3 DEF JobInv, StandsOn, Behind, Visited, Waited, ResetSteps, AfterDrop
<1>16. ASSUME NEW c \in DOMAIN cluster, ClusterMoves(c)
       PROVE  JobInv'
  <2>1. /\ db' = db /\ pc' = pc /\ at' = at /\ conf' = conf /\ warned' = warned
        /\ result' = result
      BY <1>16 DEF ClusterMoves
  <2>2. \A n \in Nodes : Answers(n) => Answers(n)'
    <3>1. c \in Leaving => c \notin Nodes
        BY JobAssumption
    <3> QED
        BY <1>2, <1>16, <3>1 DEF ClusterMoves, Answers, Typed
  <2>3. Waited'
      BY <2>1, <2>2, Ordering DEF JobInv, Waited
  <2>4. Consistent' /\ StandsOn' /\ Behind' /\ Spared'
      BY <2>1 DEF JobInv, Consistent, StandsOn, Behind, Visited, IsReset, Spared, Manageable,
         ToReset, Here
  <2> QED
      BY <1>1, <2>3, <2>4 DEF JobInv
<1>17. ASSUME job' = job, cluster' = cluster, Consistent',
              \A n \in Nodes : /\ db'[n].ext = db[n].ext /\ db'[n].local = db[n].local
                               /\ "slot" \in db'[n].left => "slot" \in db[n].left
       PROVE  JobInv'
  <2>1. ToReset' = ToReset /\ Here' = Here
      BY <1>17 DEF ToReset, Here
  <2>2. StandsOn'
      BY <1>2, <1>17, <2>1 DEF JobInv, StandsOn
  <2>3. Behind' /\ Spared'
      BY <1>17, <2>1, Ordering DEF JobInv, Behind, Visited, IsReset, Spared, Manageable
  <2>4. Waited'
      BY <1>17 DEF JobInv, Waited, Answers
  <2> QED
      BY <1>1, <1>17, <2>2, <2>3, <2>4 DEF JobInv
<1>18. ASSUME NEW n \in Nodes, PeerReturns(n)
       PROVE  JobInv'
  <2>1. /\ \A m \in Nodes \ {n} : db'[m] = db[m]
        /\ db'[n] = [db[n] EXCEPT !.left = @ \union {"walsender"}]
      BY <1>2, <1>18 DEF PeerReturns, Typed
  <2>2. /\ db'[n].ext = db[n].ext /\ db'[n].local = db[n].local
        /\ db'[n].sets = db[n].sets /\ db'[n].tables = db[n].tables
        /\ db'[n].left = db[n].left \union {"walsender"}
      BY <1>2, <2>1 DEF Typed, Catalogs
  <2>3. Consistent'
    <3>1. ASSUME NEW m \in Nodes
          PROVE  /\ db'[m].ext = db[m].ext /\ db'[m].local = db[m].local
                 /\ db'[m].sets = db[m].sets /\ db'[m].tables = db[m].tables
        BY <2>1, <2>2
    <3> QED
        BY <3>1 DEF JobInv, Consistent
  <2>4. "slot" \in db'[n].left => "slot" \in db[n].left
      BY <2>2
  <2>5. job' = job /\ cluster' = cluster
      BY <1>18 DEF PeerReturns
  <2> QED
      BY <1>17, <2>1, <2>2, <2>3, <2>4, <2>5
<1>19. ASSUME NEW n \in Nodes, Edit(n)
       PROVE  JobInv'
  <2>1. PICK S \in SUBSET RepSet, T \in SUBSET (RepSet \X Table) :
           /\ db' = [db EXCEPT ![n] =
                [ext |-> db[n].ext, local |-> db[n].local, sets |-> db[n].sets \union S,
                 tables |-> db[n].tables \union T, left |-> db[n].left]]
           /\ wanted' = [wanted EXCEPT ![n] =
                [sets |-> wanted[n].sets \union (S \ BuiltIn), tables |-> wanted[n].tables \union T]]
      BY <1>2, <1>19, Additions
  <2>2. /\ \A m \in Nodes \ {n} : db'[m] = db[m]
        /\ db'[n].ext = db[n].ext /\ db'[n].local = db[n].local /\ db'[n].left = db[n].left
      BY <1>2, <2>1 DEF Typed
  <2>3. db[n].local = "own"
      BY <1>19 DEF Edit
  <2>4. Consistent'
      BY <2>2, <2>3 DEF JobInv, Consistent
  <2> QED
      BY <1>17, <1>19, <2>2, <2>4 DEF Edit
<1>20. CASE UNCHANGED jvars
    BY <1>17, <1>20 DEF JobInv, Consistent
<1> QED
    BY <1>5, <1>6, <1>7, <1>8, <1>9, <1>10, <1>11, <1>12, <1>13, <1>14, <1>15, <1>16,
       <1>18, <1>19, <1>20 DEF Next, JobStep

-----------------------------------------------------------------------------
(* Replication sets.                                                       *)

Kept == Memory /\ OnlyACrashLoses

LEMMA InitKept == Init => Kept
<1> SUFFICES ASSUME Init PROVE Kept
    OBVIOUS
<1>1. pc = "clusters" /\ wanted = [n \in Nodes |-> UserSets(n)]
    BY DEF Init
<1> QED
    BY <1>1 DEF Kept, Memory, OnlyACrashLoses, AfterDrop

\* A step that changes no replication set and leaves resetNode where it is.
LEMMA SameSets ==
  ASSUME Typed, Kept, pc' = pc, at' = at, snap' = snap, wanted' = wanted, torn' = torn,
         \A n \in Nodes : db'[n].sets = db[n].sets /\ db'[n].tables = db[n].tables
  PROVE  Kept'
<1>1. Here' = Here /\ Here \in Nodes
    BY HereIsANode DEF Here
<1>2. \A n \in Nodes : UserSets(n)' = UserSets(n)
    BY DEF UserSets
<1>3. UserSets(Here)' = UserSets(Here)
    BY <1>1, <1>2 DEF UserSets
<1>4. Memory'
    BY <1>1, <1>3 DEF Kept, Memory, Custom
<1>5. OnlyACrashLoses'
    BY <1>1, <1>2 DEF Kept, OnlyACrashLoses
<1> QED
    BY <1>4, <1>5 DEF Kept

\* A step that is outside of the reset of a node before and after it.
LEMMA Outside ==
  ASSUME Kept, pc \notin AfterDrop, pc' \notin AfterDrop \union {"tables", "drop"},
         wanted' = wanted, torn' = torn, \A n \in Nodes : UserSets(n)' = UserSets(n)
  PROVE  Kept'
<1>1. Memory'
    BY DEF Memory, AfterDrop
<1>2. OnlyACrashLoses'
    BY DEF Kept, OnlyACrashLoses
<1> QED
    BY <1>1, <1>2 DEF Kept

\* A statement on the node of the step.
LEMMA StatementKeeps ==
  ASSUME JobInv, Kept, pc \in AfterDrop \union {"drop"},
         db' = [db EXCEPT ![Here] = After(pc, @)],
         wanted' = wanted, torn' = torn,
         \/ pc = "restore" /\ pc' \in {"exists", "reconcile"}
         \/ pc # "restore" /\ pc' \in AfterDrop /\ at' = at /\ snap' = snap
  PROVE  Kept'
<1>1. /\ Here \in Nodes /\ db[Here] \in Catalogs /\ snap \in SetsAndTables
      /\ \A n \in Nodes : wanted[n] \in SetsAndTables
    BY HereIsANode DEF JobInv, Typed
<1>2. PICK h \in Nodes : h = Here
    BY <1>1
<1>3. db'[h] = After(pc, db[h]) /\ \A m \in Nodes \ {h} : db'[m] = db[m]
    BY <1>2 DEF JobInv, Typed
<1>4. \A m \in Nodes \ {h} : UserSets(m)' = UserSets(m)
    BY <1>3 DEF UserSets
<1>5. \A m \in Nodes \ {h} : m \notin torn => UserSets(m)' = wanted'[m]
    BY <1>2, <1>4 DEF Kept, OnlyACrashLoses
<1>6. CASE pc = "restore"
  <2>1. db'[h] = Refilled(db[h])
      BY <1>1, <1>2, <1>3, <1>6, Effects
  <2>2. /\ UserSets(h)'.sets = (db[h].sets \union Custom) \ BuiltIn
        /\ UserSets(h)'.tables = db[h].tables \union snap.tables
      BY <2>1 DEF Refilled, UserSets
  <2>3. (db[h].sets \union Custom) \ BuiltIn = Custom \union UserSets(h).sets
      BY DEF Custom, UserSets
  <2>4. ASSUME h \notin torn PROVE UserSets(h)' = wanted[h]
    <3>1. /\ wanted[h].sets = Custom \union UserSets(h).sets
          /\ wanted[h].tables = snap.tables \union UserSets(h).tables
        BY <1>2, <1>6, <2>4 DEF Kept, Memory, AfterDrop
    <3>2. UserSets(h).tables = db[h].tables
        BY DEF UserSets
    <3>3. /\ UserSets(h)'.sets = wanted[h].sets
          /\ UserSets(h)'.tables = wanted[h].tables
        BY <2>2, <2>3, <3>1, <3>2
    <3>4. /\ UserSets(h)' = [sets |-> UserSets(h)'.sets, tables |-> UserSets(h)'.tables]
          /\ wanted[h] = [sets |-> wanted[h].sets, tables |-> wanted[h].tables]
        BY <1>1 DEF UserSets, SetsAndTables
    <3> QED
        BY <3>3, <3>4
  <2>5. OnlyACrashLoses'
      BY <1>5, <2>4 DEF OnlyACrashLoses
  <2>6. Memory'
      BY <1>6 DEF Memory, AfterDrop
  <2> QED
      BY <2>5, <2>6 DEF Kept
<1>7. CASE pc # "restore"
  <2>1. Here' = Here /\ pc' \in AfterDrop /\ Custom' = Custom
      BY <1>7 DEF Here, Custom
  <2>2. OnlyACrashLoses'
      BY <1>2, <1>5, <2>1 DEF OnlyACrashLoses
  <2>3. ASSUME h \notin torn
        PROVE  /\ wanted[h].sets = Custom \union UserSets(h)'.sets
               /\ wanted[h].tables = snap.tables \union UserSets(h)'.tables
    <3>1. CASE pc = "drop"
      <4>1. snap.sets = db[h].sets /\ snap.tables = db[h].tables
          BY <1>2, <3>1 DEF Kept, Memory
      <4>2. wanted[h] = UserSets(h)
          BY <2>3, <3>1 DEF Kept, OnlyACrashLoses, AfterDrop
      <4>3. db'[h].sets = {} /\ db'[h].tables = {}
          BY <1>1, <1>2, <1>3, <3>1, Effects DEF Dropped
      <4> QED
          BY <4>1, <4>2, <4>3 DEF UserSets, Custom
    <3>2. CASE pc # "drop"
      <4>1. /\ wanted[h].sets = Custom \union UserSets(h).sets
            /\ wanted[h].tables = snap.tables \union UserSets(h).tables
          BY <1>2, <2>3, <3>2 DEF Kept, Memory
      <4>2. CASE pc = "node"
        <5>1. db[h].sets = {} /\ db'[h] = Named(db[h])
            BY <1>1, <1>2, <1>3, <4>2, Effects DEF JobInv, StandsOn, Consistent
        <5>2. UserSets(h)'.sets = UserSets(h).sets /\ UserSets(h)'.tables = UserSets(h).tables
            BY <5>1 DEF UserSets, Named
        <5> QED
            BY <4>1, <5>2
      <4>3. CASE pc \in {"terminate", "slots", "origins", "create"}
        <5>1. db'[h] = Created(db[h]) \/ \E x : db'[h] = Without(db[h], x)
            BY <1>1, <1>2, <1>3, <4>3, Effects
        <5>2. /\ Created(db[h]).sets = db[h].sets /\ Created(db[h]).tables = db[h].tables
              /\ \A x : /\ Without(db[h], x).sets = db[h].sets
                       /\ Without(db[h], x).tables = db[h].tables
            BY DEF Created, Without
        <5>3. db'[h].sets = db[h].sets /\ db'[h].tables = db[h].tables
            BY <5>1, <5>2
        <5> QED
            BY <4>1, <5>3 DEF UserSets
      <4> QED
          BY <1>7, <3>2, <4>2, <4>3 DEF AfterDrop
    <3> QED
        BY <3>1, <3>2
  <2>4. Here' = h /\ UserSets(Here)'.sets = UserSets(h)'.sets /\ UserSets(Here)'.tables = UserSets(h)'.tables
      BY <1>2, <2>1 DEF UserSets
  <2>5. Memory'
      BY <1>2, <1>7, <2>1, <2>3, <2>4 DEF Memory, AfterDrop
  <2> QED
      BY <2>2, <2>5 DEF Kept
<1> QED
    BY <1>6, <1>7

LEMMA StepKept ==
  ASSUME Quiesced, JobInv, Kept, [Next]_jvars
  PROVE  Kept'
<1> USE DEF jvars, job, counters
<1>1. /\ Typed /\ Here \in Nodes /\ db[Here] \in Catalogs /\ snap \in SetsAndTables
      /\ \A n \in Nodes : db[n] \in Catalogs
    BY HereIsANode DEF JobInv, Typed
<1>2. CASE WaitForAll
    BY <1>2, Outside DEF WaitForAll, UserSets, AfterDrop
<1>3. CASE Connect
  <2>1. pc' \in {"connect", "exists", "reconcile"}
    <3>1. 1 \in 1 .. Len(Order) + 1
        BY Ordering
    <3> QED
        BY <1>3, <3>1, GoesOn DEF Connect
  <2> QED
      BY <1>3, <2>1, Outside DEF Connect, UserSets, AfterDrop
<1>4. CASE CheckExtension
  <2>1. CASE db[Here].ext
      BY <1>4, <2>1, Outside DEF CheckExtension, Exists, GoTo, UserSets, AfterDrop
  <2>2. CASE ~db[Here].ext
    <3>1. snap.sets = {} /\ snap.tables = {} /\ snap' = snap /\ pc' = "drop" /\ Here' = Here
        BY <1>4, <2>2 DEF CheckExtension, Exists, GoTo, JobInv, Typed, NoSets, Here
    <3>2. db[Here].sets = {} /\ db[Here].tables = {}
        BY <1>1, <2>2 DEF JobInv, Consistent
    <3>3. Memory'
        BY <1>4, <3>1, <3>2 DEF Memory, AfterDrop, CheckExtension
    <3>4. OnlyACrashLoses'
        BY <1>4, <3>1 DEF Kept, OnlyACrashLoses, CheckExtension, UserSets, AfterDrop
    <3> QED
        BY <3>3, <3>4 DEF Kept
  <2> QED
      BY <2>1, <2>2
<1>5. CASE BackupSets \/ BackupTables
  <2>1. /\ db' = db /\ wanted' = wanted /\ torn' = torn /\ Here' = Here
        /\ pc' \notin AfterDrop /\ pc \notin AfterDrop
      BY <1>5 DEF BackupSets, BackupTables, GoTo, Here, AfterDrop
  <2>2. OnlyACrashLoses'
      BY <2>1 DEF Kept, OnlyACrashLoses, UserSets
  <2>3. Memory'
    <3>1. CASE BackupSets
        BY <1>1, <2>1, <3>1 DEF BackupSets, GoTo, Memory, SetsAndTables
    <3>2. CASE BackupTables
        BY <1>1, <2>1, <3>2 DEF BackupTables, GoTo, Kept, Memory, SetsAndTables
    <3> QED
        BY <1>5, <3>1, <3>2
  <2> QED
      BY <2>2, <2>3 DEF Kept
<1>6. ASSUME NEW s \in {"drop", "create", "node", "restore"}, Statement(s)
      PROVE  Kept'
  <2>1. /\ pc = s /\ db' = [db EXCEPT ![Here] = After(pc, @)]
        /\ wanted' = wanted /\ torn' = torn /\ pc \in AfterDrop \union {"drop"}
      BY <1>6 DEF Statement, AfterDrop
  <2>2. CASE s = "restore"
    <3>1. pc' \in {"exists", "reconcile"}
        BY <1>1, <1>6, <2>2, GoOnTypes DEF Statement, Leave
    <3> QED
        BY <2>1, <2>2, <3>1, StatementKeeps
  <2>3. CASE s # "restore"
    <3>1. pc' \in AfterDrop /\ at' = at /\ snap' = snap
        BY <1>6, <2>3 DEF Statement, GoTo, Following, AfterDrop
    <3> QED
        BY <2>1, <2>3, <3>1, StatementKeeps
  <2> QED
      BY <2>2, <2>3
<1>7. ASSUME NEW s \in {"terminate", "slots", "origins"}, CleanUp(s)
      PROVE  Kept'
  <2>1. /\ pc = s /\ wanted' = wanted /\ torn' = torn /\ at' = at /\ snap' = snap
        /\ pc \in AfterDrop \ {"restore"} /\ pc' \in AfterDrop
      BY <1>7 DEF CleanUp, GoTo, Following, AfterDrop
  <2>2. CASE db' = [db EXCEPT ![Here] = After(pc, @)]
      BY <2>1, <2>2, StatementKeeps
  <2>3. CASE db' = db
    <3>1. Here' = Here /\ UserSets(Here)' = UserSets(Here)
        BY <2>1, <2>3 DEF Here, UserSets
    <3>2. Memory'
        BY <2>1, <3>1 DEF Kept, Memory, Custom, AfterDrop
    <3>3. OnlyACrashLoses'
        BY <2>1, <2>3, <3>1 DEF Kept, OnlyACrashLoses, UserSets
    <3> QED
        BY <3>2, <3>3 DEF Kept
  <2> QED
      BY <1>7, <2>1, <2>2, <2>3 DEF CleanUp
<1>8. CASE Reconcile
  <2>1. pc = "reconcile" /\ pc' = "idle" /\ wanted' = wanted /\ torn' = torn
      BY <1>8 DEF Reconcile, Exit
  <2>2. ASSUME NEW n \in Nodes
        PROVE  UserSets(n)' = UserSets(n)
    <3>1. CASE db'[n] = db[n]
        BY <3>1 DEF UserSets
    <3>2. CASE db'[n] # db[n]
      <4>1. db'[n] = After("node", db[n]) /\ db[n].local = "none"
          BY <1>1, <1>8, <3>2 DEF Reconcile, Manageable, Catalogs
      <4>2. db'[n] = Named(db[n]) /\ db[n].sets = {}
          BY <1>1, <4>1, Effects DEF JobInv, Consistent
      <4> QED
          BY <4>2 DEF UserSets, Named
    <3> QED
        BY <3>1, <3>2
  <2> QED
      BY <2>1, <2>2, Outside DEF AfterDrop
<1>9. CASE Refused
  <2>1. /\ pc = "restore" /\ pc' = "idle" /\ db' = db /\ wanted' = wanted
        /\ torn' = torn \union {Here}
      BY <1>9 DEF Refused, Exit
  <2> QED
      BY <2>1 DEF Kept, OnlyACrashLoses, Memory, UserSets, AfterDrop
<1>10. CASE Ends
  <2>1. /\ pc' = "idle" /\ wanted' = wanted
        /\ db' = db \/ (pc \in ResetSteps /\ db' = [db EXCEPT ![Here] = After(pc, @)])
      BY <1>10 DEF Ends, Exit
  <2>2. ASSUME NEW n \in Nodes, n \notin torn'
        PROVE  /\ n \notin torn /\ ~(pc \in AfterDrop /\ Here = n)
               /\ ~(db[n].ext /\ ~db'[n].ext)
      BY <1>10, <2>2 DEF Ends
  <2>3. ASSUME NEW n \in Nodes, n \notin torn'
        PROVE  UserSets(n)' = UserSets(n)
    <3>1. CASE db'[n] = db[n]
        BY <3>1 DEF UserSets
    <3>2. CASE db'[n] # db[n]
      <4>1. n = Here /\ pc \in ResetSteps \ AfterDrop /\ db'[n] = After(pc, db[n])
          BY <1>1, <2>1, <2>2, <2>3, <3>2 DEF Typed
      <4>2. pc = "drop" /\ db'[n] = Dropped(db[n])
          BY <1>1, <3>2, <4>1, Effects DEF ResetSteps
      <4>3. ~db[n].ext
          BY <2>2, <2>3, <4>2 DEF Dropped
      <4>4. db[n].sets = {} /\ db[n].tables = {}
          BY <4>3 DEF JobInv, Consistent
      <4> QED
          BY <4>2, <4>4 DEF UserSets, Dropped
    <3> QED
        BY <3>1, <3>2
  <2>4. OnlyACrashLoses'
      BY <2>1, <2>2, <2>3 DEF Kept, OnlyACrashLoses
  <2>5. Memory'
      BY <2>1 DEF Memory, AfterDrop
  <2> QED
      BY <2>4, <2>5 DEF Kept
<1>11. CASE Retry \/ Upgrade
    BY <1>11, Outside DEF Retry, Upgrade, Start, UserSets, AfterDrop
<1>12. ASSUME NEW c \in DOMAIN cluster, ClusterMoves(c)
       PROVE  Kept'
    BY <1>1, <1>12, SameSets DEF ClusterMoves
<1>13. ASSUME NEW n \in Nodes, PeerReturns(n)
       PROVE  Kept'
  <2>1. db' = [db EXCEPT ![n].left = @ \union {"walsender"}]
      BY <1>13 DEF PeerReturns
  <2>2. \A m \in Nodes : db'[m].sets = db[m].sets /\ db'[m].tables = db[m].tables
      BY <1>1, <2>1 DEF Typed, Catalogs
  <2> QED
      BY <1>1, <1>13, <2>2, SameSets DEF PeerReturns
<1>14. ASSUME NEW n \in Nodes, Edit(n)
       PROVE  Kept'
  <2>1. PICK S \in SUBSET RepSet, T \in SUBSET (RepSet \X Table) :
           /\ db' = [db EXCEPT ![n] =
                [ext |-> db[n].ext, local |-> db[n].local, sets |-> db[n].sets \union S,
                 tables |-> db[n].tables \union T, left |-> db[n].left]]
           /\ wanted' = [wanted EXCEPT ![n] =
                [sets |-> wanted[n].sets \union (S \ BuiltIn), tables |-> wanted[n].tables \union T]]
      BY <1>1, <1>14, Additions
  <2>2. /\ pc' = pc /\ Here' = Here /\ snap' = snap /\ torn' = torn
        /\ pc \in {"tables", "drop"} => Here # n
      BY <1>14 DEF Edit, Here, BackupToDrop
  <2>3. /\ \A m \in Nodes \ {n} : UserSets(m)' = UserSets(m) /\ wanted'[m] = wanted[m]
        /\ \A m \in Nodes \ {n} : db'[m] = db[m]
      BY <1>1, <2>1 DEF Typed, UserSets
  <2>4. /\ wanted'[n].sets = wanted[n].sets \union (S \ BuiltIn)
        /\ wanted'[n].tables = wanted[n].tables \union T
        /\ UserSets(n)'.sets = UserSets(n).sets \union (S \ BuiltIn)
        /\ UserSets(n)'.tables = UserSets(n).tables \union T
      BY <1>1, <2>1 DEF Typed, UserSets
  <2>5. OnlyACrashLoses'
    <3>1. ASSUME UserSets(n) = wanted[n] PROVE UserSets(n)' = wanted'[n]
        BY <1>1, <2>1, <3>1, <2>4 DEF Typed, UserSets
    <3> QED
        BY <2>2, <2>3, <3>1 DEF Kept, OnlyACrashLoses
  <2>6. CASE Here = n
    <3>1. UserSets(Here)'.sets = UserSets(n)'.sets /\ UserSets(Here)'.tables = UserSets(n)'.tables
        BY <2>2, <2>6 DEF UserSets
    <3>2. Memory'
        BY <2>2, <2>4, <2>6, <3>1 DEF Kept, Memory, Custom, AfterDrop
    <3> QED
        BY <2>5, <3>2 DEF Kept
  <2>7. CASE Here # n
    <3>1. UserSets(Here)' = UserSets(Here) /\ wanted'[Here] = wanted[Here] /\ db'[Here] = db[Here]
        BY <1>1, <2>2, <2>3, <2>7 DEF UserSets
    <3>2. Memory'
        BY <2>2, <3>1 DEF Kept, Memory, Custom
    <3> QED
        BY <2>5, <3>2 DEF Kept
  <2> QED
      BY <2>6, <2>7
<1>15. CASE UNCHANGED jvars
    BY <1>1, <1>15, SameSets
<1> QED
    BY <1>2, <1>3, <1>4, <1>5, <1>6, <1>7, <1>8, <1>9, <1>10, <1>11, <1>12, <1>13, <1>14,
       <1>15 DEF Next, JobStep

-----------------------------------------------------------------------------
(* Nothing is dropped early.                                               *)

LEMMA StepDrops ==
  ASSUME JobInv, Next, NEW n \in Nodes, db[n].ext, ~db'[n].ext
  PROVE  \A m \in Nodes : Answers(m)
<1> USE DEF jvars, job, counters
<1>1. Typed /\ Here \in Nodes /\ \A m \in Nodes : db[m] \in Catalogs
    BY HereIsANode DEF JobInv, Typed
<1>2. ASSUME pc \in ResetSteps PROVE \A m \in Nodes : Answers(m)
    BY <1>2 DEF JobInv, Waited
<1>3. CASE WaitForAll \/ Connect \/ CheckExtension \/ BackupSets \/ BackupTables \/ Refused
    BY <1>3 DEF WaitForAll, Connect, CheckExtension, BackupSets, BackupTables, Refused
<1>4. CASE \E s \in {"drop", "create", "node", "restore"} : Statement(s)
    BY <1>2, <1>4 DEF Statement, ResetSteps, AfterDrop
<1>5. CASE \E s \in {"terminate", "slots", "origins"} : CleanUp(s)
    BY <1>2, <1>5 DEF CleanUp, ResetSteps, AfterDrop
<1>6. CASE Reconcile
  <2>1. db'[n] = db[n] \/ db'[n] = Named(db[n])
      BY <1>1, <1>6, Effects DEF Reconcile, Typed
  <2> QED
      BY <2>1 DEF Named
<1>7. CASE Ends
  <2>1. pc \in ResetSteps
      BY <1>7 DEF Ends
  <2> QED
      BY <1>2, <2>1
<1>8. CASE Retry \/ Upgrade
    BY <1>8 DEF Retry, Upgrade, Start
<1>9. CASE \E c \in DOMAIN cluster : ClusterMoves(c)
    BY <1>9 DEF ClusterMoves
<1>10. ASSUME NEW m \in Nodes, PeerReturns(m) PROVE FALSE
  <2>1. db' = [db EXCEPT ![m].left = @ \union {"walsender"}]
      BY <1>10 DEF PeerReturns
  <2>2. db'[n].ext = db[n].ext
      BY <1>1, <2>1 DEF Typed, Catalogs
  <2> QED
      BY <2>2
<1>11. ASSUME NEW m \in Nodes, Edit(m) PROVE FALSE
  <2>1. PICK S \in SUBSET RepSet, T \in SUBSET (RepSet \X Table) :
           /\ db' = [db EXCEPT ![m] =
                [ext |-> db[m].ext, local |-> db[m].local, sets |-> db[m].sets \union S,
                 tables |-> db[m].tables \union T, left |-> db[m].left]]
           /\ wanted' = [wanted EXCEPT ![m] =
                [sets |-> wanted[m].sets \union (S \ BuiltIn), tables |-> wanted[m].tables \union T]]
      BY <1>1, <1>11, Additions
  <2>2. db'[n].ext = db[n].ext
      BY <1>1, <2>1 DEF Typed
  <2> QED
      BY <2>2
<1> QED
    BY <1>3, <1>4, <1>5, <1>6, <1>7, <1>8, <1>9, <1>10, <1>11 DEF Next, JobStep

-----------------------------------------------------------------------------

LEMMA Always == Spec => []JobInv
<1>1. JobInv /\ [Next]_jvars => JobInv'
    BY StepInv
<1> QED
    BY InitInv, <1>1, PTL DEF Spec

(* The job keeps its types, and between the nodes it has no replication    *)
(* sets in memory; a node without the extension has none in its catalogs.  *)
THEOREM JobTypes == Spec => []TypeOK
<1>1. JobInv => TypeOK
    BY DEF JobInv, Consistent, TypeOK
<1> QED
    BY Always, <1>1, PTL

(* Reconcile starts on nodes that have the extension and are themselves,   *)
(* for every configuration and after every sequence of runs that failed:   *)
(* the nodes that resetNode passes over were so from the start, and it     *)
(* leaves no other node before it is.                                      *)
THEOREM OwnCatalogs == Spec => []ReconcileOnOwnCatalogs
<1>1. JobInv => ReconcileOnOwnCatalogs
    BY Ordering DEF JobInv, Behind, Visited, IsReset, Spared, ReconcileOnOwnCatalogs
<1> QED
    BY Always, <1>1, PTL

(* A replication slot that resetNode does not get rid of is in the log,    *)
(* whenever the peer that reads it comes back.                             *)
THEOREM SlotsAreLogged == Spec => []SurvivorsAreLogged
<1>1. JobInv => SurvivorsAreLogged
    BY Ordering DEF JobInv, Behind, Visited, IsReset, SurvivorsAreLogged, ToReset
<1> QED
    BY Always, <1>1, PTL

(* DROP EXTENSION is not executed on any node, not even by a call that the *)
(* job does not live to see, before each of them has answered.             *)
THEOREM DropsAfterAllAnswer == Spec => TouchesNothingEarly
<1>1. JobInv /\ [Next]_jvars =>
        [(\E n \in Nodes : db[n].ext /\ ~db'[n].ext) =>
            \A m \in Nodes : cluster[m] \in {"answering", "healthy"}]_jvars
    BY StepDrops DEF Answers
<1> QED
    BY Always, <1>1, PTL DEF Spec, TouchesNothingEarly

(* Where nobody changes replication sets between their backup and DROP     *)
(* EXTENSION, a node's replication sets and tables are those its users     *)
(* made unless a run ended after its DROP and before its restore: for any  *)
(* number of nodes, tables, runs, and edits at any other time.             *)
THEOREM ResetKeepsSets ==
  ASSUME Quiesced
  PROVE  Spec => []OnlyACrashLoses
<1>1. JobInv /\ Kept /\ [Next]_jvars => Kept'
    BY StepKept
<1>2. Kept => OnlyACrashLoses
    BY DEF Kept
<1> QED
    BY Always, InitKept, <1>1, <1>2, PTL DEF Spec

=============================================================================
